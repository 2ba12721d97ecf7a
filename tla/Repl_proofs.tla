----------------------------- MODULE Repl_proofs -----------------------------
(***************************************************************************)
(* Theorems about Repl: whatever is typed and wherever the input ends, for *)
(* any names, what the example runs is well typed and about the database   *)
(* and the number that were typed.                                         *)
(***************************************************************************)
EXTENDS Repl, SequenceTheorems, TLAPS

(* The questions in a sequence of sets of them. *)

AllIn(s) == UNION {s[i] : i \in 1 .. Len(s)}

\* No question is in two of the sets.
Apart(s) == \A i, j \in 1 .. Len(s) : i # j => s[i] \cap s[j] = {}

LEMMA OneSet ==
    ASSUME NEW a
    PROVE  AllIn(<<a>>) = a /\ Apart(<<a>>)
  BY DEF AllIn, Apart

LEMMA NoSet == AllIn(<<>>) = {} /\ Apart(<<>>)
  BY DEF AllIn, Apart

LEMMA TwoSets ==
    ASSUME NEW a, NEW b, a \cap b = {}
    PROVE  AllIn(<<a, b>>) = a \cup b /\ Apart(<<a, b>>)
  <1> DEFINE s == <<a, b>>
  <1>1. Len(s) = 2 /\ s[1] = a /\ s[2] = b
    OBVIOUS
  <1> HIDE DEF s
  <1>2. \A i \in 1 .. Len(s) : i = 1 \/ i = 2
    BY <1>1
  <1>3. 1 \in 1 .. Len(s) /\ 2 \in 1 .. Len(s)
    BY <1>1
  <1>4. AllIn(s) = a \cup b
    BY <1>1, <1>2, <1>3 DEF AllIn
  <1>5. Apart(s)
    BY <1>1, <1>2 DEF Apart
  <1>6. QED BY <1>4, <1>5 DEF s

LEMMA JoinedSets ==
    ASSUME NEW S, NEW s \in Seq(S), NEW t \in Seq(S),
           Apart(s), Apart(t), AllIn(s) \cap AllIn(t) = {}
    PROVE  AllIn(s \o t) = AllIn(s) \cup AllIn(t) /\ Apart(s \o t)
  <1> DEFINE u == s \o t
  <1>1. /\ Len(s) \in Nat /\ Len(t) \in Nat /\ Len(u) = Len(s) + Len(t)
        /\ \A i \in 1 .. Len(s) : u[i] = s[i]
        /\ \A i \in 1 .. Len(t) : u[Len(s) + i] = t[i]
    BY ConcatProperties, LenProperties
  <1> HIDE DEF u
  <1>2. ASSUME NEW i \in 1 .. Len(u)
        PROVE  \/ i \in 1 .. Len(s) /\ u[i] = s[i]
               \/ i - Len(s) \in 1 .. Len(t) /\ u[i] = t[i - Len(s)]
    <2>1. CASE i <= Len(s)
      BY <1>1, <2>1
    <2>2. CASE i > Len(s)
      <3>1. i - Len(s) \in 1 .. Len(t) /\ Len(s) + (i - Len(s)) = i
        BY <1>1, <2>2
      <3>2. QED BY <1>1, <3>1
    <2>3. QED BY <1>1, <2>1, <2>2
  <1>3. \A i \in 1 .. Len(s) : i \in 1 .. Len(u)
    BY <1>1
  <1>4. \A i \in 1 .. Len(t) : Len(s) + i \in 1 .. Len(u)
    BY <1>1
  <1>5. AllIn(u) = AllIn(s) \cup AllIn(t)
    <2>1. AllIn(u) \subseteq AllIn(s) \cup AllIn(t)
      BY <1>2 DEF AllIn
    <2>2. AllIn(s) \subseteq AllIn(u)
      BY <1>1, <1>3 DEF AllIn
    <2>3. AllIn(t) \subseteq AllIn(u)
      BY <1>1, <1>4 DEF AllIn
    <2>4. QED BY <2>1, <2>2, <2>3
  <1>6. ASSUME NEW i \in 1 .. Len(u), NEW j \in 1 .. Len(u), i # j
        PROVE  u[i] \cap u[j] = {}
    <2>1. /\ \A k \in 1 .. Len(s) : s[k] \subseteq AllIn(s)
          /\ \A k \in 1 .. Len(t) : t[k] \subseteq AllIn(t)
      BY DEF AllIn
    <2>2. CASE i \in 1 .. Len(s) /\ u[i] = s[i]
      <3>1. CASE j \in 1 .. Len(s) /\ u[j] = s[j]
        BY <1>6, <2>2, <3>1 DEF Apart
      <3>2. CASE j - Len(s) \in 1 .. Len(t) /\ u[j] = t[j - Len(s)]
        BY <2>1, <2>2, <3>2
      <3>3. QED BY <1>2, <3>1, <3>2
    <2>3. CASE i - Len(s) \in 1 .. Len(t) /\ u[i] = t[i - Len(s)]
      <3>1. CASE j \in 1 .. Len(s) /\ u[j] = s[j]
        BY <2>1, <2>3, <3>1
      <3>2. CASE j - Len(s) \in 1 .. Len(t) /\ u[j] = t[j - Len(s)]
        <4>1. i - Len(s) # j - Len(s)
          BY <1>1, <1>6
        <4>2. QED BY <2>3, <3>2, <4>1 DEF Apart
      <3>3. QED BY <1>2, <3>1, <3>2
    <2>4. QED BY <1>2, <2>2, <2>3
  <1>7. Apart(u)
    BY <1>6 DEF Apart
  <1>8. QED BY <1>5, <1>7 DEF u

\* One question less.
Without(s, q) == (IF Head(s) = {q} THEN <<>> ELSE <<Head(s) \ {q}>>) \o Tail(s)

LEMMA OneLess ==
    ASSUME NEW S, NEW s \in Seq(SUBSET S), s # <<>>, Apart(s), NEW q \in Head(s)
    PROVE  /\ Without(s, q) \in Seq(SUBSET S)
           /\ AllIn(Without(s, q)) = AllIn(s) \ {q}
           /\ Apart(Without(s, q))
  <1> DEFINE h == Head(s)
             t == Tail(s)
             f == IF h = {q} THEN <<>> ELSE <<h \ {q}>>
  <1>1. /\ h \in SUBSET S /\ t \in Seq(SUBSET S) /\ s = <<h>> \o t
        /\ Len(s) = Len(t) + 1 /\ s[1] = h /\ \A i \in 1 .. Len(t) : t[i] = s[i + 1]
        /\ Len(t) \in Nat
    BY HeadTailProperties, LenProperties
  <1>2. q \in h
    OBVIOUS
  <1> HIDE DEF h, t
  <1>3. AllIn(t) \cap h = {} /\ Apart(t)
    <2>1. \A i \in 1 .. Len(t) : i + 1 \in 1 .. Len(s) /\ i + 1 # 1
      BY <1>1
    <2>2. 1 \in 1 .. Len(s)
      BY <1>1
    <2>3. \A i \in 1 .. Len(t) : t[i] \cap h = {}
      BY <1>1, <2>1, <2>2 DEF Apart
    <2>4. ASSUME NEW i \in 1 .. Len(t), NEW j \in 1 .. Len(t), i # j
          PROVE  t[i] \cap t[j] = {}
      <3>1. i + 1 \in 1 .. Len(s) /\ j + 1 \in 1 .. Len(s) /\ i + 1 # j + 1
        BY <1>1, <2>4
      <3>2. s[i + 1] \cap s[j + 1] = {}
        BY <3>1 DEF Apart
      <3>3. QED BY <1>1, <3>2
    <2>5. Apart(t)
      BY <2>4 DEF Apart
    <2>6. QED BY <2>3, <2>5 DEF AllIn
  <1>4. AllIn(s) = h \cup AllIn(t)
    <2> DEFINE a == <<h>>
    <2>1. a \in Seq(SUBSET S) /\ s = a \o t
      BY <1>1
    <2>2. Apart(a) /\ AllIn(a) = h
      BY OneSet
    <2> HIDE DEF a
    <2>3. AllIn(a \o t) = AllIn(a) \cup AllIn(t)
      BY <1>1, <1>3, <2>1, <2>2, JoinedSets
    <2>4. QED BY <2>1, <2>2, <2>3
  <1>5. f \in Seq(SUBSET S) /\ AllIn(f) = h \ {q} /\ Apart(f)
    <2>1. CASE h = {q}
      BY <2>1, NoSet
    <2>2. CASE h # {q}
      BY <1>1, <2>2, OneSet
    <2>3. QED BY <2>1, <2>2
  <1> HIDE DEF f
  <1>6. f \o t \in Seq(SUBSET S)
    BY <1>1, <1>5
  <1>7. AllIn(f \o t) = AllIn(f) \cup AllIn(t) /\ Apart(f \o t)
    BY <1>1, <1>3, <1>5, JoinedSets
  <1>8. Without(s, q) = f \o t
    BY DEF Without, f, t, h
  <1>9. QED BY <1>2, <1>3, <1>4, <1>5, <1>6, <1>7, <1>8

-----------------------------------------------------------------------------
(* The questions of each command. *)

Wanted(c) ==
    CASE c \in {"use", "db_create", "db_drop"}          -> {"name"}
      [] c = "db_list"                                  -> {}
      [] c = "table_list"                               -> {"db"}
      [] c \in {"table", "table_create", "table_drop"}  -> {"db", "table"}
      [] c = "insert"                                   -> {"db", "table", "count"}
      [] c = "between"                                  -> {"db", "table", "from", "until"}
      [] c = "filter"                                   -> {"db", "table", "key", "value"}
      [] c \in {"get", "remove"}                        -> {"db", "table", "id"}
      [] c = "update"                                   -> {"db", "table", "id", "key", "value"}
      [] c = "order_by"                                 -> {"db", "table", "order"}
      [] c = "limit"                                    -> {"db", "table", "order", "limit"}
      [] c = "skip"                                     -> {"db", "table", "order", "skip"}

\* s asks for what is in the set a, for nothing twice.
AsksFor(s, a) == s \in Seq(SUBSET Question) /\ Apart(s) /\ AllIn(s) = a

LEMMA AskNothing == AsksFor(<<>>, {})
  BY NoSet DEF AsksFor

LEMMA AskOne ==
    ASSUME NEW a \in SUBSET Question
    PROVE  AsksFor(<<a>>, a)
  <1>1. <<a>> \in Seq(SUBSET Question)
    OBVIOUS
  <1>2. QED BY <1>1, OneSet DEF AsksFor

LEMMA AskTwo ==
    ASSUME NEW a \in SUBSET Question, NEW b \in SUBSET Question, a \cap b = {}
    PROVE  AsksFor(<<a, b>>, a \cup b)
  <1>1. <<a, b>> \in Seq(SUBSET Question)
    OBVIOUS
  <1>2. QED BY <1>1, TwoSets DEF AsksFor

LEMMA AskMore ==
    ASSUME NEW s, NEW t, NEW a, NEW b, AsksFor(s, a), AsksFor(t, b), a \cap b = {}
    PROVE  AsksFor(s \o t, a \cup b)
  <1>1. /\ s \in Seq(SUBSET Question) /\ Apart(s) /\ AllIn(s) = a
        /\ t \in Seq(SUBSET Question) /\ Apart(t) /\ AllIn(t) = b
    BY DEF AsksFor
  <1>2. AllIn(s \o t) = AllIn(s) \cup AllIn(t) /\ Apart(s \o t)
    BY <1>1, JoinedSets
  <1>3. s \o t \in Seq(SUBSET Question)
    BY <1>1
  <1>4. QED BY <1>1, <1>2, <1>3 DEF AsksFor

LEMMA AskOnTable ==
    ASSUME NEW t, NEW b, AsksFor(t, b), "db" \notin b, "table" \notin b
    PROVE  AsksFor(<<{"db"}, {"table"}>> \o t, {"db", "table"} \cup b)
  <1> DEFINE s == <<{"db"}, {"table"}>>
  <1>1. AsksFor(s, {"db"} \cup {"table"})
    BY AskTwo DEF Question
  <1> HIDE DEF s
  <1>2. {"db"} \cup {"table"} = {"db", "table"} /\ {"db", "table"} \cap b = {}
    OBVIOUS
  <1>3. AsksFor(s \o t, {"db", "table"} \cup b)
    BY <1>1, <1>2, AskMore
  <1>4. QED BY <1>3 DEF s

LEMMA QuestionsAre ==
    ASSUME NEW c \in Commands
    PROVE  AsksFor(Questions[c], Wanted(c))
  <1> DEFINE onTable(q) == <<{"db"}, {"table"}>> \o q
  <1>1. CASE c \in {"use", "db_create", "db_drop"}
    <2>1. Questions[c] = <<{"name"}>> /\ Wanted(c) = {"name"}
      BY <1>1 DEF Questions, Wanted
    <2>2. QED BY <2>1, AskOne DEF Question
  <1>2. CASE c = "db_list"
    <2>1. Questions[c] = <<>> /\ Wanted(c) = {}
      BY <1>2 DEF Questions, Wanted
    <2>2. QED BY <2>1, AskNothing
  <1>3. CASE c = "table_list"
    <2>1. Questions[c] = <<{"db"}>> /\ Wanted(c) = {"db"}
      BY <1>3 DEF Questions, Wanted
    <2>2. QED BY <2>1, AskOne DEF Question
  <1>4. CASE c \in {"table", "table_create", "table_drop"}
    <2>1. Questions[c] = onTable(<<>>) /\ Wanted(c) = {"db", "table"} \cup {}
      BY <1>4 DEF Questions, Wanted
    <2>2. QED BY <2>1, AskNothing, AskOnTable
  <1>5. CASE c = "insert"
    <2>1. Questions[c] = onTable(<<{"count"}>>) /\ Wanted(c) = {"db", "table"} \cup {"count"}
      BY <1>5 DEF Questions, Wanted
    <2>2. AsksFor(<<{"count"}>>, {"count"})
      BY AskOne DEF Question
    <2>3. QED BY <2>1, <2>2, AskOnTable
  <1>6. CASE c = "between"
    <2>1. /\ Questions[c] = onTable(<<{"from", "until"}>>)
          /\ Wanted(c) = {"db", "table"} \cup {"from", "until"}
      BY <1>6 DEF Questions, Wanted
    <2>2. AsksFor(<<{"from", "until"}>>, {"from", "until"})
      BY AskOne DEF Question
    <2>3. QED BY <2>1, <2>2, AskOnTable
  <1>7. CASE c = "filter"
    <2>1. /\ Questions[c] = onTable(<<{"key", "value"}>>)
          /\ Wanted(c) = {"db", "table"} \cup {"key", "value"}
      BY <1>7 DEF Questions, Wanted
    <2>2. AsksFor(<<{"key", "value"}>>, {"key", "value"})
      BY AskOne DEF Question
    <2>3. QED BY <2>1, <2>2, AskOnTable
  <1>8. CASE c \in {"get", "remove"}
    <2>1. Questions[c] = onTable(<<{"id"}>>) /\ Wanted(c) = {"db", "table"} \cup {"id"}
      BY <1>8 DEF Questions, Wanted
    <2>2. AsksFor(<<{"id"}>>, {"id"})
      BY AskOne DEF Question
    <2>3. QED BY <2>1, <2>2, AskOnTable
  <1>9. CASE c = "update"
    <2>1. /\ Questions[c] = onTable(<<{"id", "key", "value"}>>)
          /\ Wanted(c) = {"db", "table"} \cup {"id", "key", "value"}
      BY <1>9 DEF Questions, Wanted
    <2>2. AsksFor(<<{"id", "key", "value"}>>, {"id", "key", "value"})
      BY AskOne DEF Question
    <2>3. QED BY <2>1, <2>2, AskOnTable
  <1>10. CASE c = "order_by"
    <2>1. Questions[c] = onTable(<<{"order"}>>) /\ Wanted(c) = {"db", "table"} \cup {"order"}
      BY <1>10 DEF Questions, Wanted
    <2>2. AsksFor(<<{"order"}>>, {"order"})
      BY AskOne DEF Question
    <2>3. QED BY <2>1, <2>2, AskOnTable
  <1>11. CASE c = "limit"
    <2>1. /\ Questions[c] = onTable(<<{"order"}, {"limit"}>>)
          /\ Wanted(c) = {"db", "table"} \cup {"order", "limit"}
      BY <1>11 DEF Questions, Wanted
    <2>2. AsksFor(<<{"order"}, {"limit"}>>, {"order"} \cup {"limit"})
      BY AskTwo DEF Question
    <2>3. {"order"} \cup {"limit"} = {"order", "limit"}
      OBVIOUS
    <2>4. QED BY <2>1, <2>2, <2>3, AskOnTable
  <1>12. CASE c = "skip"
    <2>1. /\ Questions[c] = onTable(<<{"order"}, {"skip"}>>)
          /\ Wanted(c) = {"db", "table"} \cup {"order", "skip"}
      BY <1>12 DEF Questions, Wanted
    <2>2. AsksFor(<<{"order"}, {"skip"}>>, {"order"} \cup {"skip"})
      BY AskTwo DEF Question
    <2>3. {"order"} \cup {"skip"} = {"order", "skip"}
      OBVIOUS
    <2>4. QED BY <2>1, <2>2, <2>3, AskOnTable
  <1>13. QED
    BY <1>1, <1>2, <1>3, <1>4, <1>5, <1>6, <1>7, <1>8, <1>9, <1>10, <1>11, <1>12
    DEF Commands, Questions

Objects(n) ==
    IF n = 1 THEN {"key", "value"}
    ELSE IF n = 2 THEN {"key", "value", "key 2", "value 2"} ELSE {}

LEMMA PairsAre ==
    ASSUME NEW n \in {-1, 0, 1, 2}
    PROVE  AsksFor(Pairs(n), Objects(n))
  <1>1. CASE n \in {-1, 0}
    <2>1. Pairs(n) = <<>>
      BY <1>1 DEF Pairs
    <2>2. Objects(n) = {}
      <3>1. n # 1 /\ n # 2
        BY <1>1
      <3>2. QED BY <3>1, Zenon DEF Objects
    <2>3. QED BY <2>1, <2>2, AskNothing
  <1>2. CASE n = 1
    <2>1. Pairs(n) = <<{"key", "value"}>> /\ Objects(n) = {"key", "value"}
      BY <1>2 DEF Pairs, Objects
    <2>2. QED BY <2>1, AskOne DEF Question
  <1>3. CASE n = 2
    <2>1. Pairs(n) = <<{"key", "value"}, {"key 2", "value 2"}>>
      <3>1. ~ (n <= 0) /\ n # 1
        BY <1>3
      <3>2. QED BY <1>3, <3>1, Zenon DEF Pairs
    <2>2. Objects(n) = {"key", "value", "key 2", "value 2"}
      BY <1>3 DEF Objects
    <2>3. {"key", "value"} \cup {"key 2", "value 2"} = {"key", "value", "key 2", "value 2"}
      OBVIOUS
    <2>4. AsksFor(<<{"key", "value"}, {"key 2", "value 2"}>>,
                  {"key", "value"} \cup {"key 2", "value 2"})
      BY AskTwo DEF Question
    <2>5. QED BY <2>1, <2>2, <2>3, <2>4
  <1>4. QED BY <1>1, <1>2, <1>3

-----------------------------------------------------------------------------
(* The terms of the queries. *)

LEMMA TermsAre ==
    ASSUME NEW a, NEW b, NEW c
    PROVE  /\ Terms(<<>>) = <<>>
           /\ Terms(<<a>>) = <<a.term>>
           /\ Terms(<<a, b>>) = <<a.term, b.term>>
           /\ Terms(<<a, b, c>>) = <<a.term, b.term, c.term>>
  BY DEF Terms

\* A class that has what a signature asks for, by the type of the term.
LEMMA AboveHas ==
    /\ "String" \in Above["String"] /\ "Datum" \in Above["String"]
    /\ "Number" \in Above["Number"] /\ "Object" \in Above["Object"]
    /\ "Datum" \in Above["Object"] /\ "Sequence" \in Above["Array"]
    /\ "Database" \in Above["Database"] /\ "Ordering" \in Above["Ordering"]
    /\ "Sequence" \in Above["Sequence"] /\ "Single_Selection" \in Above["Single_Selection"]
    /\ "Table" \in Above["Table"] /\ "Stream_Selection" \in Above["Table"]
    /\ "Sequence" \in Above["Table"]
    /\ {"Top", "Array", "Object", "Table", "Stream_Selection", "Sequence",
        "Single_Selection"} \subseteq Classes
  BY DEF Above, Classes

LEMMA DatumTypesAre ==
    ASSUME NEW d
    PROVE  /\ d.kind = "R_STR" => TypesOfValue(DatumTerm(d)) = Above["String"]
           /\ d.kind = "R_NUM" => TypesOfValue(DatumTerm(d)) = Above["Number"]
           /\ d.kind = "R_OBJECT" => TypesOfValue(DatumTerm(d)) = Above["Object"]
  BY DEF TypesOfValue, DatumTypes, DatumTerm

LEMMA TermTypesAre ==
    ASSUME NEW type \in DOMAIN Result, NEW args
    PROVE  TypesOfValue(Term(type, args)) = Above[Result[type]]
  <1>1. type # "none" /\ type # "DATUM"
    BY DEF Result
  <1>2. Term(type, args).type = type
    BY DEF Term
  <1>3. QED BY <1>1, <1>2 DEF TypesOfValue

\* A term with the arguments that its signature asks for.
LEMMA FitsOne ==
    ASSUME NEW type, NEW a, NEW S, Signature(type, 1) = <<S>>, TypesOfValue(a) \cap S # {}
    PROVE  Fits(Term(type, <<a>>))
  <1> DEFINE t == Term(type, <<a>>)
  <1>1. t.type = type /\ Len(t.args) = 1 /\ t.args[1] = a
    BY DEF Term
  <1>2. Len(Signature(type, 1)) = 1 /\ Signature(type, 1)[1] = S
    OBVIOUS
  <1> HIDE DEF t
  <1>3. \A i \in 1 .. Len(t.args) : i = 1
    BY <1>1
  <1>4. ArgumentFits(t, 1)
    BY <1>1, <1>2 DEF ArgumentFits
  <1>5. QED BY <1>1, <1>2, <1>3, <1>4 DEF Fits, FitsBut, t

LEMMA FitsPair ==
    ASSUME NEW type, NEW a, NEW b, NEW S, NEW T, Signature(type, 2) = <<S, T>>,
           TypesOfValue(a) \cap S # {}, TypesOfValue(b) \cap T # {}
    PROVE  Fits(Term(type, <<a, b>>))
  <1> DEFINE t == Term(type, <<a, b>>)
  <1>1. t.type = type /\ Len(t.args) = 2 /\ t.args[1] = a /\ t.args[2] = b
    BY DEF Term
  <1>2. /\ Len(Signature(type, 2)) = 2
        /\ Signature(type, 2)[1] = S /\ Signature(type, 2)[2] = T
    OBVIOUS
  <1> HIDE DEF t
  <1>3. \A i \in 1 .. Len(t.args) : i = 1 \/ i = 2
    BY <1>1
  <1>4. ArgumentFits(t, 1) /\ ArgumentFits(t, 2)
    BY <1>1, <1>2 DEF ArgumentFits
  <1>5. QED BY <1>1, <1>2, <1>3, <1>4 DEF Fits, FitsBut, t

LEMMA FitsTriple ==
    ASSUME NEW type, NEW a, NEW b, NEW c, NEW S, NEW T, NEW U,
           Signature(type, 3) = <<S, T, U>>, TypesOfValue(a) \cap S # {},
           TypesOfValue(b) \cap T # {}, TypesOfValue(c) \cap U # {}
    PROVE  Fits(Term(type, <<a, b, c>>))
  <1> DEFINE t == Term(type, <<a, b, c>>)
  <1>1. /\ t.type = type /\ Len(t.args) = 3
        /\ t.args[1] = a /\ t.args[2] = b /\ t.args[3] = c
    BY DEF Term
  <1>2. /\ Len(Signature(type, 3)) = 3
        /\ Signature(type, 3)[1] = S /\ Signature(type, 3)[2] = T /\ Signature(type, 3)[3] = U
    OBVIOUS
  <1> HIDE DEF t
  <1>3. \A i \in 1 .. Len(t.args) : i = 1 \/ i = 2 \/ i = 3
    BY <1>1
  <1>4. ArgumentFits(t, 1) /\ ArgumentFits(t, 2) /\ ArgumentFits(t, 3)
    BY <1>1, <1>2 DEF ArgumentFits
  <1>5. QED BY <1>1, <1>2, <1>3, <1>4 DEF Fits, FitsBut, t

\* What fits down to one depth fits down to a greater one.
LEMMA FitsDeeper ==
    ASSUME NEW t
    PROVE  /\ FitsAlone(t) => FitsTwo(t)
           /\ FitsTwo(t) => FitsThree(t)
           /\ FitsThree(t) => FitsFour(t)
           /\ FitsFour(t) => FitsAll(t)
  <1>1. \A u : FitsAlone(u) => FitsTwo(u)
    BY DEF FitsAlone, FitsTwo, FitsOver
  <1>2. \A u : FitsTwo(u) => FitsThree(u)
    BY <1>1 DEF FitsTwo, FitsThree, FitsOver
  <1>3. \A u : FitsThree(u) => FitsFour(u)
    BY <1>2 DEF FitsThree, FitsFour, FitsOver
  <1>4. \A u : FitsFour(u) => FitsAll(u)
    BY <1>3 DEF FitsFour, FitsAll, FitsOver
  <1>5. QED BY <1>1, <1>2, <1>3, <1>4

\* A term that fits, over arguments that do down to some depth.
LEMMA OverOne ==
    ASSUME NEW type, NEW a, Fits(Term(type, <<a>>))
    PROVE  /\ FitsAlone(a) => FitsTwo(Term(type, <<a>>))
           /\ FitsTwo(a) => FitsThree(Term(type, <<a>>))
           /\ FitsThree(a) => FitsFour(Term(type, <<a>>))
           /\ FitsFour(a) => FitsAll(Term(type, <<a>>))
  <1> DEFINE t == Term(type, <<a>>)
  <1>1. Len(t.args) = 1 /\ t.args[1] = a
    BY DEF Term
  <1> HIDE DEF t
  <1>2. \A i \in 1 .. Len(t.args) : t.args[i] = a
    <2>1. \A i \in 1 .. Len(t.args) : i = 1
      BY <1>1
    <2>2. QED BY <1>1, <2>1
  <1>3. Fits(t)
    BY DEF t
  <1>4. FitsAlone(a) => FitsTwo(t)
    BY <1>2, <1>3 DEF FitsTwo, FitsOver
  <1>5. FitsTwo(a) => FitsThree(t)
    BY <1>2, <1>3 DEF FitsThree, FitsOver
  <1>6. FitsThree(a) => FitsFour(t)
    BY <1>2, <1>3 DEF FitsFour, FitsOver
  <1>7. FitsFour(a) => FitsAll(t)
    BY <1>2, <1>3 DEF FitsAll, FitsOver
  <1>8. QED BY <1>4, <1>5, <1>6, <1>7 DEF t

LEMMA OverPair ==
    ASSUME NEW type, NEW a, NEW b, Fits(Term(type, <<a, b>>))
    PROVE  /\ FitsAlone(a) /\ FitsAlone(b) => FitsTwo(Term(type, <<a, b>>))
           /\ FitsTwo(a) /\ FitsTwo(b) => FitsThree(Term(type, <<a, b>>))
           /\ FitsThree(a) /\ FitsThree(b) => FitsFour(Term(type, <<a, b>>))
           /\ FitsFour(a) /\ FitsFour(b) => FitsAll(Term(type, <<a, b>>))
  <1> DEFINE t == Term(type, <<a, b>>)
  <1>1. Len(t.args) = 2 /\ t.args[1] = a /\ t.args[2] = b
    BY DEF Term
  <1> HIDE DEF t
  <1>2. \A i \in 1 .. Len(t.args) : t.args[i] \in {a, b}
    <2>1. \A i \in 1 .. Len(t.args) : i = 1 \/ i = 2
      BY <1>1
    <2>2. QED BY <1>1, <2>1
  <1>3. Fits(t)
    BY DEF t
  <1>4. FitsAlone(a) /\ FitsAlone(b) => FitsTwo(t)
    BY <1>2, <1>3 DEF FitsTwo, FitsOver
  <1>5. FitsTwo(a) /\ FitsTwo(b) => FitsThree(t)
    BY <1>2, <1>3 DEF FitsThree, FitsOver
  <1>6. FitsThree(a) /\ FitsThree(b) => FitsFour(t)
    BY <1>2, <1>3 DEF FitsFour, FitsOver
  <1>7. FitsFour(a) /\ FitsFour(b) => FitsAll(t)
    BY <1>2, <1>3 DEF FitsAll, FitsOver
  <1>8. QED BY <1>4, <1>5, <1>6, <1>7 DEF t

LEMMA OverTriple ==
    ASSUME NEW type, NEW a, NEW b, NEW c, Fits(Term(type, <<a, b, c>>))
    PROVE  /\ FitsAlone(a) /\ FitsAlone(b) /\ FitsAlone(c) => FitsTwo(Term(type, <<a, b, c>>))
           /\ FitsTwo(a) /\ FitsTwo(b) /\ FitsTwo(c) => FitsThree(Term(type, <<a, b, c>>))
           /\ FitsThree(a) /\ FitsThree(b) /\ FitsThree(c) => FitsFour(Term(type, <<a, b, c>>))
           /\ FitsFour(a) /\ FitsFour(b) /\ FitsFour(c) => FitsAll(Term(type, <<a, b, c>>))
  <1> DEFINE t == Term(type, <<a, b, c>>)
  <1>1. Len(t.args) = 3 /\ t.args[1] = a /\ t.args[2] = b /\ t.args[3] = c
    BY DEF Term
  <1> HIDE DEF t
  <1>2. \A i \in 1 .. Len(t.args) : t.args[i] \in {a, b, c}
    <2>1. \A i \in 1 .. Len(t.args) : i = 1 \/ i = 2 \/ i = 3
      BY <1>1
    <2>2. QED BY <1>1, <2>1
  <1>3. Fits(t)
    BY DEF t
  <1>4. FitsAlone(a) /\ FitsAlone(b) /\ FitsAlone(c) => FitsTwo(t)
    BY <1>2, <1>3 DEF FitsTwo, FitsOver
  <1>5. FitsTwo(a) /\ FitsTwo(b) /\ FitsTwo(c) => FitsThree(t)
    BY <1>2, <1>3 DEF FitsThree, FitsOver
  <1>6. FitsThree(a) /\ FitsThree(b) /\ FitsThree(c) => FitsFour(t)
    BY <1>2, <1>3 DEF FitsFour, FitsOver
  <1>7. FitsFour(a) /\ FitsFour(b) /\ FitsFour(c) => FitsAll(t)
    BY <1>2, <1>3 DEF FitsAll, FitsOver
  <1>8. QED BY <1>4, <1>5, <1>6, <1>7 DEF t

\* What the example builds its queries from.
StringTerm(s)    == DatumTerm([kind |-> "R_STR", str |-> s])
NumberTerm(n)    == DatumTerm([kind |-> "R_NUM", num |-> n])
ObjectTerm(k, v) == DatumTerm([kind |-> "R_OBJECT", key |-> k, val |-> v])
DbTerm(d)        == Term("DB", <<StringTerm(d)>>)
TableTerm(d, s)  == Term("TABLE", <<DbTerm(d), StringTerm(s)>>)
GetTerm(d, s, k) == Term("GET", <<TableTerm(d, s), StringTerm(k)>>)
AscTerm(k)       == Term("ASC", <<StringTerm(k)>>)
OrderTerm(d, s, k) == Term("ORDERBY", <<TableTerm(d, s), AscTerm(k)>>)
ArrayTerm(o1, o2)  == Term("MAKE_ARRAY", <<o1, o2>>)

LEMMA DatumFits ==
    ASSUME NEW d, d.kind \in {"R_STR", "R_NUM", "R_OBJECT"}
    PROVE  FitsAlone(DatumTerm(d))
  <1>1. /\ DatumTerm(d).args = <<>> /\ DatumTerm(d).type = "DATUM"
        /\ Signature("DATUM", 0) = <<>>
    BY DEF DatumTerm, Signature
  <1>2. QED BY <1>1 DEF FitsAlone, Fits, FitsBut

LEMMA StringFits ==
    ASSUME NEW s
    PROVE  /\ FitsAlone(StringTerm(s)) /\ TypesOfValue(StringTerm(s)) = Above["String"]
           /\ StringTerm(s).datum.str = s
  <1>1. [kind |-> "R_STR", str |-> s].kind = "R_STR"
    OBVIOUS
  <1>2. StringTerm(s).datum.str = s
    BY DEF StringTerm, DatumTerm
  <1>3. QED BY <1>1, <1>2, DatumFits, DatumTypesAre DEF StringTerm

LEMMA NumberFits ==
    ASSUME NEW n
    PROVE  /\ FitsAlone(NumberTerm(n)) /\ TypesOfValue(NumberTerm(n)) = Above["Number"]
           /\ NumberTerm(n).datum.num = n
  <1>1. [kind |-> "R_NUM", num |-> n].kind = "R_NUM"
    OBVIOUS
  <1>2. NumberTerm(n).datum.num = n
    BY DEF NumberTerm, DatumTerm
  <1>3. QED BY <1>1, <1>2, DatumFits, DatumTypesAre DEF NumberTerm

LEMMA ObjectFits ==
    ASSUME NEW k, NEW v
    PROVE  FitsAlone(ObjectTerm(k, v)) /\ TypesOfValue(ObjectTerm(k, v)) = Above["Object"]
  <1>1. [kind |-> "R_OBJECT", key |-> k, val |-> v].kind = "R_OBJECT"
    OBVIOUS
  <1>2. QED BY <1>1, DatumFits, DatumTypesAre DEF ObjectTerm

LEMMA DbFits ==
    ASSUME NEW d
    PROVE  FitsTwo(DbTerm(d)) /\ TypesOfValue(DbTerm(d)) = Above["Database"]
  <1> DEFINE a == StringTerm(d)
  <1>1. FitsAlone(a) /\ TypesOfValue(a) = Above["String"]
    BY StringFits
  <1>2. DbTerm(d) = Term("DB", <<a>>)
    BY DEF DbTerm
  <1> HIDE DEF a
  <1>3. Signature("DB", 1) = <<{"String"}>>
    BY DEF Signature
  <1>4. Fits(Term("DB", <<a>>))
    BY <1>1, <1>3, AboveHas, FitsOne
  <1>5. FitsTwo(Term("DB", <<a>>))
    BY <1>1, <1>4, OverOne
  <1>6. "DB" \in DOMAIN Result /\ Result["DB"] = "Database"
    BY DEF Result
  <1>7. QED BY <1>2, <1>5, <1>6, TermTypesAre

LEMMA TableFits ==
    ASSUME NEW d, NEW s
    PROVE  FitsThree(TableTerm(d, s)) /\ TypesOfValue(TableTerm(d, s)) = Above["Table"]
  <1> DEFINE a == DbTerm(d)
             b == StringTerm(s)
  <1>1. /\ FitsTwo(a) /\ TypesOfValue(a) = Above["Database"]
        /\ FitsTwo(b) /\ TypesOfValue(b) = Above["String"]
    BY DbFits, StringFits, FitsDeeper
  <1>2. TableTerm(d, s) = Term("TABLE", <<a, b>>)
    BY DEF TableTerm
  <1> HIDE DEF a, b
  <1>3. Signature("TABLE", 2) = <<{"Database"}, {"String"}>>
    BY DEF Signature
  <1>4. Fits(Term("TABLE", <<a, b>>))
    BY <1>1, <1>3, AboveHas, FitsPair
  <1>5. FitsThree(Term("TABLE", <<a, b>>))
    BY <1>1, <1>4, OverPair
  <1>6. "TABLE" \in DOMAIN Result /\ Result["TABLE"] = "Table"
    BY DEF Result
  <1>7. QED BY <1>2, <1>5, <1>6, TermTypesAre

LEMMA GetFits ==
    ASSUME NEW d, NEW s, NEW k
    PROVE  /\ FitsFour(GetTerm(d, s, k))
           /\ TypesOfValue(GetTerm(d, s, k)) = Above["Single_Selection"]
  <1> DEFINE a == TableTerm(d, s)
             b == StringTerm(k)
  <1>1. /\ FitsThree(a) /\ TypesOfValue(a) = Above["Table"]
        /\ FitsThree(b) /\ TypesOfValue(b) = Above["String"]
    BY TableFits, StringFits, FitsDeeper
  <1>2. GetTerm(d, s, k) = Term("GET", <<a, b>>)
    BY DEF GetTerm
  <1> HIDE DEF a, b
  <1>3. Signature("GET", 2) = <<{"Table"}, {"String", "Number"}>>
    BY DEF Signature
  <1>4. Fits(Term("GET", <<a, b>>))
    BY <1>1, <1>3, AboveHas, FitsPair
  <1>5. FitsFour(Term("GET", <<a, b>>))
    BY <1>1, <1>4, OverPair
  <1>6. "GET" \in DOMAIN Result /\ Result["GET"] = "Single_Selection"
    BY DEF Result
  <1>7. QED BY <1>2, <1>5, <1>6, TermTypesAre

LEMMA OrderFits ==
    ASSUME NEW d, NEW s, NEW k
    PROVE  /\ FitsFour(OrderTerm(d, s, k))
           /\ TypesOfValue(OrderTerm(d, s, k)) = Above["Sequence"]
  <1> DEFINE a == TableTerm(d, s)
             b == AscTerm(k)
             c == StringTerm(k)
  <1>1. /\ FitsThree(a) /\ TypesOfValue(a) = Above["Table"]
        /\ FitsAlone(c) /\ TypesOfValue(c) = Above["String"]
    BY TableFits, StringFits
  <1>2. OrderTerm(d, s, k) = Term("ORDERBY", <<a, b>>) /\ b = Term("ASC", <<c>>)
    BY DEF OrderTerm, AscTerm
  <1> HIDE DEF a, b, c
  <1>3. /\ Signature("ORDERBY", 2) = <<{"Sequence"}, {"String", "Ordering"}>>
        /\ Signature("ASC", 1) = <<{"String"}>>
    BY DEF Signature
  <1>4. /\ "ORDERBY" \in DOMAIN Result /\ Result["ORDERBY"] = "Sequence"
        /\ "ASC" \in DOMAIN Result /\ Result["ASC"] = "Ordering"
    BY DEF Result
  <1>5. Fits(Term("ASC", <<c>>))
    BY <1>1, <1>3, AboveHas, FitsOne
  <1>6. FitsThree(b) /\ TypesOfValue(b) = Above["Ordering"]
    <2>1. FitsTwo(Term("ASC", <<c>>))
      BY <1>1, <1>5, OverOne
    <2>2. QED BY <1>2, <1>4, <2>1, FitsDeeper, TermTypesAre
  <1>7. Fits(Term("ORDERBY", <<a, b>>))
    BY <1>1, <1>3, <1>6, AboveHas, FitsPair
  <1>8. FitsFour(Term("ORDERBY", <<a, b>>))
    BY <1>1, <1>6, <1>7, OverPair
  <1>9. QED BY <1>2, <1>4, <1>8, TermTypesAre

LEMMA ArrayFits ==
    ASSUME NEW j, NEW v, NEW k, NEW w
    PROVE  LET t == ArrayTerm(ObjectTerm(j, v), ObjectTerm(k, w))
           IN  FitsTwo(t) /\ TypesOfValue(t) = Above["Array"]
  <1> DEFINE a == ObjectTerm(j, v)
             b == ObjectTerm(k, w)
  <1>1. /\ FitsAlone(a) /\ TypesOfValue(a) = Above["Object"]
        /\ FitsAlone(b) /\ TypesOfValue(b) = Above["Object"]
    BY ObjectFits
  <1> HIDE DEF a, b
  <1>2. ArrayTerm(a, b) = Term("MAKE_ARRAY", <<a, b>>)
    BY DEF ArrayTerm
  <1>3. Signature("MAKE_ARRAY", 2) = <<{"Datum"}, {"Datum"}>>
    BY DEF Signature
  <1>4. Fits(Term("MAKE_ARRAY", <<a, b>>))
    BY <1>1, <1>3, AboveHas, FitsPair
  <1>5. FitsTwo(Term("MAKE_ARRAY", <<a, b>>))
    BY <1>1, <1>4, OverPair
  <1>6. "MAKE_ARRAY" \in DOMAIN Result /\ Result["MAKE_ARRAY"] = "Array"
    BY DEF Result
  <1>7. QED BY <1>2, <1>5, <1>6, TermTypesAre DEF a, b

-----------------------------------------------------------------------------
(* The database of a query. *)

LEMMA TowardsFirst ==
    ASSUME NEW type, type # "DB", NEW args
    PROVE  Towards(Term(type, args)) = args[1]
  BY DEF Towards, Term

LEMMA DbFound ==
    ASSUME NEW d
    PROVE  /\ Towards(DbTerm(d)) = DbTerm(d)
           /\ DbTerm(d).args[1].datum.str = d
  <1>1. DbTerm(d).type = "DB" /\ DbTerm(d).args[1] = StringTerm(d)
    BY DEF DbTerm, Term
  <1>2. QED BY <1>1, StringFits DEF Towards

LEMMA TableFound ==
    ASSUME NEW d, NEW s, NEW k
    PROVE  /\ Towards(TableTerm(d, s)) = DbTerm(d)
           /\ Towards(GetTerm(d, s, k)) = TableTerm(d, s)
           /\ Towards(OrderTerm(d, s, k)) = TableTerm(d, s)
  BY TowardsFirst DEF TableTerm, GetTerm, OrderTerm

\* Wherever it starts, the way down ends at the database.
LEMMA DatabaseFound ==
    ASSUME NEW d, NEW s, NEW k, NEW type, type # "DB", NEW args,
           args[1] \in {DbTerm(d), TableTerm(d, s), GetTerm(d, s, k), OrderTerm(d, s, k)}
    PROVE  DatabaseOf(Term(type, args)) = d
  <1> DEFINE a == args[1]
  <1>1. Towards(Term(type, args)) = a
    BY TowardsFirst
  <1>2. Towards(Towards(a)) = DbTerm(d)
    BY DbFound, TableFound
  <1>3. DatabaseOf(Term(type, args)) = DbTerm(d).args[1].datum.str
    BY <1>1, <1>2 DEF DatabaseOf
  <1>4. QED BY <1>3, DbFound

(* What the methods build. *)

\* The database that the answers mean.
Meant == IF answers["db"] = "" THEN database ELSE answers["db"]

LEMMA StrIs ==
    ASSUME NEW q
    PROVE  str(q).term = StringTerm(answers[q])
  BY DEF str, RQL_String, Datum, StringTerm

LEMMA PairIs ==
    ASSUME NEW k, NEW v
    PROVE  \E x : Pair(k, v).term = ObjectTerm(answers[k], x)
  BY DEF Pair, RQL_Object, Datum, ObjectTerm

LEMMA MadeOfNone ==
    ASSUME NEW o, NEW class, NEW type
    PROVE  LET m == Made(o, class, type, <<>>)
           IN  m.class = class /\ m.conn = o.conn /\ m.term = Term(type, <<>>)
  BY TermsAre DEF Made

LEMMA MadeOfOne ==
    ASSUME NEW o, NEW class, NEW type, NEW a
    PROVE  LET m == Made(o, class, type, <<a>>)
           IN  m.class = class /\ m.conn = o.conn /\ m.term = Term(type, <<a.term>>)
  <1>1. Terms(<<a>>) = <<a.term>>
    BY TermsAre
  <1>2. QED BY <1>1 DEF Made

LEMMA MadeOfTwo ==
    ASSUME NEW o, NEW class, NEW type, NEW a, NEW b
    PROVE  LET m == Made(o, class, type, <<a, b>>)
           IN  m.class = class /\ m.conn = o.conn /\ m.term = Term(type, <<a.term, b.term>>)
  <1>1. Terms(<<a, b>>) = <<a.term, b.term>>
    BY TermsAre
  <1>2. QED BY <1>1 DEF Made

LEMMA MadeOfThree ==
    ASSUME NEW o, NEW class, NEW type, NEW a, NEW b, NEW c
    PROVE  LET m == Made(o, class, type, <<a, b, c>>)
           IN  m.class = class /\ m.conn = o.conn /\ m.term = Term(type, <<a.term, b.term, c.term>>)
  <1>1. Terms(<<a, b, c>>) = <<a.term, b.term, c.term>>
    BY TermsAre
  <1>2. QED BY <1>1 DEF Made

LEMMA TwoJoined ==
    ASSUME NEW a, NEW b
    PROVE  <<a>> \o <<b>> = <<a, b>>
  <1> DEFINE S == {a, b}
             s == <<a>> \o <<b>>
  <1>1. <<a>> \in Seq(S) /\ <<b>> \in Seq(S) /\ <<a, b>> \in Seq(S)
    OBVIOUS
  <1>2. Len(<<a>>) = 1 /\ <<a>>[1] = a /\ Len(<<b>>) = 1 /\ <<b>>[1] = b
    OBVIOUS
  <1>3. s \in Seq(S) /\ Len(s) = 2 /\ s[1] = a /\ s[2] = b
    BY <1>1, <1>2, ConcatProperties
  <1>4. Len(<<a, b>>) = 2 /\ <<a, b>>[1] = a /\ <<a, b>>[2] = b
    OBVIOUS
  <1> HIDE DEF s
  <1>5. \A i \in 1 .. 2 : s[i] = <<a, b>>[i]
    BY <1>3, <1>4, \A i \in 1 .. 2 : i = 1 \/ i = 2
  <1>6. s = <<a, b>>
    BY <1>1, <1>3, <1>4, <1>5, SeqEqual
  <1>7. QED BY <1>6 DEF s

LEMMA RootIs == r(Conn).class = "Top" /\ r(Conn).conn = Conn
  BY DEF r, Bare

LEMMA BaseIs == Base.conn = Conn /\ Target(Base, database).term = DbTerm(Meant)
  <1>1. CASE answers["db"] = ""
    <2>1. Base = r(Conn) /\ Meant = database
      BY <1>1 DEF Base, Meant
    <2>2. Target(Base, database) = db(Base, RQL_String(database))
      BY <2>1, RootIs DEF Target
    <2>3. RQL_String(database).term = StringTerm(database)
      BY DEF RQL_String, Datum, StringTerm
    <2>4. db(Base, RQL_String(database)).term = Term("DB", <<StringTerm(database)>>)
      BY <2>3, MadeOfOne DEF db
    <2>5. QED BY <2>1, <2>2, <2>4, RootIs DEF DbTerm
  <1>2. CASE answers["db"] # ""
    <2>1. Base = db(r(Conn), str("db")) /\ Meant = answers["db"]
      BY <1>2 DEF Base, Meant
    <2>2. Base.class = "Database" /\ Base.conn = Conn
      <3>1. Base = Made(r(Conn), "Database", "DB", <<str("db")>>)
        BY <2>1 DEF db
      <3>2. Base.class = "Database" /\ Base.conn = r(Conn).conn
        BY <3>1 DEF Made
      <3>3. QED BY <3>2, RootIs
    <2>3. Target(Base, database) = Base
      BY <2>2 DEF Target
    <2>4. Base.term = Term("DB", <<StringTerm(answers["db"])>>)
      BY <2>1, MadeOfOne, StrIs DEF db
    <2>5. QED BY <2>1, <2>2, <2>3, <2>4 DEF DbTerm
  <1>3. QED BY <1>1, <1>2

LEMMA TableIs ==
    TheTable.conn = Conn /\ TheTable.term = TableTerm(Meant, answers["table"])
  <1>1. TheTable = Made(Base, "Table", "TABLE", <<Target(Base, database), str("table")>>)
    BY DEF TheTable, table
  <1>2. QED BY <1>1, MadeOfTwo, StrIs, BaseIs DEF TableTerm

LEMMA OrderedIs ==
    /\ Ordered.conn = Conn
    /\ Ordered.term = OrderTerm(Meant, answers["table"], answers["order"])
  <1> DEFINE a == asc(str("order"))
             o == TheTable
  <1>1. a.term = AscTerm(answers["order"])
    <2>1. a.term = Term("ASC", <<str("order").term>>)
      BY DEF asc, Ordering
    <2>2. QED BY <2>1, StrIs DEF AscTerm
  <1>2. Ordered = Made(o, "Sequence", "ORDERBY", <<o>> \o <<a>>)
    BY DEF Ordered, order_by
  <1> HIDE DEF a, o
  <1>3. <<o>> \o <<a>> = <<o, a>>
    BY TwoJoined
  <1>4. Ordered.conn = o.conn /\ Ordered.term = Term("ORDERBY", <<o.term, a.term>>)
    <2>1. Ordered = Made(o, "Sequence", "ORDERBY", <<o, a>>)
      BY <1>2, <1>3
    <2>2. QED BY <2>1, MadeOfTwo
  <1>5. QED BY <1>1, <1>4, TableIs DEF OrderTerm, o

LEMMA GetIs ==
    LET o == get(TheTable, str("id"))
    IN  o.conn = Conn /\ o.term = GetTerm(Meant, answers["table"], answers["id"])
  <1>1. get(TheTable, str("id")) = Made(TheTable, "Single_Selection", "GET", <<TheTable, str("id")>>)
    BY DEF get
  <1>2. QED BY <1>1, MadeOfTwo, StrIs, TableIs DEF GetTerm

-----------------------------------------------------------------------------
(* The queries. *)

\* An object that the example can run.
Runs(m) == m.class \in Classes /\ m.conn = Conn /\ FitsAll(m.term)

LEMMA OneRuns ==
    ASSUME NEW o, o.conn = Conn, NEW class \in Classes, NEW type, NEW a,
           NEW S, Signature(type, 1) = <<S>>, TypesOfValue(a.term) \cap S # {},
           FitsFour(a.term)
    PROVE  Runs(Made(o, class, type, <<a>>))
  <1> DEFINE m == Made(o, class, type, <<a>>)
  <1>1. m.class = class /\ m.conn = o.conn /\ m.term = Term(type, <<a.term>>)
    BY MadeOfOne
  <1> HIDE DEF m
  <1>2. Fits(Term(type, <<a.term>>))
    BY FitsOne
  <1>3. FitsAll(Term(type, <<a.term>>))
    BY <1>2, OverOne
  <1>4. QED BY <1>1, <1>3 DEF Runs, m

LEMMA TwoRun ==
    ASSUME NEW o, o.conn = Conn, NEW class \in Classes, NEW type, NEW a, NEW b,
           NEW S, NEW T, Signature(type, 2) = <<S, T>>,
           TypesOfValue(a.term) \cap S # {}, TypesOfValue(b.term) \cap T # {},
           FitsFour(a.term), FitsFour(b.term)
    PROVE  Runs(Made(o, class, type, <<a, b>>))
  <1> DEFINE m == Made(o, class, type, <<a, b>>)
  <1>1. m.class = class /\ m.conn = o.conn /\ m.term = Term(type, <<a.term, b.term>>)
    BY MadeOfTwo
  <1> HIDE DEF m
  <1>2. Fits(Term(type, <<a.term, b.term>>))
    BY FitsPair
  <1>3. FitsAll(Term(type, <<a.term, b.term>>))
    BY <1>2, OverPair
  <1>4. QED BY <1>1, <1>3 DEF Runs, m

LEMMA ThreeRun ==
    ASSUME NEW o, o.conn = Conn, NEW class \in Classes, NEW type, NEW a, NEW b, NEW c,
           NEW S, NEW T, NEW U, Signature(type, 3) = <<S, T, U>>,
           TypesOfValue(a.term) \cap S # {}, TypesOfValue(b.term) \cap T # {},
           TypesOfValue(c.term) \cap U # {},
           FitsFour(a.term), FitsFour(b.term), FitsFour(c.term)
    PROVE  Runs(Made(o, class, type, <<a, b, c>>))
  <1> DEFINE m == Made(o, class, type, <<a, b, c>>)
  <1>1. m.class = class /\ m.conn = o.conn /\ m.term = Term(type, <<a.term, b.term, c.term>>)
    BY MadeOfThree
  <1> HIDE DEF m
  <1>2. Fits(Term(type, <<a.term, b.term, c.term>>))
    BY FitsTriple
  <1>3. FitsAll(Term(type, <<a.term, b.term, c.term>>))
    BY <1>2, OverTriple
  <1>4. QED BY <1>1, <1>3 DEF Runs, m

\* What the queries on a database start with.
Starts ==
    {DbTerm(Meant), TableTerm(Meant, answers["table"]),
     GetTerm(Meant, answers["table"], answers["id"]),
     OrderTerm(Meant, answers["table"], answers["order"])}

About(m) == DatabaseOf(m.term) = Meant

LEMMA AboutMeant ==
    ASSUME NEW o, NEW class, NEW type, type # "DB", NEW objects, Terms(objects)[1] \in Starts
    PROVE  About(Made(o, class, type, objects))
  <1> DEFINE args == Terms(objects)
  <1>1. Made(o, class, type, objects).term = Term(type, args)
    BY DEF Made
  <1> HIDE DEF args
  <1>2. DatabaseOf(Term(type, args)) = Meant
    BY DatabaseFound DEF Starts, args
  <1>3. QED BY <1>1, <1>2 DEF About

LEMMA OneAbout ==
    ASSUME NEW o, NEW class, NEW type, type # "DB", NEW a, a.term \in Starts
    PROVE  About(Made(o, class, type, <<a>>))
  <1>1. Terms(<<a>>) = <<a.term>>
    BY TermsAre
  <1>2. Terms(<<a>>)[1] = a.term
    BY <1>1, Zenon, <<a.term>>[1] = a.term
  <1>3. QED BY <1>2, AboutMeant

LEMMA TwoAbout ==
    ASSUME NEW o, NEW class, NEW type, type # "DB", NEW a, NEW b, a.term \in Starts
    PROVE  About(Made(o, class, type, <<a, b>>))
  <1>1. Terms(<<a, b>>) = <<a.term, b.term>>
    BY TermsAre
  <1>2. Terms(<<a, b>>)[1] = a.term
    BY <1>1, Zenon, <<a.term, b.term>>[1] = a.term
  <1>3. QED BY <1>2, AboutMeant

LEMMA ThreeAbout ==
    ASSUME NEW o, NEW class, NEW type, type # "DB", NEW a, NEW b, NEW c, a.term \in Starts
    PROVE  About(Made(o, class, type, <<a, b, c>>))
  <1>1. Terms(<<a, b, c>>) = <<a.term, b.term, c.term>>
    BY TermsAre
  <1>2. Terms(<<a, b, c>>)[1] = a.term
    BY <1>1, Zenon, <<a.term, b.term, c.term>>[1] = a.term
  <1>3. QED BY <1>2, AboutMeant

\* The parts that the queries are made of.
LEMMA StrPart ==
    ASSUME NEW q
    PROVE  FitsFour(str(q).term) /\ TypesOfValue(str(q).term) = Above["String"]
  BY StrIs, StringFits, FitsDeeper

LEMMA PairPart ==
    ASSUME NEW k, NEW v
    PROVE  /\ FitsFour(Pair(k, v).term)
           /\ TypesOfValue(Pair(k, v).term) = Above["Object"]
  <1>1. PICK x : Pair(k, v).term = ObjectTerm(answers[k], x)
    BY PairIs
  <1>2. QED BY <1>1, ObjectFits, FitsDeeper

LEMMA TargetPart ==
    LET o == Target(Base, database)
    IN  FitsFour(o.term) /\ TypesOfValue(o.term) = Above["Database"] /\ o.term \in Starts
  <1>1. Target(Base, database).term = DbTerm(Meant)
    BY BaseIs
  <1>2. FitsFour(DbTerm(Meant)) /\ TypesOfValue(DbTerm(Meant)) = Above["Database"]
    BY DbFits, FitsDeeper
  <1>3. QED BY <1>1, <1>2 DEF Starts

LEMMA TablePart ==
    /\ TheTable.conn = Conn
    /\ FitsFour(TheTable.term) /\ TypesOfValue(TheTable.term) = Above["Table"]
    /\ TheTable.term \in Starts
  <1>1. FitsFour(TheTable.term) /\ TypesOfValue(TheTable.term) = Above["Table"]
    BY TableIs, TableFits, FitsDeeper
  <1>2. QED BY <1>1, TableIs DEF Starts

LEMMA OrderedPart ==
    /\ Ordered.conn = Conn
    /\ FitsFour(Ordered.term) /\ TypesOfValue(Ordered.term) = Above["Sequence"]
    /\ Ordered.term \in Starts
  <1>1. FitsFour(Ordered.term) /\ TypesOfValue(Ordered.term) = Above["Sequence"]
    BY OrderedIs, OrderFits, FitsDeeper
  <1>2. QED BY <1>1, OrderedIs DEF Starts

LEMMA GetPart ==
    LET o == get(TheTable, str("id"))
    IN  /\ o.conn = Conn
        /\ FitsFour(o.term) /\ TypesOfValue(o.term) = Above["Single_Selection"]
        /\ o.term \in Starts
  <1> DEFINE o == get(TheTable, str("id"))
  <1>1. o.conn = Conn /\ o.term = GetTerm(Meant, answers["table"], answers["id"])
    BY GetIs
  <1> HIDE DEF o
  <1>2. FitsFour(o.term) /\ TypesOfValue(o.term) = Above["Single_Selection"]
    BY <1>1, GetFits, FitsDeeper
  <1>3. o.term \in Starts
    BY <1>1 DEF Starts
  <1>4. QED BY <1>1, <1>2, <1>3 DEF o

LEMMA SizePart ==
    ASSUME NEW n
    PROVE  /\ FitsFour(Size(n).term) /\ TypesOfValue(Size(n).term) = Above["Number"]
           /\ Size(n).term.datum.num = n % (SIZE_MAX + 1)
  <1>1. Size(n).term = NumberTerm(n % (SIZE_MAX + 1))
    BY DEF Size, RQL_Number, Datum, NumberTerm
  <1>2. QED BY <1>1, NumberFits, FitsDeeper

LEMMA ArrayPart ==
    LET o == RQL_Array(<<Pair("key", "value"), Pair("key 2", "value 2")>>)
    IN  FitsFour(o.term) /\ TypesOfValue(o.term) = Above["Array"]
  <1> DEFINE p == Pair("key", "value")
             q == Pair("key 2", "value 2")
  <1>1. PICK x : p.term = ObjectTerm(answers["key"], x)
    BY PairIs
  <1>2. PICK y : q.term = ObjectTerm(answers["key 2"], y)
    BY PairIs
  <1> HIDE DEF p, q
  <1>3. Terms(<<p, q>>) = <<p.term, q.term>>
    BY TermsAre
  <1>4. RQL_Array(<<p, q>>).term = ArrayTerm(p.term, q.term)
    BY <1>3 DEF RQL_Array, ArrayTerm
  <1>5. /\ FitsTwo(ArrayTerm(p.term, q.term))
        /\ TypesOfValue(ArrayTerm(p.term, q.term)) = Above["Array"]
    BY <1>1, <1>2, ArrayFits
  <1>6. QED BY <1>4, <1>5, FitsDeeper DEF p, q
(* What is run for each command. *)

LEMMA QueryOfDatabase ==
    ASSUME command \in {"db_create", "db_drop", "db_list"}
    PROVE  Runs(Query)
  <1>0. r(Conn).conn = Conn /\ "Object" \in Classes /\ "Array" \in Classes
    BY RootIs, AboveHas
  <1>1. CASE command = "db_create"
    <2>1. Query = Made(r(Conn), "Object", "DB_CREATE", <<str("name")>>)
      BY <1>1 DEF Query, db_create
    <2>2. Signature("DB_CREATE", 1) = <<{"String"}>>
      BY DEF Signature
    <2>3. QED BY <1>0, <2>1, <2>2, AboveHas, StrPart, OneRuns
  <1>2. CASE command = "db_drop"
    <2>1. Query = Made(r(Conn), "Object", "DB_DROP", <<str("name")>>)
      BY <1>2 DEF Query, db_drop
    <2>2. Signature("DB_DROP", 1) = <<{"String"}>>
      BY DEF Signature
    <2>3. QED BY <1>0, <2>1, <2>2, AboveHas, StrPart, OneRuns
  <1>3. CASE command = "db_list"
    <2>1. Query = Made(r(Conn), "Array", "DB_LIST", <<>>)
      BY <1>3 DEF Query, db_list
    <2>2. Query.class = "Array" /\ Query.conn = Conn /\ Query.term = Term("DB_LIST", <<>>)
      BY <1>0, <2>1, MadeOfNone
    <2>3. FitsAlone(Term("DB_LIST", <<>>))
      <3>1. /\ Term("DB_LIST", <<>>).args = <<>> /\ Term("DB_LIST", <<>>).type = "DB_LIST"
            /\ Signature("DB_LIST", 0) = <<>>
        BY DEF Term, Signature
      <3>2. QED BY <3>1 DEF FitsAlone, Fits, FitsBut
    <2>4. FitsAll(Term("DB_LIST", <<>>))
      BY <2>3, FitsDeeper
    <2>5. QED BY <1>0, <2>2, <2>4 DEF Runs
  <1>4. QED BY <1>1, <1>2, <1>3

LEMMA QueryOfTables ==
    ASSUME command \in {"table", "table_create", "table_drop", "table_list"}
    PROVE  Runs(Query) /\ About(Query)
  <1> DEFINE t == Target(Base, database)
             s == str("table")
  <1>0. /\ Base.conn = Conn /\ "Object" \in Classes /\ "Array" \in Classes /\ "Table" \in Classes
        /\ FitsFour(s.term) /\ TypesOfValue(s.term) \cap {"String"} # {}
        /\ FitsFour(t.term) /\ TypesOfValue(t.term) \cap {"Database"} # {} /\ t.term \in Starts
    BY BaseIs, TargetPart, StrPart, AboveHas
  <1>1. CASE command = "table"
    <2>1. Query = Made(Base, "Table", "TABLE", <<t, s>>)
      BY <1>1 DEF Query, TheTable, table
    <2>2. Signature("TABLE", 2) = <<{"Database"}, {"String"}>>
      BY DEF Signature
    <2> HIDE DEF t, s
    <2>3. Runs(Query)
      BY <1>0, <2>1, <2>2, TwoRun
    <2>4. QED BY <1>0, <2>1, <2>3, TwoAbout
  <1>2. CASE command = "table_create"
    <2>1. Query = Made(Base, "Object", "TABLE_CREATE", <<t, s>>)
      BY <1>2 DEF Query, table_create
    <2>2. Signature("TABLE_CREATE", 2) = <<{"Database"}, {"String"}>>
      BY DEF Signature
    <2> HIDE DEF t, s
    <2>3. Runs(Query)
      BY <1>0, <2>1, <2>2, TwoRun
    <2>4. QED BY <1>0, <2>1, <2>3, TwoAbout
  <1>3. CASE command = "table_drop"
    <2>1. Query = Made(Base, "Array", "TABLE_DROP", <<t, s>>)
      BY <1>3 DEF Query, table_drop
    <2>2. Signature("TABLE_DROP", 2) = <<{"Database"}, {"String"}>>
      BY DEF Signature
    <2> HIDE DEF t, s
    <2>3. Runs(Query)
      BY <1>0, <2>1, <2>2, TwoRun
    <2>4. QED BY <1>0, <2>1, <2>3, TwoAbout
  <1>4. CASE command = "table_list"
    <2>1. Query = Made(Base, "Array", "TABLE_LIST", <<t>>)
      BY <1>4 DEF Query, table_list
    <2>2. Signature("TABLE_LIST", 1) = <<{"Database"}>>
      BY DEF Signature
    <2> HIDE DEF t, s
    <2>3. Runs(Query)
      BY <1>0, <2>1, <2>2, OneRuns
    <2>4. QED BY <1>0, <2>1, <2>3, OneAbout
  <1>5. QED BY <1>1, <1>2, <1>3, <1>4

LEMMA QueryOfRows ==
    ASSUME command \in {"between", "filter", "get", "order_by", "limit", "skip"}
    PROVE  Runs(Query) /\ About(Query)
  <1> DEFINE o == TheTable
             p == Ordered
  <1>0. /\ o.conn = Conn /\ FitsFour(o.term) /\ o.term \in Starts
        /\ TypesOfValue(o.term) = Above["Table"]
        /\ p.conn = Conn /\ FitsFour(p.term) /\ p.term \in Starts
        /\ TypesOfValue(p.term) \cap {"Sequence"} # {}
        /\ {"Stream_Selection", "Sequence", "Single_Selection"} \subseteq Classes
    BY TablePart, OrderedPart, AboveHas
  <1>1. /\ TypesOfValue(o.term) \cap {"Stream_Selection"} # {}
        /\ TypesOfValue(o.term) \cap {"Sequence"} # {} /\ TypesOfValue(o.term) \cap {"Table"} # {}
    BY <1>0, AboveHas
  <1>2. CASE command = "between"
    <2> DEFINE a == str("from")
               b == str("until")
    <2>1. Query = Made(o, "Stream_Selection", "BETWEEN", <<o, a, b>>)
      BY <1>2 DEF Query, between
    <2>2. Signature("BETWEEN", 3) = <<{"Stream_Selection"}, {"Datum"}, {"Datum"}>>
      BY DEF Signature
    <2>3. /\ FitsFour(a.term) /\ TypesOfValue(a.term) \cap {"Datum"} # {}
          /\ FitsFour(b.term) /\ TypesOfValue(b.term) \cap {"Datum"} # {}
      BY StrPart, AboveHas
    <2> HIDE DEF o, p, a, b
    <2>4. Runs(Query)
      BY <1>0, <1>1, <2>1, <2>2, <2>3, ThreeRun
    <2>5. QED BY <1>0, <2>1, <2>4, ThreeAbout
  <1>3. CASE command = "filter"
    <2> DEFINE a == Pair("key", "value")
    <2>1. Query = Made(o, "Sequence", "FILTER", <<o, a>>)
      BY <1>3 DEF Query, filter
    <2>2. Signature("FILTER", 2) = <<{"Sequence"}, {"Function", "Object"}>>
      BY DEF Signature
    <2>3. FitsFour(a.term) /\ TypesOfValue(a.term) \cap {"Function", "Object"} # {}
      BY PairPart, AboveHas
    <2> HIDE DEF o, p, a
    <2>4. Runs(Query)
      BY <1>0, <1>1, <2>1, <2>2, <2>3, TwoRun
    <2>5. QED BY <1>0, <2>1, <2>4, TwoAbout
  <1>4. CASE command = "get"
    <2> DEFINE a == str("id")
    <2>1. Query = Made(o, "Single_Selection", "GET", <<o, a>>)
      BY <1>4 DEF Query, get
    <2>2. Signature("GET", 2) = <<{"Table"}, {"String", "Number"}>>
      BY DEF Signature
    <2>3. FitsFour(a.term) /\ TypesOfValue(a.term) \cap {"String", "Number"} # {}
      BY StrPart, AboveHas
    <2> HIDE DEF o, p, a
    <2>4. Runs(Query)
      BY <1>0, <1>1, <2>1, <2>2, <2>3, TwoRun
    <2>5. QED BY <1>0, <2>1, <2>4, TwoAbout
  <1>5. CASE command = "order_by"
    <2>1. Query = p
      BY <1>5 DEF Query
    <2>2. p.class = "Sequence"
      BY DEF Ordered, order_by, Made
    <2>3. p.term = OrderTerm(Meant, answers["table"], answers["order"])
      BY OrderedIs
    <2>4. DatabaseOf(p.term) = Meant
      <3> DEFINE args == <<TableTerm(Meant, answers["table"]), AscTerm(answers["order"])>>
      <3>1. p.term = Term("ORDERBY", args)
        BY <2>3 DEF OrderTerm
      <3>2. args[1] = TableTerm(Meant, answers["table"])
        OBVIOUS
      <3> HIDE DEF args
      <3>3. DatabaseOf(Term("ORDERBY", args)) = Meant
        BY <3>2, DatabaseFound
      <3>4. QED BY <3>1, <3>3
    <2> HIDE DEF o, p
    <2>5. Runs(p)
      BY <1>0, <2>2, FitsDeeper DEF Runs
    <2>6. QED BY <2>1, <2>4, <2>5 DEF About
  <1>6. CASE command = "limit"
    <2> DEFINE a == Size(atoi(answers["limit"]))
    <2>1. Query = Made(p, "Sequence", "LIMIT", <<p, a>>)
      BY <1>6 DEF Query, limit
    <2>2. Signature("LIMIT", 2) = <<{"Sequence"}, {"Number"}>>
      BY DEF Signature
    <2>3. FitsFour(a.term) /\ TypesOfValue(a.term) \cap {"Number"} # {}
      BY SizePart, AboveHas
    <2> HIDE DEF o, p, a
    <2>4. Runs(Query)
      BY <1>0, <2>1, <2>2, <2>3, TwoRun
    <2>5. QED BY <1>0, <2>1, <2>4, TwoAbout
  <1>7. CASE command = "skip"
    <2> DEFINE a == Size(atoi(answers["skip"]))
    <2>1. Query = Made(p, "Sequence", "SKIP", <<p, a>>)
      BY <1>7 DEF Query, skip
    <2>2. Signature("SKIP", 2) = <<{"Sequence"}, {"Number"}>>
      BY DEF Signature
    <2>3. FitsFour(a.term) /\ TypesOfValue(a.term) \cap {"Number"} # {}
      BY SizePart, AboveHas
    <2> HIDE DEF o, p, a
    <2>4. Runs(Query)
      BY <1>0, <2>1, <2>2, <2>3, TwoRun
    <2>5. QED BY <1>0, <2>1, <2>4, TwoAbout
  <1>8. QED BY <1>2, <1>3, <1>4, <1>5, <1>6, <1>7

LEMMA QueryOfChanges ==
    ASSUME command \in {"insert", "remove", "update"},
           command = "insert" => atoi(answers["count"]) > 0
    PROVE  Runs(Query) /\ About(Query)
  <1> DEFINE o == TheTable
             g == get(TheTable, str("id"))
             a == Pair("key", "value")
             selection == {"Stream_Selection", "Single_Selection"}
  <1>0. /\ o.conn = Conn /\ FitsFour(o.term) /\ o.term \in Starts
        /\ TypesOfValue(o.term) \cap {"Table"} # {} /\ TypesOfValue(o.term) \cap selection # {}
        /\ g.conn = Conn /\ FitsFour(g.term) /\ g.term \in Starts
        /\ TypesOfValue(g.term) \cap selection # {}
        /\ "Object" \in Classes
    BY TablePart, GetPart, AboveHas
  <1>1. FitsFour(a.term) /\ TypesOfValue(a.term) = Above["Object"]
    BY PairPart
  <1>2. CASE command = "insert"
    <2>0. Signature("INSERT", 2) = <<{"Table"}, {"Object", "Sequence"}>>
      BY DEF Signature
    <2>1. answers["count"] = "1" \/ answers["count"] = "2"
      <3> DEFINE l == answers["count"]
      <3>1. atoi(l) > 0
        BY <1>2
      <3> HIDE DEF l
      <3>2. ASSUME l # "1", l # "2"
            PROVE  FALSE
        <4>1. atoi(l) = -1 \/ atoi(l) = 0
          BY <3>2, Zenon DEF atoi
        <4>2. QED BY <3>1, <4>1
      <3>3. QED BY <3>2 DEF l
    <2>2. CASE answers["count"] = "1"
      <3>1. Query = Made(o, "Object", "INSERT", <<o, a>>)
        BY <1>2, <2>2 DEF Query, insert
      <3>2. TypesOfValue(a.term) \cap {"Object", "Sequence"} # {}
        BY <1>1, AboveHas
      <3> HIDE DEF o, g, a
      <3>3. Runs(Query)
        BY <1>0, <1>1, <2>0, <3>1, <3>2, TwoRun
      <3>4. QED BY <1>0, <3>1, <3>3, TwoAbout
    <2>3. CASE answers["count"] = "2"
      <3> DEFINE b == RQL_Array(<<a, Pair("key 2", "value 2")>>)
      <3>1. Query = Made(o, "Object", "INSERT", <<o, b>>)
        BY <1>2, <2>3 DEF Query, insert
      <3>2. FitsFour(b.term) /\ TypesOfValue(b.term) \cap {"Object", "Sequence"} # {}
        BY ArrayPart, AboveHas
      <3> HIDE DEF o, g, a, b
      <3>3. Runs(Query)
        BY <1>0, <2>0, <3>1, <3>2, TwoRun
      <3>4. QED BY <1>0, <3>1, <3>3, TwoAbout
    <2>4. QED BY <2>1, <2>2, <2>3
  <1>3. CASE command = "remove"
    <2> DEFINE s == IF answers["id"] = "" THEN o ELSE g
    <2>1. Query = Made(s, "Object", "DELETE", <<s>>)
      BY <1>3 DEF Query, remove
    <2>2. Signature("DELETE", 1) = <<selection>>
      BY DEF Signature
    <2>3. s = o \/ s = g
      OBVIOUS
    <2> HIDE DEF o, g, a, s, selection
    <2>4. /\ s.conn = Conn /\ FitsFour(s.term) /\ s.term \in Starts
          /\ TypesOfValue(s.term) \cap selection # {}
      BY <1>0, <2>3
    <2>5. Runs(Query)
      BY <1>0, <2>1, <2>2, <2>4, OneRuns
    <2>6. QED BY <2>1, <2>4, <2>5, OneAbout
  <1>4. CASE command = "update"
    <2>1. Query = Made(g, "Object", "UPDATE", <<g, a>>)
      BY <1>4 DEF Query, update
    <2>2. Signature("UPDATE", 2) = <<selection, {"Function", "Object"}>>
      BY DEF Signature
    <2>3. TypesOfValue(a.term) \cap {"Function", "Object"} # {}
      BY <1>1, AboveHas
    <2> HIDE DEF o, g, a, selection
    <2>4. Runs(Query)
      BY <1>0, <1>1, <2>1, <2>2, <2>3, TwoRun
    <2>5. QED BY <1>0, <2>1, <2>4, TwoAbout
  <1>5. QED BY <1>2, <1>3, <1>4

LEMMA QueryIs ==
    ASSUME command \in Commands, command # "use",
           command = "insert" => atoi(answers["count"]) > 0
    PROVE  Runs(Query) /\ ("db" \in Wanted(command) => About(Query))
  <1>1. CASE command \in {"db_create", "db_drop", "db_list"}
    <2>1. "db" \notin Wanted(command)
      BY <1>1 DEF Wanted
    <2>2. QED BY <1>1, <2>1, QueryOfDatabase
  <1>2. CASE command \in {"table", "table_create", "table_drop", "table_list"}
    BY <1>2, QueryOfTables
  <1>3. CASE command \in {"between", "filter", "get", "order_by", "limit", "skip"}
    BY <1>3, QueryOfRows
  <1>4. CASE command \in {"insert", "remove", "update"}
    BY <1>4, QueryOfChanges
  <1>5. QED BY <1>1, <1>2, <1>3, <1>4 DEF Commands, Questions

LEMMA AtoiIs ==
    ASSUME NEW l
    PROVE  atoi(l) \in {-1, 0, 1, 2}
  <1>1. atoi(l) = -1 \/ atoi(l) = 1 \/ atoi(l) = 2 \/ atoi(l) = 0
    BY Zenon DEF atoi
  <1>2. QED BY <1>1

LEMMA AsSize ==
    ASSUME NEW n \in {-1, 0, 1, 2}
    PROVE  IF n >= 0 THEN n % (SIZE_MAX + 1) = n ELSE 2 * (n % (SIZE_MAX + 1)) > SIZE_MAX
  <1> DEFINE m == SIZE_MAX + 1
  <1>1. m \in Nat /\ m > 2 /\ SIZE_MAX = m - 1
    BY SizeAssumption, SMT DEF SizeAssumption
  <1> HIDE DEF m
  <1>2. 0 % m = 0 /\ 1 % m = 1 /\ 2 % m = 2
    BY <1>1
  <1>3. (-1) % m = m - 1
    BY <1>1
  <1>4. CASE n = -1
    BY <1>1, <1>3, <1>4 DEF m
  <1>5. CASE n \in {0, 1, 2}
    BY <1>2, <1>5 DEF m
  <1>6. QED BY <1>4, <1>5

LEMMA QueryNumber ==
    ASSUME command \in {"limit", "skip"}
    PROVE  Query.term.args[2].datum.num = atoi(answers[command]) % (SIZE_MAX + 1)
  <1> DEFINE p == Ordered
             a == Size(atoi(answers[command]))
  <1>1. PICK type : Query = Made(p, "Sequence", type, <<p, a>>)
    <2>1. CASE command = "limit"
      <3>1. Query = Made(p, "Sequence", "LIMIT", <<p, a>>)
        BY <2>1 DEF Query, limit
      <3>2. QED BY <3>1
    <2>2. CASE command = "skip"
      <3>1. Query = Made(p, "Sequence", "SKIP", <<p, a>>)
        BY <2>2 DEF Query, skip
      <3>2. QED BY <3>1
    <2>3. QED BY <2>1, <2>2
  <1>2. a.term.datum.num = atoi(answers[command]) % (SIZE_MAX + 1)
    BY SizePart
  <1> HIDE DEF p, a
  <1>3. Query.term = Term(type, <<p.term, a.term>>)
    BY <1>1, MadeOfTwo
  <1>4. Query.term.args[2] = a.term
    BY <1>3 DEF Term
  <1>5. QED BY <1>2, <1>4

-----------------------------------------------------------------------------
(* The invariant. *)

\* What insert asks for once it knows how many objects there are.
More == IF "count" \in DOMAIN answers THEN Objects(atoi(answers["count"])) ELSE {}

\* Between two commands nothing is answered; in a command every question that
\* it asks for is answered or to be asked, and no other is.
AskInv ==
    /\ \A q \in DOMAIN answers : answers[q] \in Lines(q)
    /\ phase \in {"start", "loop"} => DOMAIN answers = {}
    /\ phase \in {"ask", "run"} =>
          command \in Commands /\ DOMAIN answers \subseteq Wanted(command) \cup More
    /\ phase = "ask" => AsksFor(todo, (Wanted(command) \cup More) \ DOMAIN answers)

ReplInv == ReplTypeOK /\ AskInv /\ QueriesFit /\ DatabaseMeant /\ NumbersMeant
(* What a step has to show: little, unless a command is being read or run. *)

LEMMA NotRunning ==
    ASSUME phase' # "run"
    PROVE  QueriesFit' /\ DatabaseMeant' /\ NumbersMeant'
  BY Zenon DEF QueriesFit, DatabaseMeant, NumbersMeant

LEMMA BetweenCommands ==
    ASSUME phase' \in {"loop", "closed"}, ReplTypeOK', DOMAIN answers' = {}
    PROVE  ReplInv'
  <1>1. phase' # "run" /\ phase' # "ask"
    OBVIOUS
  <1>2. AskInv'
    BY <1>1, Zenon DEF AskInv
  <1>3. QED BY <1>1, <1>2, NotRunning DEF ReplInv

\* A line is an answer or empty.
LEMMA NamesTyped ==
    ASSUME NEW q \in {"db", "name"}, NEW line \in Lines(q)
    PROVE  line \in Names \cup {default_db, ""}
  <1>1. q \notin {"count", "limit", "skip"}
    OBVIOUS
  <1>2. line \in {""} \cup Names
    BY <1>1, Zenon DEF Lines
  <1>3. QED BY <1>2, Zenon

LEMMA EofTyped ==
    ASSUME eof \in BOOLEAN, NEW line, Getline(line)
    PROVE  eof' \in BOOLEAN
  BY DEF Getline

LEMMA QueryTyped == r(Conn).class \in Classes /\ r(Conn).conn = Conn
  BY RootIs, AboveHas

LEMMA StartKeeps ==
    ASSUME ReplInv, Start
    PROVE  ReplInv'
  <1>1. phase = "start" /\ phase' = "loop" /\ UNCHANGED <<command, todo, answers, given, query>>
    BY DEF Start
  <1>2. PICK line \in Lines("db") :
           Getline(line) /\ database' = IF line = "" THEN default_db ELSE line
    BY Zenon DEF Start
  <1>3. eof' \in BOOLEAN
    BY <1>2, EofTyped DEF ReplInv, ReplTypeOK
  <1>4. database' \in Names \cup {default_db, ""}
    BY <1>2, NamesTyped, Zenon
  <1>5. DOMAIN answers' = {}
    BY <1>1 DEF ReplInv, AskInv
  <1>6. phase' \in {"start", "loop", "ask", "run", "closed"}
    BY <1>1
  <1>7. ReplTypeOK'
    BY <1>1, <1>3, <1>4, <1>6, Zenon DEF ReplInv, ReplTypeOK
  <1>8. QED BY <1>1, <1>5, <1>7, BetweenCommands

LEMMA QuitKeeps ==
    ASSUME ReplInv, Quit
    PROVE  ReplInv'
  <1>1. /\ phase = "loop" /\ phase' = "closed"
        /\ UNCHANGED <<command, todo, answers, given, eof, database, query>>
    BY DEF Quit
  <1>2. DOMAIN answers' = {}
    BY <1>1 DEF ReplInv, AskInv
  <1>3. phase' \in {"start", "loop", "ask", "run", "closed"}
    BY <1>1
  <1>4. ReplTypeOK'
    BY <1>1, <1>3, Zenon DEF ReplInv, ReplTypeOK
  <1>5. QED BY <1>1, <1>2, <1>4, BetweenCommands

LEMMA ReadCommandKeeps ==
    ASSUME ReplInv, ReadCommand
    PROVE  ReplInv'
  <1>1. phase = "loop" /\ UNCHANGED <<answers, given, database, query>>
    BY DEF ReadCommand
  <1>2. PICK line \in Commands \cup {"", "exit", "unknown"} :
           /\ Getline(line)
           /\ command' = IF line \in Commands THEN line ELSE ""
           /\ phase' = CASE line \in Commands -> "ask"
                         [] line = "exit"     -> "closed"
                         [] OTHER             -> "loop"
           /\ todo' = IF line \in Commands THEN Questions[line] ELSE <<>>
    BY Zenon DEF ReadCommand
  <1>3. eof' \in BOOLEAN
    BY <1>2, EofTyped DEF ReplInv, ReplTypeOK
  <1>4. DOMAIN answers = {} /\ DOMAIN answers' = {}
    BY <1>1 DEF ReplInv, AskInv
  <1>5. CASE line \in Commands
    <2>1. command' = line /\ todo' = Questions[line] /\ AsksFor(todo', Wanted(line))
      BY <1>2, <1>5, QuestionsAre
    <2>2. phase' = "ask"
      <3>1. line # "exit"
        BY <1>5 DEF Commands, Questions
      <3>2. QED BY <1>2, <1>5, <3>1, Zenon
    <2>3. phase' \in {"start", "loop", "ask", "run", "closed"} /\ todo' \in Seq(SUBSET Question)
      BY <2>1, <2>2 DEF AsksFor
    <2>4. ReplTypeOK'
      BY <1>1, <1>3, <1>5, <2>1, <2>3, Zenon DEF ReplInv, ReplTypeOK
    <2>5. More' = {}
      BY <1>4, Zenon DEF More
    <2>6. (Wanted(line) \cup More') \ DOMAIN answers' = Wanted(line)
      BY <1>4, <2>5
    <2>7. AsksFor(todo, (Wanted(command) \cup More) \ DOMAIN answers)'
      BY <2>1, <2>6
    <2>8. AskInv'
      BY <1>4, <1>5, <2>1, <2>2, <2>7 DEF AskInv
    <2>9. QED BY <2>2, <2>4, <2>8, NotRunning DEF ReplInv
  <1>6. CASE line \notin Commands
    <2>1. command' = "" /\ todo' = <<>> /\ todo' \in Seq(SUBSET Question)
      BY <1>2, <1>6, AskNothing, Zenon DEF AsksFor
    <2>2. phase' = "closed" \/ phase' = "loop"
      BY <1>2, <1>6, Zenon
    <2>3. phase' \in {"start", "loop", "ask", "run", "closed"} /\ phase' \in {"loop", "closed"}
      BY <2>2
    <2>4. ReplTypeOK'
      BY <1>1, <1>3, <2>1, <2>3, Zenon DEF ReplInv, ReplTypeOK
    <2>5. QED BY <1>4, <2>3, <2>4, BetweenCommands
  <1>7. QED BY <1>5, <1>6

LEMMA NoAnswers == DOMAIN <<>> = {}
  OBVIOUS

LEMMA AgainKeeps ==
    ASSUME ReplInv, Again, todo' = todo, eof' = eof,
           database' \in Names \cup {default_db, ""}
    PROVE  ReplInv'
  <1>1. phase' = "loop" /\ command' = "" /\ given' = {} /\ query' = r(Conn)
    BY Zenon DEF Again
  <1>2. DOMAIN answers' = {}
    <2>1. answers' = <<>>
      BY Zenon DEF Again
    <2>2. QED BY <2>1, NoAnswers, Zenon
  <1>3. phase' \in {"start", "loop", "ask", "run", "closed"}
    BY <1>1
  <1>4. given' \subseteq DOMAIN answers'
    BY <1>1
  <1>5. query'.class \in Classes /\ query'.conn = Conn
    BY <1>1, QueryTyped
  <1>6. ReplTypeOK'
    BY <1>1, <1>3, <1>4, <1>5, Zenon DEF ReplInv, ReplTypeOK
  <1>7. QED BY <1>1, <1>2, <1>6, BetweenCommands

\* When nothing is left to ask, all that the command asks for is answered.
LEMMA AllAnswered ==
    ASSUME ReplInv, Asked
    PROVE  Wanted(command) \cup More = DOMAIN answers
  <1>1. AsksFor(todo, (Wanted(command) \cup More) \ DOMAIN answers)
    BY DEF ReplInv, AskInv, Asked
  <1>2. (Wanted(command) \cup More) \ DOMAIN answers = {}
    BY <1>1, NoSet DEF AsksFor, Asked
  <1>3. DOMAIN answers \subseteq Wanted(command) \cup More
    BY DEF ReplInv, AskInv, Asked
  <1>4. QED BY <1>2, <1>3

LEMMA UseKeeps ==
    ASSUME ReplInv, Use
    PROVE  ReplInv'
  <1>1. Asked /\ command = "use" /\ database' = answers["name"] /\ Again /\ UNCHANGED <<todo, eof>>
    BY DEF Use
  <1>2. "name" \in Wanted(command)
    BY <1>1 DEF Wanted
  <1>3. answers["name"] \in Lines("name")
    BY <1>1, <1>2, AllAnswered DEF ReplInv, AskInv
  <1>4. database' \in Names \cup {default_db, ""}
    BY <1>1, <1>3, NamesTyped
  <1>5. QED BY <1>1, <1>4, AgainKeeps

LEMMA InsertNothingKeeps ==
    ASSUME ReplInv, InsertNothing
    PROVE  ReplInv'
  <1>1. Again /\ UNCHANGED <<todo, eof, database>>
    BY DEF InsertNothing
  <1>2. database \in Names \cup {default_db, ""}
    BY Zenon DEF ReplInv, ReplTypeOK
  <1>3. QED BY <1>1, <1>2, AgainKeeps

LEMMA RunReturnsKeeps ==
    ASSUME ReplInv, RunReturns
    PROVE  ReplInv'
  <1>1. Again /\ UNCHANGED <<todo, eof, database>>
    BY DEF RunReturns
  <1>2. database \in Names \cup {default_db, ""}
    BY Zenon DEF ReplInv, ReplTypeOK
  <1>3. QED BY <1>1, <1>2, AgainKeeps

LEMMA QuestionTyped ==
    ASSUME NEW s, NEW a, AsksFor(s, a), s # <<>>, NEW q \in Head(s)
    PROVE  /\ q \in a
           /\ AsksFor(Without(s, q), a \ {q})
  <1>1. s \in Seq(SUBSET Question) /\ Apart(s) /\ AllIn(s) = a
    BY DEF AsksFor
  <1>2. Len(s) \in Nat /\ Len(s) # 0 /\ Head(s) = s[1]
    BY <1>1, EmptySeq, HeadTailProperties, LenProperties
  <1>3. 1 \in 1 .. Len(s)
    BY <1>2
  <1>4. q \in a
    BY <1>1, <1>2, <1>3 DEF AllIn
  <1>5. /\ Without(s, q) \in Seq(SUBSET Question)
        /\ AllIn(Without(s, q)) = AllIn(s) \ {q}
        /\ Apart(Without(s, q))
    BY <1>1, OneLess
  <1>6. AsksFor(Without(s, q), a \ {q})
    BY <1>1, <1>5, Zenon DEF AsksFor
  <1>7. QED BY <1>4, <1>6

\* An answer adds to the questions only if it is the number of objects.
LEMMA AskStep ==
    ASSUME ReplInv, phase = "ask", todo # <<>>, NEW q \in Head(todo), NEW line,
           NEW new, new = (IF q = "count" THEN Pairs(atoi(line)) ELSE <<>>)
    PROVE  LET more == IF q = "count" THEN Objects(atoi(line)) ELSE More
               done == DOMAIN answers \cup {q}
           IN  /\ q \notin DOMAIN answers
               /\ done \subseteq Wanted(command) \cup more
               /\ AsksFor(Without(todo, q) \o new, (Wanted(command) \cup more) \ done)
  <1> DEFINE W == Wanted(command)
             D == DOMAIN answers
             rest == Without(todo, q)
  <1>1. D \subseteq W \cup More /\ AsksFor(todo, (W \cup More) \ D) /\ command \in Commands
    BY DEF ReplInv, AskInv
  <1>2. q \in (W \cup More) \ D /\ AsksFor(rest, ((W \cup More) \ D) \ {q})
    BY <1>1, QuestionTyped
  <1>3. CASE q # "count"
    <2>1. new = <<>>
      BY <1>3, Zenon
    <2>2. rest \in Seq(SUBSET Question) /\ ((W \cup More) \ D) \ {q} = (W \cup More) \ (D \cup {q})
      BY <1>2 DEF AsksFor
    <2> HIDE DEF W, D, rest
    <2>3. rest \o new = rest
      BY <2>1, <2>2, ConcatEmptySeq
    <2>4. QED BY <1>1, <1>2, <1>3, <2>2, <2>3 DEF W, D, rest
  <1>4. CASE q = "count"
    <2> DEFINE n == atoi(line)
               new2 == Objects(n)
    <2>1. n \in {-1, 0, 1, 2} /\ new = Pairs(n)
      BY <1>4, AtoiIs
    <2>2. AsksFor(new, new2)
      BY <2>1, PairsAre
    <2>3. More = {} /\ "count" \in W
      <3>1. q \notin D
        BY <1>2
      <3>2. More = {}
        BY <1>4, <3>1, Zenon DEF More
      <3>3. QED BY <1>2, <1>4, <3>2
    <2>4. W = {"db", "table", "count"}
      <3>1. command = "insert"
        BY <1>1, <2>3 DEF Wanted, Commands, Questions
      <3>2. QED BY <3>1 DEF Wanted
    <2>5. new2 \subseteq {"key", "value", "key 2", "value 2"}
      BY <2>1 DEF Objects
    <2> HIDE DEF W, D, rest, n, new2
    <2>6. D \subseteq W /\ AsksFor(rest, (W \ D) \ {q}) /\ q \in W /\ q \notin D
      BY <1>1, <1>2, <2>3
    <2>7. W \cap new2 = {}
      BY <2>4, <2>5
    <2>8. AsksFor(rest \o new, ((W \ D) \ {q}) \cup new2)
      BY <2>2, <2>6, <2>7, AskMore
    <2>9. ((W \ D) \ {q}) \cup new2 = (W \cup new2) \ (D \cup {q})
      BY <2>6, <2>7
    <2>10. D \cup {q} \subseteq W \cup new2
      BY <2>6
    <2>11. QED BY <1>4, <2>6, <2>8, <2>9, <2>10 DEF W, D, rest, n, new2
  <1>5. QED BY <1>3, <1>4

LEMMA AskKeeps ==
    ASSUME ReplInv, Ask
    PROVE  ReplInv'
  <1>1. phase = "ask" /\ phase' = "ask" /\ todo # <<>> /\ UNCHANGED <<command, database, query>>
    BY DEF Ask
  <1> DEFINE Answer(q, line) ==
                /\ Getline(line)
                /\ answers' = [x \in DOMAIN answers \cup {q} |->
                                IF x = q THEN line ELSE answers[x]]
                /\ given' = IF line = "" /\ eof' THEN given ELSE given \cup {q}
                /\ todo' = (IF Head(todo) = {q} THEN <<>> ELSE <<Head(todo) \ {q}>>) \o Tail(todo)
                           \o (IF q = "count" THEN Pairs(atoi(line)) ELSE <<>>)
  <1>0. PICK q \in Head(todo) : \E line \in Lines(q) : Answer(q, line)
    BY Zenon DEF Ask
  <1>2. PICK line \in Lines(q) : Answer(q, line)
    BY <1>0, Zenon
  <1> DEFINE new == IF q = "count" THEN Pairs(atoi(line)) ELSE <<>>
             more == IF q = "count" THEN Objects(atoi(line)) ELSE More
             done == DOMAIN answers \cup {q}
  <1>3. todo' = Without(todo, q) \o new
    BY <1>2, Zenon DEF Without
  <1>4. /\ q \notin DOMAIN answers /\ done \subseteq Wanted(command) \cup more
        /\ AsksFor(todo', (Wanted(command) \cup more) \ done)
    BY <1>1, <1>3, AskStep
  <1>5. /\ DOMAIN answers' = done /\ answers'[q] = line
        /\ \A x \in DOMAIN answers : answers'[x] = answers[x]
    BY <1>2, <1>4
  <1>6. More' = more
    <2>1. CASE q = "count"
      BY <1>5, <2>1, Zenon DEF More
    <2>2. CASE q # "count"
      <3>1. CASE "count" \in DOMAIN answers
        <4>1. "count" \in DOMAIN answers' /\ answers'["count"] = answers["count"]
          BY <1>5, <3>1
        <4>2. QED BY <2>2, <3>1, <4>1, Zenon DEF More
      <3>2. CASE "count" \notin DOMAIN answers
        <4>1. "count" \notin DOMAIN answers'
          BY <1>5, <2>2, <3>2
        <4>2. QED BY <2>2, <3>2, <4>1, Zenon DEF More
      <3>3. QED BY <3>1, <3>2
    <2>3. QED BY <2>1, <2>2
  <1>7. AskInv'
    <2> HIDE DEF new, more
    <2>1. \A x \in DOMAIN answers' : answers'[x] \in Lines(x)
      <3>1. \A x \in DOMAIN answers : answers[x] \in Lines(x)
        BY DEF ReplInv, AskInv
      <3>2. QED BY <1>2, <1>5, <3>1, Zenon
    <2>2. command' \in Commands
      BY <1>1 DEF ReplInv, AskInv
    <2>3. phase' # "start" /\ phase' # "loop"
      BY <1>1
    <2>4. DOMAIN answers' \subseteq Wanted(command') \cup More'
      BY <1>1, <1>4, <1>5, <1>6
    <2>5. AsksFor(todo, (Wanted(command) \cup More) \ DOMAIN answers)'
      BY <1>1, <1>4, <1>5, <1>6
    <2>6. QED BY <2>1, <2>2, <2>3, <2>4, <2>5, Zenon DEF AskInv
  <1>8. ReplTypeOK'
    <2>1. eof' \in BOOLEAN
      BY <1>2, EofTyped DEF ReplInv, ReplTypeOK
    <2>2. todo' \in Seq(SUBSET Question)
      BY <1>4 DEF AsksFor
    <2>3. given' \subseteq DOMAIN answers'
      <3>1. given \subseteq DOMAIN answers
        BY DEF ReplInv, ReplTypeOK
      <3>2. given' \subseteq given \cup {q}
        BY <1>2, Zenon
      <3>3. QED BY <1>5, <3>1, <3>2
    <2>4. phase' \in {"start", "loop", "ask", "run", "closed"}
      BY <1>1
    <2>5. QED BY <1>1, <2>1, <2>2, <2>3, <2>4, Zenon DEF ReplInv, ReplTypeOK
  <1>9. phase' # "run"
    BY <1>1
  <1>10. QED BY <1>7, <1>8, <1>9, NotRunning DEF ReplInv

LEMMA RunKeeps ==
    ASSUME ReplInv, Run
    PROVE  ReplInv'
  <1>1. /\ Asked /\ command # "use"
        /\ command = "insert" => atoi(answers["count"]) > 0
        /\ query' = Query /\ phase' = "run"
        /\ UNCHANGED <<command, todo, answers, given, eof, database>>
    BY DEF Run
  <1>2. phase = "ask" /\ command \in Commands
    BY <1>1 DEF Asked, ReplInv, AskInv
  <1>3. Runs(Query) /\ ("db" \in Wanted(command) => About(Query))
    BY <1>1, <1>2, QueryIs
  <1>4. Wanted(command) \cup More = DOMAIN answers
    BY <1>1, AllAnswered
  <1>5. More' = More
    BY <1>1 DEF More
  <1>6. ReplTypeOK'
    <2>1. query'.class \in Classes /\ query'.conn = Conn
      BY <1>1, <1>3 DEF Runs
    <2>2. phase' \in {"start", "loop", "ask", "run", "closed"}
      BY <1>1
    <2>3. QED BY <1>1, <2>1, <2>2, Zenon DEF ReplInv, ReplTypeOK
  <1>7. AskInv'
    <2>1. \A q \in DOMAIN answers' : answers'[q] \in Lines(q)
      BY <1>1, Zenon DEF ReplInv, AskInv
    <2>2. phase' # "start" /\ phase' # "loop" /\ phase' # "ask"
      BY <1>1
    <2>3. command' \in Commands /\ DOMAIN answers' \subseteq Wanted(command') \cup More'
      BY <1>1, <1>2, <1>4, <1>5
    <2>4. QED BY <2>1, <2>2, <2>3, Zenon DEF AskInv
  <1>8. QueriesFit'
    BY <1>1, <1>3 DEF QueriesFit, Runs
  <1>9. DatabaseMeant'
    <2>1. CASE "db" \in DOMAIN answers
      <3>1. "db" \in Wanted(command)
        <4>1. "db" \notin More
          <5>1. CASE "count" \in DOMAIN answers
            <6>1. More = Objects(atoi(answers["count"]))
              BY <5>1, Zenon DEF More
            <6>2. QED BY <6>1 DEF Objects
          <5>2. CASE "count" \notin DOMAIN answers
            BY <5>2, Zenon DEF More
          <5>3. QED BY <5>1, <5>2
        <4>2. QED BY <1>4, <2>1, <4>1
      <3>2. DatabaseOf(Query.term) = Meant
        BY <1>3, <3>1 DEF About
      <3>3. DatabaseOf(query'.term) = Meant'
        BY <1>1, <3>2, Zenon DEF Meant
      <3>4. QED BY <3>3, Zenon DEF DatabaseMeant, Meant
    <2>2. CASE "db" \notin DOMAIN answers
      BY <1>1, <2>2, Zenon DEF DatabaseMeant
    <2>3. QED BY <2>1, <2>2
  <1>10. NumbersMeant'
    <2>1. CASE command \in {"limit", "skip"}
      <3> DEFINE k == atoi(answers[command])
      <3>1. Query.term.args[2].datum.num = k % (SIZE_MAX + 1)
        BY <2>1, QueryNumber
      <3>2. k \in {-1, 0, 1, 2}
        BY AtoiIs
      <3>3. query'.term.args[2].datum.num = k % (SIZE_MAX + 1) /\ k = atoi(answers'[command'])
        BY <1>1, <3>1
      <3>4. IF k >= 0 THEN k % (SIZE_MAX + 1) = k ELSE 2 * (k % (SIZE_MAX + 1)) > SIZE_MAX
        BY <3>2, AsSize
      <3> HIDE DEF k
      <3>5. QED BY <3>3, <3>4, Zenon DEF NumbersMeant
    <2>2. CASE command \notin {"limit", "skip"}
      BY <1>1, <2>2, Zenon DEF NumbersMeant
    <2>3. QED BY <2>1, <2>2
  <1>11. QED BY <1>6, <1>7, <1>8, <1>9, <1>10 DEF ReplInv

LEMMA StutterKeeps ==
    ASSUME ReplInv, UNCHANGED replVars
    PROVE  ReplInv'
  <1>1. UNCHANGED <<phase, command, todo, answers, given, eof, database, query>>
    BY DEF replVars
  <1>2. ReplTypeOK'
    BY <1>1, Zenon DEF ReplInv, ReplTypeOK
  <1>3. AskInv'
    <2>1. More' = More
      BY <1>1, Zenon DEF More
    <2>2. QED BY <1>1, <2>1, Zenon DEF ReplInv, AskInv
  <1>4. QueriesFit' /\ DatabaseMeant' /\ NumbersMeant'
    BY <1>1, Zenon DEF ReplInv, QueriesFit, DatabaseMeant, NumbersMeant
  <1>5. QED BY <1>2, <1>3, <1>4 DEF ReplInv

\* What is being asked, what is answered and what is run belong together in
\* every state of the loop of main() (example.cpp:41-262).
THEOREM ReplInductive == ReplSpec => []ReplInv
  <1>1. ReplInit => ReplInv
    <2> SUFFICES ASSUME ReplInit
                 PROVE  ReplInv
      OBVIOUS
    <2>1. phase = "start" /\ given = {} /\ eof = FALSE /\ query = r(Conn)
      BY DEF ReplInit
    <2>2. command = "" /\ database = "" /\ todo = <<>> /\ answers = <<>>
      BY Zenon DEF ReplInit
    <2>3. todo \in Seq(SUBSET Question)
      BY <2>2, AskNothing, Zenon DEF AsksFor
    <2>4. phase \in {"start", "loop", "ask", "run", "closed"}
      BY <2>1
    <2>5. given \subseteq DOMAIN answers
      BY <2>1
    <2>6. ReplTypeOK
      BY <2>1, <2>2, <2>3, <2>4, <2>5, QueryTyped, Zenon DEF ReplTypeOK
    <2>7. DOMAIN answers = {}
      BY <2>2, NoAnswers, Zenon
    <2>8. phase # "ask" /\ phase # "run"
      BY <2>1
    <2>9. AskInv
      BY <2>7, <2>8, Zenon DEF AskInv
    <2>10. QueriesFit /\ DatabaseMeant /\ NumbersMeant
      BY <2>8, Zenon DEF QueriesFit, DatabaseMeant, NumbersMeant
    <2>11. QED BY <2>6, <2>9, <2>10 DEF ReplInv
  <1>2. ReplInv /\ [ReplNext]_replVars => ReplInv'
    BY StartKeeps, QuitKeeps, ReadCommandKeeps, AskKeeps, UseKeeps, InsertNothingKeeps,
       RunKeeps, RunReturnsKeeps, StutterKeeps DEF ReplNext
  <1>3. QED BY <1>1, <1>2, PTL DEF ReplSpec

\* The state of the loop is well typed (example.cpp:20-262).
THEOREM ReplTyped == ReplSpec => []ReplTypeOK
  <1>1. ReplInv => ReplTypeOK
    BY DEF ReplInv
  <1>2. QED BY <1>1, ReplInductive, PTL

\* Whatever is typed and wherever the input ends, what is run is a query that
\* the signatures of ql2.proto allow, down to its last term, on the program's
\* connection (example.cpp:65-245, ql2.proto:179-486).
THEOREM QueriesAlwaysFit == ReplSpec => []QueriesFit
  <1>1. ReplInv => QueriesFit
    BY DEF ReplInv
  <1>2. QED BY <1>1, ReplInductive, PTL

\* A query is about the database typed for it, or about the default that was
\* in force, for any names (example.cpp:77-245).
THEOREM DatabaseAlwaysMeant == ReplSpec => []DatabaseMeant
  <1>1. ReplInv => DatabaseMeant
    BY DEF ReplInv
  <1>2. QED BY <1>1, ReplInductive, PTL

\* A count typed for limit or skip is the number the query carries, and a
\* negative one is more than half of size_t, however wide it is
\* (example.cpp:216,244, rql.hpp:158-182).
THEOREM NumbersAlwaysMeant == ReplSpec => []NumbersMeant
  <1>1. ReplInv => NumbersMeant
    BY DEF ReplInv
  <1>2. QED BY <1>1, ReplInductive, PTL
=============================================================================
