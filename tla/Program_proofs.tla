--------------------------- MODULE Program_proofs ---------------------------
(***************************************************************************)
(* Whatever a program builds, a term has arguments of the types ql2.proto  *)
(* gives it, unless they are empty or the value of table_drop().           *)
(***************************************************************************)
EXTENDS Program, SequenceTheorems, TLAPS

Excepted == {"none", "TABLE_DROP"}

\* t may stand where a value of one of the types S is wanted.
Admitted(t, S) == t.type \in Excepted \/ TypesOfValue(t) \cap S # {}

\* What is known of every object: its term fits, and its class is a type of
\* the term's value.
Good(o) ==
    /\ o.class \in Classes
    /\ o.term.type \in TermTypes
    /\ o.term.type = "DATUM" => o.term.datum.kind \in DOMAIN DatumTypes
    /\ Admitted(o.term, {o.class})
    /\ FitsBut(o.term, Excepted)

GoodInv == \A o \in held : Good(o)

-----------------------------------------------------------------------------
LEMMA AboveTransitive ==
    ASSUME NEW a \in Classes, NEW b \in Above[a], NEW c \in Above[b]
    PROVE  c \in Above[a] /\ b \in Classes
  BY DEF Above, Classes

\* The value of a term has a class and all above it.
LEMMA ValueTypes ==
    ASSUME NEW t, t.type \in TermTypes, t.type # "none",
           t.type = "DATUM" => t.datum.kind \in DOMAIN DatumTypes
    PROVE  \E x \in Classes : TypesOfValue(t) = Above[x]
  <1>1. \A k \in DOMAIN DatumTypes : DatumTypes[k] \in Classes
    BY DEF DatumTypes, Classes, Above
  <1>2. \A k \in DOMAIN Result : Result[k] \in Classes
    BY DEF Result, Classes, Above
  <1>3. CASE t.type = "DATUM"
    BY <1>1, <1>3 DEF TypesOfValue
  <1>4. CASE t.type # "DATUM"
    BY <1>2, <1>4 DEF TypesOfValue, TermTypes
  <1> QED BY <1>3, <1>4

\* An object serves wherever its class may be used.
LEMMA Serves ==
    ASSUME NEW o, Good(o), NEW c \in Classes, IsA(o, c), NEW S, c \in S
    PROVE  Admitted(o.term, S)
  <1>1. CASE o.term.type \in Excepted
    BY <1>1 DEF Admitted
  <1>2. CASE o.term.type \notin Excepted
    <2>1. PICK x \in Classes : TypesOfValue(o.term) = Above[x]
      BY <1>2, ValueTypes DEF Good, Excepted
    <2>2. o.class \in Above[x]
      BY <1>2, <2>1 DEF Good, Admitted
    <2>3. c \in Above[x]
      BY <2>2, AboveTransitive DEF IsA
    <2> QED BY <2>1, <2>3 DEF Admitted
  <1> QED BY <1>1, <1>2

(* Terms of zero, one, two and three arguments. *)

LEMMA FitsNone ==
    ASSUME NEW type, Len(Signature(type, 0)) = 0
    PROVE  FitsBut(Term(type, <<>>), Excepted)
  BY DEF FitsBut, Term

LEMMA FitsOne ==
    ASSUME NEW type, NEW s, Len(Signature(type, 1)) = 1,
           Admitted(s, Signature(type, 1)[1])
    PROVE  FitsBut(Term(type, <<s>>), Excepted)
  BY DEF FitsBut, Term, ArgumentFits, Admitted

LEMMA FitsTwo ==
    ASSUME NEW type, NEW s, NEW t, Len(Signature(type, 2)) = 2,
           Admitted(s, Signature(type, 2)[1]), Admitted(t, Signature(type, 2)[2])
    PROVE  FitsBut(Term(type, <<s, t>>), Excepted)
  BY DEF FitsBut, Term, ArgumentFits, Admitted

LEMMA FitsThree ==
    ASSUME NEW type, NEW s, NEW t, NEW u, Len(Signature(type, 3)) = 3,
           Admitted(s, Signature(type, 3)[1]), Admitted(t, Signature(type, 3)[2]),
           Admitted(u, Signature(type, 3)[3])
    PROVE  FitsBut(Term(type, <<s, t, u>>), Excepted)
  BY DEF FitsBut, Term, ArgumentFits, Admitted

LEMMA TermsOf ==
    /\ Terms(<<>>) = <<>>
    /\ \A p : Terms(<<p>>) = <<p.term>>
    /\ \A p, q : Terms(<<p, q>>) = <<p.term, q.term>>
    /\ \A p, q, x : Terms(<<p, q, x>>) = <<p.term, q.term, x.term>>
  BY DEF Terms

LEMMA PairOf ==
    ASSUME NEW a, NEW b
    PROVE  <<a>> \o <<b>> = <<a, b>>
  <1> DEFINE S == {a, b}
  <1>1. <<a>> \in Seq(S) /\ <<b>> \in Seq(S) /\ <<a, b>> \in Seq(S)
    OBVIOUS
  <1>2. /\ <<a>> \o <<b>> \in Seq(S)
        /\ Len(<<a>> \o <<b>>) = 2
        /\ (<<a>> \o <<b>>)[1] = a /\ (<<a>> \o <<b>>)[2] = b
    BY <1>1, ConcatProperties, Len(<<a>>) = 1, Len(<<b>>) = 1, <<a>>[1] = a, <<b>>[1] = b
  <1>3. \A i \in 1 .. 2 : (<<a>> \o <<b>>)[i] = <<a, b>>[i]
    BY <1>2, \A i \in 1 .. 2 : i = 1 \/ i = 2, <<a, b>>[1] = a, <<a, b>>[2] = b
  <1> QED BY <1>1, <1>2, <1>3, SeqEqual, Len(<<a, b>>) = 2

(* What Made builds is good if its arguments are admitted.                 *)

LEMMA MadeIsGood ==
    ASSUME NEW o, NEW class \in Classes, NEW type \in DOMAIN Result,
           type = "TABLE_DROP" \/ class = Result[type],
           NEW objects, FitsBut(Term(type, Terms(objects)), Excepted)
    PROVE  Good(Made(o, class, type, objects))
  <1>1. type # "DATUM" /\ type # "none"
    BY DEF Result
  <1>2. type # "TABLE_DROP" => class \in TypesOfValue(Term(type, Terms(objects)))
    BY <1>1, class \in Above[class] DEF TypesOfValue, Term, Classes, Above
  <1> QED BY <1>1, <1>2 DEF Good, Made, Term, TermTypes, Admitted, Excepted

LEMMA MadeOfNone ==
    ASSUME NEW o, NEW class \in Classes, NEW type \in DOMAIN Result,
           type = "TABLE_DROP" \/ class = Result[type],
           Len(Signature(type, 0)) = 0
    PROVE  Good(Made(o, class, type, <<>>))
  BY MadeIsGood, FitsNone, TermsOf

LEMMA MadeOfOne ==
    ASSUME NEW o, NEW class \in Classes, NEW type \in DOMAIN Result,
           type = "TABLE_DROP" \/ class = Result[type],
           NEW p, Len(Signature(type, 1)) = 1, Admitted(p.term, Signature(type, 1)[1])
    PROVE  Good(Made(o, class, type, <<p>>))
  BY MadeIsGood, FitsOne, TermsOf

LEMMA MadeOfTwo ==
    ASSUME NEW o, NEW class \in Classes, NEW type \in DOMAIN Result,
           type = "TABLE_DROP" \/ class = Result[type],
           NEW p, NEW q, Len(Signature(type, 2)) = 2,
           Admitted(p.term, Signature(type, 2)[1]), Admitted(q.term, Signature(type, 2)[2])
    PROVE  Good(Made(o, class, type, <<p, q>>))
  BY MadeIsGood, FitsTwo, TermsOf

LEMMA MadeOfThree ==
    ASSUME NEW o, NEW class \in Classes, NEW type \in DOMAIN Result,
           type = "TABLE_DROP" \/ class = Result[type],
           NEW p, NEW q, NEW x, Len(Signature(type, 3)) = 3,
           Admitted(p.term, Signature(type, 3)[1]), Admitted(q.term, Signature(type, 3)[2]),
           Admitted(x.term, Signature(type, 3)[3])
    PROVE  Good(Made(o, class, type, <<p, q, x>>))
  BY MadeIsGood, FitsThree, TermsOf

-----------------------------------------------------------------------------
(* The objects at hand. *)

LEMMA DatumIsGood ==
    ASSUME NEW d, d.kind \in DOMAIN DatumTypes
    PROVE  Good(Datum(DatumTypes[d.kind], d))
  <1> DEFINE o == Datum(DatumTypes[d.kind], d)
  <1>1. o.class = DatumTypes[d.kind] /\ o.term = DatumTerm(d)
    BY DEF Datum
  <1>2. o.class \in Classes /\ o.class \in Above[o.class]
    BY <1>1 DEF DatumTypes, Classes, Above
  <1>3. o.term.type = "DATUM" /\ o.term.datum = d /\ o.term.args = <<>>
    BY <1>1 DEF DatumTerm
  <1>4. o.class \in TypesOfValue(o.term)
    BY <1>1, <1>2, <1>3 DEF TypesOfValue
  <1>5. FitsBut(o.term, Excepted)
    BY <1>3 DEF FitsBut, Signature
  <1> QED BY <1>2, <1>3, <1>4, <1>5 DEF Good, TermTypes, Admitted

LEMMA BareIsGood ==
    ASSUME NEW c \in Classes, NEW o, o.class = c, o.term = Term("none", <<>>)
    PROVE  Good(o)
  <1>1. FitsBut(o.term, Excepted)
    BY FitsNone, Len(Signature("none", 0)) = 0 DEF Signature
  <1> QED BY <1>1 DEF Good, Term, TermTypes, Admitted, Excepted

LEMMA StringIsGood == \A w : Good(RQL_String(w)) /\ RQL_String(w).class = "String"
  <1> SUFFICES ASSUME NEW w PROVE Good(RQL_String(w)) /\ RQL_String(w).class = "String"
    OBVIOUS
  <1> DEFINE d == [kind |-> "R_STR", str |-> w]
  <1>1. d.kind \in DOMAIN DatumTypes /\ DatumTypes[d.kind] = "String"
    BY DEF DatumTypes
  <1> HIDE DEF d
  <1>2. Good(Datum("String", d))
    BY <1>1, DatumIsGood
  <1> QED BY <1>2 DEF d, RQL_String, Datum

LEMMA ObjectsAreGood ==
    ASSUME GoodInv, NEW class, NEW o \in Objects(class)
    PROVE  Good(o) /\ IsA(o, class)
  <1>1. CASE o \in held
    BY <1>1 DEF GoodInv, Objects
  <1>2. CASE \E c \in Conns : o = r(c)
    BY <1>2, BareIsGood, "Top" \in Classes DEF r, Bare, Objects, Classes, Above
  <1>3. CASE \E w \in Words : o = RQL_String(w)
    BY <1>3, StringIsGood DEF Objects
  <1>4. CASE o = RQL_Number(1)
    <2>1. Good(Datum("Number", [kind |-> "R_NUM", num |-> 1]))
      BY DatumIsGood, "R_NUM" \in DOMAIN DatumTypes, DatumTypes["R_NUM"] = "Number" DEF DatumTypes
    <2> QED BY <1>4, <2>1 DEF RQL_Number, Objects
  <1>5. CASE o = RQL_Bool(TRUE)
    <2>1. Good(Datum("Bool", [kind |-> "R_BOOL", bool |-> TRUE]))
      BY DatumIsGood, "R_BOOL" \in DOMAIN DatumTypes, DatumTypes["R_BOOL"] = "Bool" DEF DatumTypes
    <2> QED BY <1>5, <2>1 DEF RQL_Bool, Objects
  <1>6. CASE \E c \in BareClasses : o = Bare(c)
    BY <1>6, BareIsGood, ProgramAssumption DEF Bare, Objects
  <1> QED BY <1>1, <1>2, <1>3, <1>4, <1>5, <1>6 DEF Objects, Given

-----------------------------------------------------------------------------
(* One lemma for each action: what it holds is good. *)

LEMMA HoldGood ==
    ASSUME GoodInv, NEW o, Good(o), Hold(o)
    PROVE  GoodInv'
  BY DEF GoodInv, Hold

\* An object got from Objects(c) is admitted wherever c is.
LEMMA AtHand ==
    ASSUME GoodInv, NEW c \in Classes, NEW o \in Objects(c), NEW S, c \in S
    PROVE  Admitted(o.term, S)
  BY ObjectsAreGood, Serves

LEMMA MakeGood ==
    ASSUME GoodInv, Make
    PROVE  GoodInv'
  <1>1. ASSUME NEW w \in Words, NEW o \in Objects("Datum"), Hold(RQL_Object(w, o))
        PROVE  GoodInv'
    <2> DEFINE d == [kind |-> "R_OBJECT", key |-> w, val |-> o.term.datum]
    <2>1. d.kind \in DOMAIN DatumTypes /\ DatumTypes[d.kind] = "Object"
      BY DEF DatumTypes
    <2>2. RQL_Object(w, o) = Datum("Object", d)
      BY DEF RQL_Object
    <2> HIDE DEF d
    <2>3. Good(RQL_Object(w, o))
      BY <2>1, <2>2, DatumIsGood
    <2> QED BY <1>1, <2>3, HoldGood
  <1>2. ASSUME NEW o \in Objects("Datum"), Hold(RQL_Array(<<o>>))
        PROVE  GoodInv'
    <2> DEFINE a == RQL_Array(<<o>>)
               m == Made(o, "Array", "MAKE_ARRAY", <<o>>)
    <2>1. Good(m)
      <3>1. Admitted(o.term, {"Datum"})
        BY AtHand, "Datum" \in Classes DEF Classes, Above
      <3>2. Len(Signature("MAKE_ARRAY", 1)) = 1 /\ Signature("MAKE_ARRAY", 1)[1] = {"Datum"}
        BY DEF Signature
      <3>3. "Array" \in Classes /\ "MAKE_ARRAY" \in DOMAIN Result /\ Result["MAKE_ARRAY"] = "Array"
        BY DEF Classes, Above, Result
      <3> QED BY <3>1, <3>2, <3>3, MadeOfOne
    <2>2. a.class = m.class /\ a.term = m.term
      BY DEF RQL_Array, Made
    <2>3. Good(a)
      BY <2>1, <2>2 DEF Good
    <2> QED BY <1>2, <2>3, HoldGood
  <1>3. ASSUME NEW s \in Objects("String"), NEW type \in {"ASC", "DESC"}, Hold(Ordering(type, s))
        PROVE  GoodInv'
    <2> DEFINE a == Ordering(type, s)
               m == Made(s, "Ordering", type, <<s>>)
    <2>1. Good(m)
      <3>1. Admitted(s.term, {"String"})
        BY AtHand, "String" \in Classes DEF Classes, Above
      <3>2. Len(Signature(type, 1)) = 1 /\ Signature(type, 1)[1] = {"String"}
        BY DEF Signature
      <3>3. "Ordering" \in Classes /\ type \in DOMAIN Result /\ Result[type] = "Ordering"
        BY DEF Classes, Above, Result
      <3> QED BY <3>1, <3>2, <3>3, MadeOfOne
    <2>2. a.class = m.class /\ a.term = m.term
      BY TermsOf DEF Ordering, Made
    <2>3. Good(a)
      BY <2>1, <2>2 DEF Good
    <2> QED BY <1>3, <2>3, HoldGood
  <1> QED BY <1>1, <1>2, <1>3 DEF Make, asc, desc

LEMMA OnServerGood ==
    ASSUME GoodInv, OnServer
    PROVE  GoodInv'
  <1>1. PICK o \in Objects("Top") :
           \/ Hold(db_list(o))
           \/ \E s \in Objects("String") :
                 Hold(db(o, s)) \/ Hold(db_create(o, s)) \/ Hold(db_drop(o, s))
    BY DEF OnServer
  <1>2. \A s \in Objects("String") : Admitted(s.term, {"String"})
    BY AtHand, "String" \in Classes DEF Classes, Above
  <1>3. Good(db_list(o))
    BY MadeOfNone DEF db_list, Classes, Above, Result, Signature
  <1>4. ASSUME NEW s \in Objects("String"), NEW type \in {"DB", "DB_CREATE", "DB_DROP"}
        PROVE  Good(Made(o, Result[type], type, <<s>>))
    <2>1. Len(Signature(type, 1)) = 1 /\ Signature(type, 1)[1] = {"String"}
      BY <1>4 DEF Signature
    <2>2. type \in DOMAIN Result /\ Result[type] \in Classes
      BY <1>4 DEF Result, Classes, Above
    <2> QED BY <1>2, <2>1, <2>2, MadeOfOne
  <1>5. ASSUME NEW s \in Objects("String")
        PROVE  Good(db(o, s)) /\ Good(db_create(o, s)) /\ Good(db_drop(o, s))
    <2>1. /\ Result["DB"] = "Database"
          /\ Result["DB_CREATE"] = "Object" /\ Result["DB_DROP"] = "Object"
      BY DEF Result
    <2> QED BY <1>4, <2>1 DEF db, db_create, db_drop
  <1> QED BY <1>1, <1>3, <1>5, HoldGood

LEMMA OnDatabaseGood ==
    ASSUME GoodInv, OnDatabase
    PROVE  GoodInv'
  <1>1. PICK o \in Connected :
           \/ Hold(table_list(o, databases[o.conn]))
           \/ \E s \in Objects("String") :
                 \/ Hold(table(o, s, databases[o.conn]))
                 \/ Hold(table_create(o, s, databases[o.conn]))
                 \/ Hold(table_drop(o, s, databases[o.conn]))
    BY DEF OnDatabase
  <1> DEFINE t == Target(o, databases[o.conn])
  <1>2. \A s \in Objects("String") : Admitted(s.term, {"String"})
    BY AtHand, "String" \in Classes DEF Classes, Above
  <1>3. Good(db(o, RQL_String(databases[o.conn])))
    <2>1. Admitted(RQL_String(databases[o.conn]).term, {"String"})
      BY StringIsGood, Serves, "String" \in Classes, "String" \in Above["String"]
         DEF IsA, Classes, Above
    <2> QED BY <2>1, MadeOfOne DEF db, Classes, Above, Result, Signature
  <1>4. Good(t) /\ t.class = "Database"
    BY <1>3, ObjectsAreGood DEF Target, Connected, db, Made
  <1>5. Admitted(t.term, {"Database"})
    BY <1>4, Serves, "Database" \in Classes, "Database" \in Above["Database"]
       DEF IsA, Classes, Above
  <1> HIDE DEF t
  <1>6. Good(Made(o, "Array", "TABLE_LIST", <<t>>))
    BY <1>5, MadeOfOne DEF Classes, Above, Result, Signature
  <1>7. ASSUME NEW s \in Objects("String"),
               NEW c \in Classes, NEW type \in {"TABLE", "TABLE_CREATE", "TABLE_DROP"},
               type = "TABLE_DROP" \/ c = Result[type]
        PROVE  Good(Made(o, c, type, <<t, s>>))
    <2>1. /\ Len(Signature(type, 2)) = 2
          /\ Signature(type, 2)[1] = {"Database"} /\ Signature(type, 2)[2] = {"String"}
      BY DEF Signature
    <2>2. type \in DOMAIN Result
      BY DEF Result
    <2> QED BY <1>2, <1>5, <1>7, <2>1, <2>2, MadeOfTwo
  <1>8. /\ "Table" \in Classes /\ "Object" \in Classes /\ "Array" \in Classes
        /\ Result["TABLE"] = "Table" /\ Result["TABLE_CREATE"] = "Object"
    BY DEF Classes, Above, Result
  <1>9. \A s \in Objects("String") :
           /\ Good(table(o, s, databases[o.conn]))
           /\ Good(table_create(o, s, databases[o.conn]))
           /\ Good(table_drop(o, s, databases[o.conn]))
    BY <1>7, <1>8 DEF t, table, table_create, table_drop
  <1>10. Good(table_list(o, databases[o.conn]))
    BY <1>6 DEF t, table_list
  <1> QED BY <1>1, <1>9, <1>10, HoldGood

\* What stands for a function or an object, a number, an ordering.
LEMMA Parameters ==
    ASSUME GoodInv
    PROVE  /\ \A p \in Objects("Function") \cup Objects("Object") :
                Admitted(p.term, {"Function", "Object"})
           /\ \A n \in Objects("Number") : Admitted(n.term, {"Number"})
           /\ \A k \in Objects("String") \cup Objects("Number") :
                Admitted(k.term, {"String", "Number"})
           /\ \A p \in Objects("Ordering") : Admitted(p.term, {"String", "Ordering"})
           /\ \A d \in Objects("Datum") : Admitted(d.term, {"Datum"})
           /\ \A p \in Objects("Object") \cup Objects("Sequence") :
                Admitted(p.term, {"Object", "Sequence"})
  <1>1. {"Function", "Object", "Number", "String", "Ordering", "Datum", "Sequence"} \subseteq Classes
    BY DEF Classes, Above
  <1> QED BY <1>1, AtHand

LEMMA OnSequenceGood ==
    ASSUME GoodInv, OnSequence
    PROVE  GoodInv'
  <1>1. PICK o \in Objects("Sequence") :
           \/ \E p \in Objects("Function") \cup Objects("Object") : Hold(filter(o, p))
           \/ \E p \in Objects("Ordering") : Hold(order_by(o, <<p>>))
           \/ \E n \in Objects("Number") : Hold(skip(o, n)) \/ Hold(limit(o, n))
    BY DEF OnSequence
  <1>2. Admitted(o.term, {"Sequence"}) /\ "Sequence" \in Classes
    BY AtHand DEF Classes, Above
  <1>3. ASSUME NEW p \in Objects("Function") \cup Objects("Object"), Hold(filter(o, p))
        PROVE  GoodInv'
    <2>1. Good(Made(o, "Sequence", "FILTER", <<o, p>>))
      BY <1>2, Parameters, MadeOfTwo DEF Result, Signature
    <2> QED BY <1>3, <2>1, HoldGood DEF filter
  <1>4. ASSUME NEW p \in Objects("Ordering"), Hold(order_by(o, <<p>>))
        PROVE  GoodInv'
    <2>1. Good(Made(o, "Sequence", "ORDERBY", <<o, p>>))
      BY <1>2, Parameters, MadeOfTwo DEF Result, Signature
    <2>2. order_by(o, <<p>>) = Made(o, "Sequence", "ORDERBY", <<o, p>>)
      BY PairOf DEF order_by
    <2> QED BY <1>4, <2>1, <2>2, HoldGood
  <1>5. ASSUME NEW n \in Objects("Number"), NEW type \in {"SKIP", "LIMIT"},
               Hold(Made(o, "Sequence", type, <<o, n>>))
        PROVE  GoodInv'
    <2>1. /\ Len(Signature(type, 2)) = 2
          /\ Signature(type, 2)[1] = {"Sequence"} /\ Signature(type, 2)[2] = {"Number"}
      BY DEF Signature
    <2>2. type \in DOMAIN Result /\ Result[type] = "Sequence"
      BY DEF Result
    <2>3. Good(Made(o, "Sequence", type, <<o, n>>))
      BY <1>2, <2>1, <2>2, Parameters, MadeOfTwo
    <2> QED BY <1>5, <2>3, HoldGood
  <1> QED BY <1>1, <1>3, <1>4, <1>5 DEF skip, limit

LEMMA OnSelectionGood ==
    ASSUME GoodInv, OnSelection
    PROVE  GoodInv'
  <1> DEFINE selection == {"Stream_Selection", "Single_Selection"}
  <1>1. "Stream_Selection" \in Classes /\ "Single_Selection" \in Classes /\ "Object" \in Classes
    BY DEF Classes, Above
  <1>2. \A o \in Objects("Stream_Selection") \cup Objects("Single_Selection") :
           Admitted(o.term, selection)
    BY <1>1, AtHand
  <1>3. \A o \in Objects("Stream_Selection") : Admitted(o.term, {"Stream_Selection"})
    BY <1>1, AtHand
  <1>4. ASSUME NEW o \in Objects("Stream_Selection"),
               NEW d1 \in Objects("Datum"), NEW d2 \in Objects("Datum"), Hold(between(o, d1, d2))
        PROVE  GoodInv'
    <2>1. Good(Made(o, "Stream_Selection", "BETWEEN", <<o, d1, d2>>))
      BY <1>1, <1>3, Parameters, MadeOfThree DEF Result, Signature
    <2> QED BY <1>4, <2>1, HoldGood DEF between
  <1>5. ASSUME NEW o \in Objects("Stream_Selection") \cup Objects("Single_Selection"),
               Hold(remove(o))
        PROVE  GoodInv'
    <2>1. Good(Made(o, "Object", "DELETE", <<o>>))
      BY <1>1, <1>2, MadeOfOne DEF Result, Signature
    <2> QED BY <1>5, <2>1, HoldGood DEF remove
  <1>6. ASSUME NEW o \in Objects("Stream_Selection") \cup Objects("Single_Selection"),
               NEW p \in Objects("Function") \cup Objects("Object"), Hold(update(o, p))
        PROVE  GoodInv'
    <2>1. Good(Made(o, "Object", "UPDATE", <<o, p>>))
      BY <1>1, <1>2, Parameters, MadeOfTwo DEF Result, Signature
    <2> QED BY <1>6, <2>1, HoldGood DEF update
  <1> QED BY <1>4, <1>5, <1>6 DEF OnSelection

LEMMA OnTableGood ==
    ASSUME GoodInv, OnTable
    PROVE  GoodInv'
  <1>1. "Table" \in Classes /\ "Object" \in Classes /\ "Single_Selection" \in Classes
    BY DEF Classes, Above
  <1>2. \A o \in Objects("Table") : Admitted(o.term, {"Table"})
    BY <1>1, AtHand
  <1>3. ASSUME NEW o \in Objects("Table"), NEW k \in Objects("String") \cup Objects("Number"),
               Hold(get(o, k))
        PROVE  GoodInv'
    <2>1. Good(Made(o, "Single_Selection", "GET", <<o, k>>))
      BY <1>1, <1>2, Parameters, MadeOfTwo DEF Result, Signature
    <2> QED BY <1>3, <2>1, HoldGood DEF get
  <1>4. ASSUME NEW o \in Objects("Table"), NEW p \in Objects("Object") \cup Objects("Sequence"),
               Hold(insert(o, p))
        PROVE  GoodInv'
    <2>1. Good(Made(o, "Object", "INSERT", <<o, p>>))
      BY <1>1, <1>2, Parameters, MadeOfTwo DEF Result, Signature
    <2> QED BY <1>4, <2>1, HoldGood DEF insert
  <1> QED BY <1>3, <1>4 DEF OnTable

-----------------------------------------------------------------------------
LEMMA GoodInductive ==
    ASSUME GoodInv, [ProgramNext]_programVars
    PROVE  GoodInv'
  <1>1. CASE Build
    BY <1>1, MakeGood, OnServerGood, OnDatabaseGood, OnSequenceGood, OnSelectionGood,
       OnTableGood DEF Build
  <1>2. CASE \E c \in Conns, d \in DefaultDbs : UseDatabase(c, d)
    BY <1>2 DEF UseDatabase, GoodInv
  <1>3. CASE UNCHANGED programVars
    BY <1>3 DEF programVars, GoodInv
  <1> QED BY <1>1, <1>2, <1>3 DEF ProgramNext

\* Whatever builders a program calls on whatever objects, in any order and over
\* any number of connections (rql.hpp:60-373, rql.cpp:75-146), the arguments of
\* every term it holds are of the types ql2.proto gives them, unless an argument
\* is an empty term or a table_drop().
THEOREM TermsFit == ProgramSpec => []MisfitsHaveCause
  <1>1. ProgramInit => GoodInv
    BY DEF ProgramInit, GoodInv
  <1>2. GoodInv /\ [ProgramNext]_programVars => GoodInv'
    BY GoodInductive
  <1>3. GoodInv => MisfitsHaveCause
    BY DEF GoodInv, Good, MisfitsHaveCause, Excepted
  <1> QED BY <1>1, <1>2, <1>3, PTL DEF ProgramSpec

-----------------------------------------------------------------------------
(* The default databases *)

TableTypes == {"TABLE", "TABLE_CREATE", "TABLE_DROP", "TABLE_LIST"}

\* A database term under a connection names one the program has asked for, or
\* one that has been the default of the connection.
Named(t, c) ==
    t.type = "DB" /\ c # NoConn => t.args[1].datum.str \in Words \cup been[c]

\* What is known of every object the program holds; no method makes a String,
\* and only db() makes a Database.
Sound(o) ==
    /\ o.class \in Classes \ {"String"}
    /\ o.conn \in Conns \cup {NoConn}
    /\ o.term.type \in TermTypes
    /\ o.term.type \in {"none", "DATUM"} => o.term.args = <<>>
    /\ o.class = "Database" /\ o.term.type = "DB" => o.term.args[1].datum.str \in Words
    /\ o.term.type \in TableTypes => Named(o.term.args[1], o.conn)

OwnInv ==
    /\ databases \in [Conns -> DefaultDbs]
    /\ been \in [Conns -> SUBSET DefaultDbs]
    /\ \A c \in Conns : databases[c] \in been[c]
    /\ \A o \in held : Sound(o)

\* A String at hand is a literal of the program.
LEMMA ObjectsAreSound ==
    ASSUME OwnInv, NEW class, NEW o \in Objects(class)
    PROVE  /\ o.conn \in Conns \cup {NoConn}
           /\ o.class = "Database" /\ o.term.type = "DB" => o.term.args[1].datum.str \in Words
           /\ class = "String" => o.term.datum.str \in Words
  <1>1. \A c \in Classes : "String" \in Above[c] => c = "String"
    BY DEF Classes, Above
  <1>2. CASE o \in held
    BY <1>1, <1>2 DEF OwnInv, Sound, Objects, IsA
  <1>3. CASE \E c \in Conns : o = r(c)
    BY <1>1, <1>3, "Top" \in Classes, "Top" # "String" DEF r, Bare, Term, Objects, IsA, Classes, Above
  <1>4. CASE \E w \in Words : o = RQL_String(w)
    BY <1>4 DEF RQL_String, Datum, DatumTerm
  <1>5. CASE o = RQL_Number(1) \/ o = RQL_Bool(TRUE)
    BY <1>1, <1>5, "Number" \in Classes, "Bool" \in Classes
    DEF RQL_Number, RQL_Bool, Datum, DatumTerm, Objects, IsA, Classes, Above
  <1>6. CASE \E c \in BareClasses : o = Bare(c)
    BY <1>1, <1>6, ProgramAssumption DEF Bare, Term, Objects, IsA, Literals
  <1> QED BY <1>2, <1>3, <1>4, <1>5, <1>6 DEF Objects, Given

LEMMA HoldSound ==
    ASSUME OwnInv, NEW o, Sound(o), Hold(o)
    PROVE  OwnInv'
  BY DEF OwnInv, Hold, Sound, Named

\* A method that is not about a database makes nothing with a database in it.
LEMMA MadeIsSound ==
    ASSUME OwnInv, NEW class, NEW o \in Objects(class), NEW objects,
           NEW c \in Classes \ {"String", "Database"}, NEW type \in DOMAIN Result \ TableTypes,
           Hold(Made(o, c, type, objects))
    PROVE  OwnInv'
  <1>1. type \in TermTypes /\ type \notin {"none", "DATUM"}
    BY DEF TermTypes, Result
  <1>2. Sound(Made(o, c, type, objects))
    BY <1>1, ObjectsAreSound DEF Sound, Made, Term
  <1> QED BY <1>2, HoldSound

LEMMA MakeSound ==
    ASSUME OwnInv, Make
    PROVE  OwnInv'
  <1>1. {"Object", "Array", "Ordering"} \subseteq Classes \ {"String", "Database"}
    BY DEF Classes, Above
  <1>2. {"MAKE_ARRAY", "ASC", "DESC", "DATUM"} \subseteq TermTypes \ TableTypes
    BY DEF TermTypes, Result, TableTypes
  <1>3. ASSUME NEW w, NEW o, Hold(RQL_Object(w, o)) PROVE OwnInv'
    <2>1. Sound(RQL_Object(w, o))
      BY <1>1, <1>2 DEF Sound, RQL_Object, Datum, DatumTerm
    <2> QED BY <1>3, <2>1, HoldSound
  <1>4. ASSUME NEW o, Hold(RQL_Array(<<o>>)) PROVE OwnInv'
    <2>1. Sound(RQL_Array(<<o>>))
      BY <1>1, <1>2 DEF Sound, RQL_Array, Term
    <2> QED BY <1>4, <2>1, HoldSound
  <1>5. ASSUME NEW s, NEW type \in {"ASC", "DESC"}, Hold(Ordering(type, s)) PROVE OwnInv'
    <2>1. Sound(Ordering(type, s))
      BY <1>1, <1>2 DEF Sound, Ordering, Term
    <2> QED BY <1>5, <2>1, HoldSound
  <1> QED BY <1>3, <1>4, <1>5 DEF Make, asc, desc

LEMMA OnServerSound ==
    ASSUME OwnInv, OnServer
    PROVE  OwnInv'
  <1>1. PICK o \in Objects("Top") :
           \/ Hold(db_list(o))
           \/ \E s \in Objects("String") :
                 Hold(db(o, s)) \/ Hold(db_create(o, s)) \/ Hold(db_drop(o, s))
    BY DEF OnServer
  <1>2. {"Array", "Object"} \subseteq Classes \ {"String", "Database"}
    BY DEF Classes, Above
  <1>3. {"DB_LIST", "DB_CREATE", "DB_DROP"} \subseteq DOMAIN Result \ TableTypes
    BY DEF Result, TableTypes
  <1>4. ASSUME NEW s \in Objects("String"), Hold(db(o, s)) PROVE OwnInv'
    <2>1. s.term.datum.str \in Words /\ o.conn \in Conns \cup {NoConn}
      BY ObjectsAreSound
    <2>2. db(o, s) = [class |-> "Database", term |-> Term("DB", <<s.term>>), conn |-> o.conn]
      BY TermsOf DEF db, Made
    <2>3. "Database" \in Classes \ {"String"} /\ "DB" \in TermTypes \ TableTypes
      BY DEF Classes, Above, TermTypes, Result, TableTypes
    <2>4. Sound(db(o, s))
      BY <2>1, <2>2, <2>3 DEF Sound, Term
    <2> QED BY <1>4, <2>4, HoldSound
  <1> QED BY <1>1, <1>2, <1>3, <1>4, MadeIsSound DEF db_list, db_create, db_drop

\* On a Database the methods are about that database, on any other object about
\* the default database its connection has at this moment.
LEMMA OnDatabaseSound ==
    ASSUME OwnInv, OnDatabase
    PROVE  OwnInv'
  <1>1. PICK o \in Connected :
           \/ Hold(table_list(o, databases[o.conn]))
           \/ \E s \in Objects("String") :
                 \/ Hold(table(o, s, databases[o.conn]))
                 \/ Hold(table_create(o, s, databases[o.conn]))
                 \/ Hold(table_drop(o, s, databases[o.conn]))
    BY DEF OnDatabase
  <1> DEFINE t == Target(o, databases[o.conn])
  <1>2. o.conn \in Conns \cup {NoConn}
    BY ObjectsAreSound DEF Connected
  <1>3. Named(t.term, o.conn)
    <2>1. CASE o.class = "Database"
      BY <2>1, ObjectsAreSound DEF Target, Named, Connected
    <2>2. CASE o.class # "Database"
      <3>1. o.conn \in Conns
        BY <1>2, <2>2 DEF Connected
      <3>2. databases[o.conn] \in been[o.conn]
        BY <3>1 DEF OwnInv
      <3>3. t.term = Term("DB", <<RQL_String(databases[o.conn]).term>>)
        BY <2>2, TermsOf DEF Target, db, Made
      <3>4. t.term.args[1].datum.str = databases[o.conn]
        BY <3>3 DEF Term, RQL_String, Datum, DatumTerm
      <3> QED BY <3>2, <3>4 DEF Named
    <2> QED BY <2>1, <2>2
  <1> HIDE DEF t
  <1>4. ASSUME NEW c \in {"Array", "Table", "Object"}, NEW type \in TableTypes, NEW objects,
               objects = <<t>> \/ \E s : objects = <<t, s>>
        PROVE  Sound(Made(o, c, type, objects))
    <2>1. Terms(objects)[1] = t.term
      BY <1>4, TermsOf
    <2>2. type \in TermTypes /\ type \notin {"none", "DATUM", "DB"} /\ c \in Classes \ {"String", "Database"}
      BY DEF TermTypes, Result, TableTypes, Classes, Above
    <2> QED BY <1>2, <1>3, <2>1, <2>2 DEF Sound, Made, Term
  <1>5. /\ Sound(table_list(o, databases[o.conn]))
        /\ \A s : /\ Sound(table(o, s, databases[o.conn]))
                  /\ Sound(table_create(o, s, databases[o.conn]))
                  /\ Sound(table_drop(o, s, databases[o.conn]))
    BY <1>4 DEF t, table, table_create, table_drop, table_list, TableTypes
  <1> QED BY <1>1, <1>5, HoldSound

LEMMA OnOthersSound ==
    ASSUME OwnInv, OnSequence \/ OnSelection \/ OnTable
    PROVE  OwnInv'
  <1>1. {"Sequence", "Stream_Selection", "Object", "Single_Selection"}
           \subseteq Classes \ {"String", "Database"}
    BY DEF Classes, Above
  <1>2. {"FILTER", "ORDERBY", "SKIP", "LIMIT", "BETWEEN", "DELETE", "UPDATE", "GET", "INSERT"}
           \subseteq DOMAIN Result \ TableTypes
    BY DEF Result, TableTypes
  <1>3. CASE OnSequence
    BY <1>1, <1>2, <1>3, MadeIsSound DEF OnSequence, filter, order_by, skip, limit
  <1>4. CASE OnSelection
    BY <1>1, <1>2, <1>4, MadeIsSound DEF OnSelection, between, remove, update
  <1>5. CASE OnTable
    BY <1>1, <1>2, <1>5, MadeIsSound DEF OnTable, get, insert
  <1> QED BY <1>3, <1>4, <1>5

LEMMA OwnInductive ==
    ASSUME OwnInv, [ProgramNext]_programVars
    PROVE  OwnInv'
  <1>1. CASE Build
    BY <1>1, MakeSound, OnServerSound, OnDatabaseSound, OnOthersSound DEF Build
  <1>2. ASSUME NEW c \in Conns, NEW d \in DefaultDbs, UseDatabase(c, d) PROVE OwnInv'
    <2>1. /\ databases' = [databases EXCEPT ![c] = d] /\ held' = held
          /\ been' = [been EXCEPT ![c] = @ \cup {d}]
      BY <1>2 DEF UseDatabase
    <2>2. /\ databases' \in [Conns -> DefaultDbs] /\ been' \in [Conns -> SUBSET DefaultDbs]
          /\ \A x \in Conns : databases'[x] \in been'[x] /\ been[x] \subseteq been'[x]
      BY <2>1 DEF OwnInv
    <2>3. \A o \in held : Sound(o)'
      BY <2>2 DEF OwnInv, Sound, Named
    <2> QED BY <2>1, <2>2, <2>3 DEF OwnInv
  <1>3. CASE UNCHANGED programVars
    BY <1>3 DEF programVars, OwnInv, Sound, Named
  <1> QED BY <1>1, <1>2, <1>3 DEF ProgramNext

LEMMA OwnInit == ProgramInit => OwnInv
  BY DEF ProgramInit, OwnInv

\* However a program interleaves use() and methods over any number of
\* connections, a table is never looked for in a default database that its
\* connection has not had.
THEOREM DatabaseSound == ProgramSpec => []OwnDatabase
  <1>1. OwnInv => OwnDatabase
    BY DEF OwnInv, Sound, Named, TableTypes, OwnDatabase
  <1>2. OwnInv /\ [ProgramNext]_programVars => OwnInv'
    BY OwnInductive
  <1>3. QED BY <1>1, <1>2, OwnInit, PTL DEF ProgramSpec

\* The objects a program holds stay well typed.
THEOREM ProgramTypeCorrect == ProgramSpec => []ProgramTypeOK
  <1>1. OwnInv => ProgramTypeOK
    BY DEF OwnInv, Sound, ProgramTypeOK
  <1>2. OwnInv /\ [ProgramNext]_programVars => OwnInv'
    BY OwnInductive
  <1>3. QED BY <1>1, <1>2, OwnInit, PTL DEF ProgramSpec
=============================================================================
