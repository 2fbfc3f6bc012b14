-------------------------- MODULE LeaveBalanceProofs ------------------------
(***************************************************************************)
(* Proofs about LeaveBalance, for any number of requests, users, handlers  *)
(* and runs and for every policy.                                          *)
(***************************************************************************)
EXTENDS LeaveBalance, SumTheorems, SequenceTheorems

-----------------------------------------------------------------------------
(* What the list of statements of a handler looks like. *)

\* What may come after the account is opened, after a recomputation, and after
\* the request is compared or saved.
Opened  == {"reserve", "cover", "consume", "turn", "grant", "sum", "store", "check", "save",
            "complete"}
Counted == Opened \cup {"open", "reread", "carry"}
Saved   == {"open", "reserve", "sum", "store", "check", "save"}

\* Statement y may come after statement x in the list, and next after it.
Precedes(x, y) ==
  \/ x = "preflight" /\ y \in Saved \cup {"release", "reverse"}
  \/ x \in {"release", "reverse"} /\ y \in Saved \cup {"cover", "consume"}
  \/ x \in {"sum", "store"} /\ y \in Counted
  \/ x = "open" /\ y \in Opened
  \/ x = "expire" /\ y \in Opened \cup {"reread"}
  \/ x = "reread" /\ y \in Opened
  \/ x \in {"reserve", "consume"} /\ y \in {"sum", "store", "check", "save"}
  \/ x = "cover" /\ y \in {"consume", "sum", "store", "check", "save"}
  \/ x = "turn" /\ y \in {"grant", "sum", "store", "complete"}
  \/ x = "carry" /\ y \in {"sum", "store", "reread", "grant", "complete"}
  \/ x = "grant" /\ y \in {"sum", "store", "complete"}
  \/ x \in {"check", "save"} /\ y \in Saved

Inserts == {"release", "reverse", "expire", "reserve", "consume", "carry", "grant"}
Follows(x, y) ==
  \/ x = "preflight" /\ y \in {"release", "reverse", "check"}
  \/ x \in Inserts /\ y = "sum"
  \/ x = "sum" /\ y = "store"
  \/ x = "store" /\ y \in {"check", "open", "reserve", "cover", "turn", "grant", "complete",
                            "carry", "reread"}
  \/ x = "open" /\ y \in {"reserve", "cover", "turn", "grant", "complete"}
  \/ x = "reread" /\ y = "store"
  \/ x = "cover" /\ y = "consume"
  \/ x = "turn" /\ y \in {"grant", "complete"}
  \/ x = "check" /\ y = "save"
  \/ x = "save" /\ y = "open"

\* The statements that are never the last ones, and the ones that come once.
Inner == Steps \ {"save", "complete"}
Single == Steps \ {"sum", "store", "check", "save"}

Shape(td) ==
  /\ td \in Seq(Steps)
  /\ \A i, j \in 1..Len(td) : i < j => Precedes(td[i], td[j])
  /\ \A i \in 1..Len(td) : i < Len(td) => Follows(td[i], td[i + 1])
  /\ \A i \in 1..Len(td) : td[i] \in Inner => i < Len(td)

-----------------------------------------------------------------------------
(* PROOFS: lists of statements *)

\* The statements of a list are its elements, the first among them.
LEMMA RangeSeq ==
  ASSUME NEW td \in Seq(Steps)
  PROVE  /\ \A i \in 1..Len(td) : td[i] \in Range(td)
         /\ \A x \in Range(td) : x \in Steps /\ \E i \in 1..Len(td) : td[i] = x
         /\ td # <<>> => Head(td) = td[1] /\ Head(td) \in Range(td) /\ Len(td) \in Nat \ {0}
<1>1. td \in [1..Len(td) -> Steps] /\ Len(td) \in Nat
  BY LenProperties
<1>2. td # <<>> => Len(td) \in Nat \ {0}
  BY EmptySeq
<1> QED BY <1>1, <1>2 DEF Range

\* The rest of a well-formed list is well-formed; its head precedes all of it.
LEMMA TailShape ==
  ASSUME NEW td, Shape(td), td # <<>>
  PROVE  /\ Shape(Tail(td)) /\ Head(td) \in Steps
         /\ Len(Tail(td)) = Len(td) - 1 /\ Len(td) \in Nat \ {0}
         /\ Range(td) = Range(Tail(td)) \cup {Head(td)}
         /\ \A y \in Range(Tail(td)) : Precedes(Head(td), y)
         /\ Head(td) \in Single => Range(Tail(td)) = Range(td) \ {Head(td)}
         /\ Tail(td) # <<>> => Follows(Head(td), Head(Tail(td)))
         /\ Head(td) \in Inner => Tail(td) # <<>>
<1>a. td \in Seq(Steps) BY DEF Shape
<1>1. /\ Tail(td) \in Seq(Steps) /\ Len(td) \in Nat \ {0} /\ Len(Tail(td)) = Len(td) - 1
      /\ \A i \in 1..Len(Tail(td)) : Tail(td)[i] = td[i + 1]
  BY <1>a, HeadTailProperties, EmptySeq
<1>2. Shape(Tail(td))
  BY <1>1 DEF Shape
<1>3. Head(td) = td[1] /\ Head(td) \in Range(td) /\ Head(td) \in Steps BY <1>a, RangeSeq
<1>4. \A x \in Range(Tail(td)) : Precedes(Head(td), x) /\ x \in Range(td)
  <2> SUFFICES ASSUME NEW x \in Range(Tail(td)) PROVE Precedes(Head(td), x) /\ x \in Range(td)
    OBVIOUS
  <2>1. PICK i \in 1..Len(Tail(td)) : Tail(td)[i] = x BY <1>1, RangeSeq
  <2>2. i + 1 \in 1..Len(td) /\ 1 \in 1..Len(td) /\ 1 < i + 1 /\ td[i + 1] = x BY <1>1, <2>1
  <2> QED BY <2>2, <1>3, <1>a, RangeSeq DEF Shape
<1>5. Head(td) \in Single => ~Precedes(Head(td), Head(td))
  BY DEF Precedes, Single, Steps, Opened, Counted, Saved
<1>6. ASSUME NEW x \in Range(td), x # Head(td) PROVE x \in Range(Tail(td))
  <2>1. PICK i \in 1..Len(td) : td[i] = x BY <1>a, RangeSeq
  <2>2. i # 1 BY <2>1, <1>6, <1>3
  <2>3. i - 1 \in 1..Len(Tail(td)) /\ Tail(td)[i - 1] = td[(i - 1) + 1] BY <1>1, <2>1, <2>2
  <2>4. (i - 1) + 1 = i BY <2>1
  <2> QED BY <2>3, <2>4, <2>1, <1>1, RangeSeq
<1>7. Tail(td) # <<>> => Len(Tail(td)) \in Nat \ {0} /\ Head(Tail(td)) = Tail(td)[1]
  BY <1>1, RangeSeq
<1>8. Tail(td) # <<>> => Follows(Head(td), Head(Tail(td)))
  <2> SUFFICES ASSUME Tail(td) # <<>> PROVE Follows(Head(td), Head(Tail(td))) OBVIOUS
  <2>1. 1 < Len(td) /\ Follows(td[1], td[2]) BY <1>7, <1>1 DEF Shape
  <2> QED BY <2>1, <1>3, <1>7, <1>1
<1>9. Head(td) \in Inner => Tail(td) # <<>>
  <2> SUFFICES ASSUME Head(td) \in Inner PROVE Tail(td) # <<>> OBVIOUS
  <2>1. 1 < Len(td) BY <1>3, <1>1 DEF Shape
  <2>2. Len(Tail(td)) # 0 BY <2>1, <1>1
  <2> QED BY <2>2, EmptySeq
<1> QED BY <1>1, <1>2, <1>3, <1>4, <1>5, <1>6, <1>8, <1>9

\* A statement is put in front of a list.
LEMMA FrontShape ==
  ASSUME NEW td, Shape(td), NEW x \in Steps, \A y \in Range(td) : Precedes(x, y),
         td # <<>> => Follows(x, Head(td)), x \in Inner => td # <<>>
  PROVE  /\ Shape(<<x>> \o td) /\ Range(<<x>> \o td) = Range(td) \cup {x}
         /\ <<x>> \o td # <<>> /\ Head(<<x>> \o td) = x
<1>a. td \in Seq(Steps) BY DEF Shape
<1>b. <<x>> \in Seq(Steps) /\ Len(<<x>>) = 1 /\ <<x>>[1] = x OBVIOUS
<1> DEFINE w == <<x>> \o td
<1>1. /\ w \in Seq(Steps) /\ Len(w) = 1 + Len(td) /\ Len(td) \in Nat
      /\ \A i \in 1..(1 + Len(td)) : w[i] = IF i <= 1 THEN x ELSE td[i - 1]
  <2>1. /\ w \in Seq(Steps) /\ Len(w) = Len(<<x>>) + Len(td)
        /\ \A i \in 1..(Len(<<x>>) + Len(td)) :
             w[i] = IF i <= Len(<<x>>) THEN <<x>>[i] ELSE td[i - Len(<<x>>)]
    BY <1>a, <1>b, ConcatProperties, Zenon
  <2>2. Len(td) \in Nat BY <1>a, LenProperties
  <2> QED BY <2>1, <2>2, <1>b
<1> HIDE DEF w
<1>2. \A i \in 1..Len(td) : Precedes(x, td[i]) BY <1>a, RangeSeq
<1>3. ASSUME NEW i \in 1..Len(w), NEW j \in 1..Len(w), i < j PROVE Precedes(w[i], w[j])
  <2>1. j - 1 \in 1..Len(td) /\ w[j] = td[j - 1] BY <1>1, <1>3
  <2>2. CASE i = 1 BY <2>1, <2>2, <1>1, <1>2
  <2>3. CASE i # 1
    <3>1. i - 1 \in 1..Len(td) /\ w[i] = td[i - 1] /\ i - 1 < j - 1 BY <1>1, <1>3, <2>3
    <3> QED BY <3>1, <2>1 DEF Shape
  <2> QED BY <2>2, <2>3
<1>4. ASSUME NEW i \in 1..Len(w), i < Len(w) PROVE Follows(w[i], w[i + 1])
  <2>1. CASE i = 1
    <3>1. Len(td) \in Nat \ {0} BY <2>1, <1>1, <1>4
    <3>2. td # <<>> BY <3>1
    <3>3. Head(td) = td[1] /\ Follows(x, Head(td)) BY <3>2, <1>a, RangeSeq
    <3>4. w[2] = td[1] /\ w[1] = x BY <3>1, <1>1
    <3> QED BY <2>1, <3>3, <3>4
  <2>2. CASE i # 1
    <3>1. i - 1 \in 1..Len(td) /\ w[i] = td[i - 1] /\ i - 1 < Len(td) BY <1>1, <1>4, <2>2
    <3>2. Follows(td[i - 1], td[(i - 1) + 1]) BY <3>1 DEF Shape
    <3>3. i + 1 \in 1..Len(w) /\ w[i + 1] = td[i] /\ (i - 1) + 1 = i BY <3>1, <3>2, <1>1, <2>2
    <3> QED BY <3>1, <3>2, <3>3
  <2> QED BY <2>1, <2>2
<1>8. ASSUME NEW i \in 1..Len(w), w[i] \in Inner PROVE i < Len(w)
  <2>1. CASE i = 1
    <3>1. td # <<>> BY <2>1, <1>1, <1>8
    <3>2. Len(td) \in Nat \ {0} BY <3>1, <1>a, RangeSeq
    <3> QED BY <2>1, <3>2, <1>1
  <2>2. CASE i # 1
    <3>1. i - 1 \in 1..Len(td) /\ w[i] = td[i - 1] BY <1>1, <2>2
    <3>2. i - 1 < Len(td) BY <3>1, <1>8 DEF Shape
    <3> QED BY <3>1, <3>2, <1>1
  <2> QED BY <2>1, <2>2
<1>5. w # <<>> /\ Head(w) = x
  <2>1. w # <<>> BY <1>1
  <2> QED BY <2>1, <1>1, RangeSeq
<1>6. Range(w) = Range(td) \cup {x}
  <2>1. ASSUME NEW y \in Range(w) PROVE y \in Range(td) \cup {x}
    <3>1. PICK i \in 1..Len(w) : w[i] = y BY <1>1, RangeSeq
    <3>2. CASE i = 1 BY <3>1, <3>2, <1>1
    <3>3. CASE i # 1
      <4>1. i - 1 \in 1..Len(td) /\ y = td[i - 1] BY <3>1, <3>3, <1>1
      <4> QED BY <4>1, <1>a, RangeSeq
    <3> QED BY <3>2, <3>3
  <2>2. ASSUME NEW y \in Range(td) PROVE y \in Range(w)
    <3>1. PICK i \in 1..Len(td) : td[i] = y BY <1>a, RangeSeq
    <3>2. i + 1 \in 1..Len(w) /\ w[i + 1] = td[(i + 1) - 1] /\ (i + 1) - 1 = i BY <1>1
    <3> QED BY <3>1, <3>2, <1>1, RangeSeq
  <2>3. x \in Range(w) BY <1>1, <1>5, RangeSeq
  <2> QED BY <2>1, <2>2, <2>3
<1>7. Shape(w) BY <1>1, <1>3, <1>4, <1>8 DEF Shape
<1> QED BY <1>5, <1>6, <1>7 DEF w

\* A list is its head and its tail.
LEMMA Cons ==
  ASSUME NEW a \in Steps, NEW s \in Seq(Steps), NEW t \in Seq(Steps),
         Len(t) = Len(s) + 1, t[1] = a, \A i \in 1..Len(s) : t[i + 1] = s[i]
  PROVE  t = <<a>> \o s
<1> DEFINE f == <<a>>  w == f \o s
<1>1. f \in Seq(Steps) /\ Len(f) = 1 /\ f[1] = a OBVIOUS
<1>2. Len(s) \in Nat BY LenProperties
<1> HIDE DEF f
<1>3. /\ w \in Seq(Steps) /\ Len(w) = 1 + Len(s)
      /\ \A i \in 1..(1 + Len(s)) : w[i] = IF i <= 1 THEN a ELSE s[i - 1]
  <2>1. /\ w \in Seq(Steps) /\ Len(w) = Len(f) + Len(s)
        /\ \A i \in 1..(Len(f) + Len(s)) :
             w[i] = IF i <= Len(f) THEN f[i] ELSE s[i - Len(f)]
    BY <1>1, ConcatProperties, Zenon
  <2> HIDE DEF w
  <2> QED BY <2>1, <1>1, <1>2
<1> HIDE DEF w
<1>4. ASSUME NEW i \in 1..Len(w) PROVE w[i] = t[i]
  <2>1. CASE i = 1 BY <2>1, <1>3, <1>2
  <2>2. CASE i # 1
    <3>1. i - 1 \in 1..Len(s) /\ (i - 1) + 1 = i BY <2>2, <1>3, <1>2
    <3>2. t[(i - 1) + 1] = s[i - 1] BY <3>1
    <3>3. i \in 1..(1 + Len(s)) /\ ~(i <= 1) BY <2>2, <1>3, <1>2
    <3>4. w[i] = s[i - 1] BY <3>3, <1>3
    <3> QED BY <3>1, <3>2, <3>4
  <2> QED BY <2>1, <2>2
<1>5. w = t BY <1>3, <1>4, <1>2, SeqEqual
<1> QED BY <1>5 DEF w, f

\* A list that is appended to moves behind the first statement.
LEMMA SplitFront ==
  ASSUME NEW a \in Steps, NEW s \in Seq(Steps), NEW e \in Seq(Steps)
  PROVE  (<<a>> \o s) \o e = <<a>> \o (s \o e) /\ s \o e \in Seq(Steps)
<1>1. <<a>> \in Seq(Steps) OBVIOUS
<1> QED BY <1>1, ConcatAssociative, ConcatProperties

\* Lists are appended in any order.
LEMMA Regroup ==
  ASSUME NEW a \in Seq(Steps), NEW b \in Seq(Steps), NEW c \in Seq(Steps)
  PROVE  (a \o b) \o c = a \o (b \o c) /\ a \o b \in Seq(Steps) /\ b \o c \in Seq(Steps)
<1>1. (a \o b) \o c = a \o (b \o c) BY ConcatAssociative
<1>2. a \o b \in Seq(Steps) BY ConcatProperties
<1>3. b \o c \in Seq(Steps) BY ConcatProperties
<1> QED BY <1>1, <1>2, <1>3

\* The same for lists that are appended by name.
Cat(s, t) == s \o t

LEMMA CatRules ==
  \A a, b, c \in Seq(Steps) :
    Cat(Cat(a, b), c) = Cat(a, Cat(b, c)) /\ Cat(a, b) \in Seq(Steps)
<1> SUFFICES ASSUME NEW a \in Seq(Steps), NEW b \in Seq(Steps), NEW c \in Seq(Steps)
             PROVE  (a \o b) \o c = a \o (b \o c) /\ a \o b \in Seq(Steps)
  BY DEF Cat
<1> QED BY Regroup

LEMMA CatFour ==
  ASSUME NEW a \in Seq(Steps), NEW b \in Seq(Steps), NEW c \in Seq(Steps), NEW d \in Seq(Steps)
  PROVE  /\ Cat(Cat(Cat(a, b), c), d) = Cat(a, Cat(b, Cat(c, d)))
         /\ Cat(Cat(a, b), c) \in Seq(Steps) /\ Cat(b, Cat(c, d)) \in Seq(Steps)
<1>1. Cat(a, b) \in Seq(Steps) /\ Cat(c, d) \in Seq(Steps) BY CatRules
<1>2. Cat(Cat(Cat(a, b), c), d) = Cat(Cat(a, b), Cat(c, d)) BY <1>1, CatRules
<1>3. Cat(Cat(a, b), Cat(c, d)) = Cat(a, Cat(b, Cat(c, d))) BY <1>1, CatRules
<1>4. Cat(Cat(a, b), c) \in Seq(Steps) /\ Cat(b, Cat(c, d)) \in Seq(Steps) BY <1>1, CatRules
<1> QED BY <1>2, <1>3, <1>4

\* The short lists are lists of statements.
LEMMA Phrases ==
  /\ Recount \in Seq(Steps) /\ Update \in Seq(Steps) /\ <<>> \in Seq(Steps)
  /\ \A x \in Steps : <<x>> \in Seq(Steps)
  /\ Recount = <<"sum">> \o <<"store">> /\ Update = <<"check">> \o <<"save">>
<1>1. {"sum", "store", "check", "save"} \subseteq Steps BY DEF Steps
<1>2. /\ <<"sum", "store">> \in Seq(Steps) /\ <<"check", "save">> \in Seq(Steps)
      /\ \A x \in Steps : <<x>> \in Seq(Steps)
  BY <1>1
<1>3. <<>> \in Seq(Steps) BY EmptySeq
<1>4. <<"sum", "store">> = <<"sum">> \o <<"store">> BY <1>1, <1>2, Cons
<1>5. <<"check", "save">> = <<"check">> \o <<"save">> BY <1>1, <1>2, Cons
<1> QED BY <1>2, <1>3, <1>4, <1>5 DEF Recount, Update

\* The lists with which operations end.
LEMMA ShortLists ==
  /\ Shape(<<>>) /\ Range(<<>>) = {}
  /\ Shape(<<"save">>) /\ Range(<<"save">>) = {"save"} /\ Head(<<"save">>) = "save"
  /\ Shape(<<"complete">>) /\ Range(<<"complete">>) = {"complete"}
  /\ Head(<<"complete">>) = "complete"
<1>1. Shape(<<>>) /\ Range(<<>>) = {}
  BY EmptySeq DEF Shape, Range
<1>2. Shape(<<"save">>) /\ Range(<<"save">>) = {"save"} /\ Head(<<"save">>) = "save"
  BY DEF Shape, Range, Steps, Inner
<1>3. /\ Shape(<<"complete">>) /\ Range(<<"complete">>) = {"complete"}
      /\ Head(<<"complete">>) = "complete"
  BY DEF Shape, Range, Steps, Inner
<1> QED BY <1>1, <1>2, <1>3

\* The request is saved last, or the operation goes on to submit it.
LEMMA UpdateList ==
  ASSUME NEW e, Shape(e), Range(e) \subseteq Saved, e # <<>> => Head(e) = "open"
  PROVE  /\ Shape(Update \o e) /\ Range(Update \o e) = {"check", "save"} \cup Range(e)
         /\ Update \o e # <<>> /\ Head(Update \o e) = "check"
<1> DEFINE u == <<"save">> \o e
<1>1. "save" \in Steps /\ "check" \in Steps BY DEF Steps
<1>2. Shape(u) /\ Range(u) = Range(e) \cup {"save"} /\ u # <<>> /\ Head(u) = "save"
  <2>1. \A y \in Range(e) : Precedes("save", y) BY DEF Precedes
  <2> QED BY <2>1, <1>1, FrontShape DEF Follows, Inner
<1>3. Update \o e = <<"check">> \o u
  <2>1. e \in Seq(Steps) BY DEF Shape
  <2> QED BY <2>1, <1>1, Phrases, SplitFront, SMTT(30)
<1> HIDE DEF u
<1>4. \A y \in Range(u) : Precedes("check", y) BY <1>2 DEF Precedes, Saved
<1>5. /\ Shape(<<"check">> \o u) /\ Range(<<"check">> \o u) = Range(u) \cup {"check"}
      /\ <<"check">> \o u # <<>> /\ Head(<<"check">> \o u) = "check"
  BY <1>1, <1>2, <1>4, FrontShape DEF Follows, Inner
<1> QED BY <1>2, <1>3, <1>5

\* The recomputation of the account comes before other statements.
LEMMA RecountList ==
  ASSUME NEW e, Shape(e), Range(e) \subseteq Counted, e # <<>>, Follows("store", Head(e))
  PROVE  /\ Shape(Recount \o e) /\ Range(Recount \o e) = {"sum", "store"} \cup Range(e)
         /\ Recount \o e # <<>> /\ Head(Recount \o e) = "sum"
<1> DEFINE u == <<"store">> \o e
<1>1. "sum" \in Steps /\ "store" \in Steps BY DEF Steps
<1>2. Shape(u) /\ Range(u) = Range(e) \cup {"store"} /\ u # <<>> /\ Head(u) = "store"
  <2>1. \A y \in Range(e) : Precedes("store", y) BY DEF Precedes
  <2> QED BY <2>1, <1>1, FrontShape
<1>3. Recount \o e = <<"sum">> \o u
  <2>1. e \in Seq(Steps) BY DEF Shape
  <2> QED BY <2>1, <1>1, Phrases, SplitFront, SMTT(30)
<1> HIDE DEF u
<1>4. \A y \in Range(u) : Precedes("sum", y) BY <1>2 DEF Precedes, Counted, Opened
<1>5. /\ Shape(<<"sum">> \o u) /\ Range(<<"sum">> \o u) = Range(u) \cup {"sum"}
      /\ <<"sum">> \o u # <<>> /\ Head(<<"sum">> \o u) = "sum"
  BY <1>1, <1>2, <1>4, FrontShape DEF Follows
<1> QED BY <1>2, <1>3, <1>5

\* An entry is inserted, and the account is recomputed.
LEMMA InsertList ==
  ASSUME NEW e, Shape(e), Range(e) \subseteq Counted, e # <<>>, Follows("store", Head(e)),
         NEW x \in Inserts, \A y \in Range(e) \cup {"sum", "store"} : Precedes(x, y)
  PROVE  LET w == (<<x>> \o Recount) \o e
         IN  /\ Shape(w) /\ Range(w) = {x, "sum", "store"} \cup Range(e)
             /\ w # <<>> /\ Head(w) = x
             /\ <<x>> \o Recount \in Seq(Steps)
<1> DEFINE u == Recount \o e
<1>1. x \in Steps BY DEF Inserts, Steps
<1>2. Shape(u) /\ Range(u) = {"sum", "store"} \cup Range(e) /\ u # <<>> /\ Head(u) = "sum"
  BY RecountList
<1>3. (<<x>> \o Recount) \o e = <<x>> \o u /\ <<x>> \o Recount \in Seq(Steps)
  <2>1. e \in Seq(Steps) BY DEF Shape
  <2>2. Recount \in Seq(Steps) /\ <<x>> \in Seq(Steps) BY <1>1, Phrases
  <2> QED BY <2>1, <2>2, Regroup, SMTT(30)
<1> HIDE DEF u
<1>4. /\ Shape(<<x>> \o u) /\ Range(<<x>> \o u) = Range(u) \cup {x}
      /\ <<x>> \o u # <<>> /\ Head(<<x>> \o u) = x
  BY <1>1, <1>2, FrontShape DEF Follows
<1> QED BY <1>2, <1>3, <1>4

\* An update alone.
LEMMA UpdateOnly ==
  Shape(Update) /\ Range(Update) = {"check", "save"} /\ Update # <<>> /\ Head(Update) = "check"
<1>1. Update \o <<>> = Update BY Phrases, ConcatEmptySeq
<1>2. /\ Shape(Update \o <<>>) /\ Range(Update \o <<>>) = {"check", "save"}
      /\ Update \o <<>> # <<>> /\ Head(Update \o <<>>) = "check"
  BY ShortLists, UpdateList
<1> QED BY <1>1, <1>2

\* The statements of submitLeaveRequest.
LEMMA SubmitList ==
  /\ Shape(Submitting) /\ Submitting # <<>> /\ Head(Submitting) = "open"
  /\ Range(Submitting) = {"open", "reserve", "sum", "store", "check", "save"}
<1> DEFINE e == Update  u == Recount \o e  w == <<"reserve">> \o u
<1>0. "open" \in Steps /\ "reserve" \in Steps BY DEF Steps
<1>1. Shape(e) /\ Range(e) = {"check", "save"} /\ e # <<>> /\ Head(e) = "check" BY UpdateOnly
<1> HIDE DEF e
<1>2. Shape(u) /\ Range(u) = {"sum", "store"} \cup Range(e) /\ u # <<>> /\ Head(u) = "sum"
  BY <1>1, RecountList DEF Counted, Opened, Follows
<1> HIDE DEF u
<1>3. Shape(w) /\ Range(w) = Range(u) \cup {"reserve"} /\ w # <<>> /\ Head(w) = "reserve"
  <2>1. \A y \in Range(u) : Precedes("reserve", y) BY <1>1, <1>2 DEF Precedes
  <2> QED BY <2>1, <1>0, <1>2, FrontShape DEF Follows, Inserts
<1> HIDE DEF w
<1>4. /\ Shape(<<"open">> \o w) /\ Range(<<"open">> \o w) = Range(w) \cup {"open"}
      /\ <<"open">> \o w # <<>> /\ Head(<<"open">> \o w) = "open"
  <2>1. \A y \in Range(w) : Precedes("open", y) BY <1>1, <1>2, <1>3 DEF Precedes, Opened
  <2> QED BY <2>1, <1>0, <1>3, FrontShape DEF Follows
<1>5. Submitting = <<"open">> \o w
  <2> DEFINE r == Recount  o == <<"open", "reserve">>  s == <<"reserve">>
  <2>1. r \in Seq(Steps) /\ e \in Seq(Steps) BY Phrases DEF e
  <2>2. o \in Seq(Steps) /\ s \in Seq(Steps) BY <1>0
  <2>3. o = <<"open">> \o s BY <1>0, <2>2, Cons
  <2> DEFINE p == <<"open">>
  <2>4. p \in Seq(Steps) /\ o = Cat(p, s) BY <1>0, <2>3 DEF Cat
  <2>5. Submitting = Cat(Cat(o, r), e) BY DEF Submitting, Cat, e
  <2>6. Cat(p, Cat(s, Cat(r, e))) = <<"open">> \o w BY DEF Cat, w, u
  <2> HIDE DEF r, o, s, p
  <2>7. Cat(Cat(o, r), e) = Cat(p, Cat(s, Cat(r, e))) BY <2>1, <2>2, <2>4, CatFour
  <2> QED BY <2>5, <2>6, <2>7
<1> QED BY <1>1, <1>2, <1>3, <1>4, <1>5

\* What releaseReservedBalance and reverseConsumedBalance put in front.
LEMMA GiveBackList ==
  ASSUME NEW e, Shape(e), Range(e) \subseteq Saved \cup {"cover", "consume"},
         e # <<>>, Head(e) \in {"check", "open"}, NEW x \in {"release", "reverse"},
         NEW b, b = <<>> \/ b = <<x>> \o Recount
  PROVE  /\ Shape(b \o e) /\ b \o e # <<>> /\ b \in Seq(Steps) /\ Head(b \o e) \in {Head(e), x}
         /\ b = <<>> => Range(b \o e) = Range(e)
         /\ b # <<>> => Range(b \o e) = {x, "sum", "store"} \cup Range(e)
         /\ b = <<x>> \o Recount => Range(b \o e) = {x, "sum", "store"} \cup Range(e)
<1>1. CASE b = <<>>
  <2>1. b \in Seq(Steps) /\ e \in Seq(Steps) BY <1>1, Phrases DEF Shape
  <2>2. b \o e = e BY <1>1, <2>1, ConcatEmptySeq
  <2>3. <<x>> \o Recount # <<>>
    <3>1. x \in Steps BY DEF Steps
    <3>2. <<x>> \in Seq(Steps) /\ Recount \in Seq(Steps) BY <3>1, Phrases
    <3>3. Len(<<x>> \o Recount) = Len(<<x>>) + Len(Recount) /\ Len(<<x>>) = 1 /\ Len(Recount) = 2
      <4>1. Len(<<x>> \o Recount) = Len(<<x>>) + Len(Recount) BY <3>2, ConcatProperties, Zenon
      <4> QED BY <4>1 DEF Recount
    <3>4. Len(<<x>> \o Recount) # 0 BY <3>3
    <3> QED BY <3>4, Phrases, EmptySeq
  <2> QED BY <1>1, <2>1, <2>2, <2>3
<1>2. CASE b = <<x>> \o Recount
  <2>1. Follows("store", Head(e)) /\ x \in Inserts BY DEF Follows, Inserts
  <2>2. \A y \in Range(e) \cup {"sum", "store"} : Precedes(x, y) BY DEF Precedes, Saved
  <2>3. Range(e) \subseteq Counted BY DEF Saved, Counted, Opened
  <2> QED BY <1>2, <2>1, <2>2, <2>3, InsertList
<1> QED BY <1>1, <1>2

\* The statements of an amendment, a cancellation and a rejection.
LEMMA CloseList ==
  ASSUME NEW x \in {"release", "reverse"}, NEW b, b = <<>> \/ b = <<x>> \o Recount
  PROVE  /\ Shape(b \o Update) /\ b \o Update # <<>>
         /\ Head(b \o Update) \in {"check", x}
         /\ b = <<>> => Range(b \o Update) = {"check", "save"}
         /\ b = <<x>> \o Recount => Range(b \o Update) = {x, "sum", "store", "check", "save"}
<1> DEFINE e == Update
<1>1. Shape(e) /\ Range(e) = {"check", "save"} /\ e # <<>> /\ Head(e) = "check"
  BY UpdateOnly
<1> HIDE DEF e
<1>2. Range(e) \subseteq Saved \cup {"cover", "consume"} BY <1>1 DEF Saved
<1>3. /\ Shape(b \o e) /\ b \o e # <<>> /\ Head(b \o e) \in {Head(e), x}
      /\ b = <<>> => Range(b \o e) = Range(e)
      /\ b = <<x>> \o Recount => Range(b \o e) = {x, "sum", "store"} \cup Range(e)
  BY <1>1, <1>2, GiveBackList
<1> HIDE DEF Recount
<1>4. Head(b \o e) \in {"check", x} BY <1>1, <1>3
<1>5. b = <<x>> \o Recount => Range(b \o e) = {x, "sum", "store", "check", "save"}
  BY <1>1, <1>3
<1> QED BY <1>1, <1>3, <1>4, <1>5 DEF e

\* The statements of an amendment: what is held is given back, the request is
\* saved and then submitted again.
LEMMA AmendList ==
  ASSUME NEW x \in {"release", "reverse"}, NEW b, b = <<>> \/ b = <<x>> \o Recount
  PROVE  LET w == ((<<"preflight">> \o b) \o Update) \o Submitting
         IN  /\ Shape(w) /\ w # <<>> /\ Head(w) = "preflight"
             /\ b = <<>> => Range(w) = {"preflight"} \cup Saved
             /\ b = <<x>> \o Recount => Range(w) = {"preflight", x} \cup Saved
<1> DEFINE s == Submitting  u == Update \o s  c == b \o u
<1>1. Shape(s) /\ s # <<>> /\ Head(s) = "open" /\ Range(s) = Saved BY SubmitList DEF Saved
<1> HIDE DEF s
<1>2. Shape(u) /\ Range(u) = Saved /\ u # <<>> /\ Head(u) = "check"
  BY <1>1, UpdateList DEF Saved
<1> HIDE DEF u
<1>3. /\ Shape(c) /\ c # <<>> /\ b \in Seq(Steps) /\ Head(c) \in {"check", x}
      /\ b = <<>> => Range(c) = Saved
      /\ b = <<x>> \o Recount => Range(c) = {x} \cup Saved
  BY <1>2, GiveBackList DEF Saved
<1> HIDE DEF c
<1>4. /\ Shape(<<"preflight">> \o c) /\ Range(<<"preflight">> \o c) = Range(c) \cup {"preflight"}
      /\ <<"preflight">> \o c # <<>> /\ Head(<<"preflight">> \o c) = "preflight"
  <2>1. \A y \in Range(c) : Precedes("preflight", y) BY <1>3 DEF Precedes
  <2>2. "preflight" \in Steps BY DEF Steps
  <2> QED BY <2>1, <2>2, <1>3, FrontShape DEF Follows
<1>5. ((<<"preflight">> \o b) \o Update) \o Submitting = <<"preflight">> \o c
  <2> DEFINE p == <<"preflight">>  d == Update
  <2>1. p \in Seq(Steps) /\ d \in Seq(Steps) /\ s \in Seq(Steps) /\ b \in Seq(Steps)
    <3>1. "preflight" \in Steps BY DEF Steps
    <3> QED BY <3>1, Phrases, <1>1, <1>3 DEF Shape
  <2> HIDE DEF p, d
  <2>2. Cat(Cat(Cat(p, b), d), s) = Cat(p, Cat(b, Cat(d, s))) BY <2>1, CatFour
  <2>3. ((p \o b) \o d) \o s = p \o (b \o (d \o s)) BY <2>2 DEF Cat
  <2> QED BY <2>3 DEF p, d, s, u, c
<1> QED BY <1>3, <1>4, <1>5

\* The statements of a final approval.
LEMMA ApproveList ==
  ASSUME NEW b, b = <<>> \/ b = <<"release">> \o Recount
  PROVE  LET w == ((b \o <<"open", "cover", "consume">>) \o Recount) \o Update
         IN  /\ Shape(w) /\ w # <<>> /\ Head(w) \in {"open", "release"}
             /\ b = <<>> =>
                  Range(w) = {"open", "cover", "consume", "sum", "store", "check", "save"}
             /\ b = <<"release">> \o Recount =>
                  Range(w) = {"release", "open", "cover", "consume", "sum", "store", "check",
                              "save"}
<1> DEFINE e == Update  r == Recount  p == <<"consume">> \o r  u == p \o e
           y == <<"cover">> \o u  z == <<"open">> \o y  t == <<"open", "cover", "consume">>
<1>0. {"open", "cover", "consume", "release"} \subseteq Steps BY DEF Steps
<1>1. Shape(e) /\ Range(e) = {"check", "save"} /\ e # <<>> /\ Head(e) = "check" /\ e \in Seq(Steps)
  BY UpdateOnly, Phrases
<1> HIDE DEF e
<1>2. Shape(u) /\ Range(u) = {"consume", "sum", "store"} \cup Range(e) /\ u # <<>>
      /\ Head(u) = "consume" /\ p \in Seq(Steps)
  <2>1. "consume" \in Inserts /\ \A q \in Range(e) \cup {"sum", "store"} : Precedes("consume", q)
    BY <1>1 DEF Inserts, Precedes
  <2>2. Range(e) \subseteq Counted /\ Follows("store", Head(e))
    BY <1>1 DEF Counted, Opened, Follows
  <2> QED BY <2>1, <2>2, <1>1, InsertList
<1>a. r \in Seq(Steps) BY Phrases
<1>b. r = Recount OBVIOUS
<1>c. u = p \o e OBVIOUS
<1> HIDE DEF u
<1>3. Shape(y) /\ Range(y) = Range(u) \cup {"cover"} /\ y # <<>> /\ Head(y) = "cover"
  <2>1. \A q \in Range(u) : Precedes("cover", q) BY <1>1, <1>2 DEF Precedes
  <2> QED BY <2>1, <1>0, <1>2, FrontShape DEF Follows
<1>d. y = <<"cover">> \o u OBVIOUS
<1> HIDE DEF y
<1>4. Shape(z) /\ Range(z) = Range(y) \cup {"open"} /\ z # <<>> /\ Head(z) = "open"
  <2>1. \A q \in Range(y) : Precedes("open", q) BY <1>1, <1>2, <1>3 DEF Precedes, Opened
  <2> QED BY <2>1, <1>0, <1>3, FrontShape DEF Follows
<1>e. z = <<"open">> \o y OBVIOUS
<1> HIDE DEF z
<1>5. /\ Shape(b \o z) /\ b \o z # <<>> /\ b \in Seq(Steps)
      /\ Head(b \o z) \in {Head(z), "release"}
      /\ b = <<>> => Range(b \o z) = Range(z)
      /\ b = <<"release">> \o Recount => Range(b \o z) = {"release", "sum", "store"} \cup Range(z)
  <2>1. Range(z) \subseteq Saved \cup {"cover", "consume"}
    BY <1>1, <1>2, <1>3, <1>4 DEF Saved
  <2> QED BY <2>1, <1>4, GiveBackList
<1> HIDE DEF r
<1>6. z = t \o (r \o e) /\ t \in Seq(Steps) /\ r \o e \in Seq(Steps)
  <2> DEFINE c == <<"cover", "consume">>  k == <<"consume">>
  <2>1. c \in Seq(Steps) /\ k \in Seq(Steps) /\ t \in Seq(Steps) BY <1>0
  <2>2. c = <<"cover">> \o k BY <1>0, <2>1, Cons
  <2>3. t = <<"open">> \o c BY <1>0, <2>1, Cons
  <2> DEFINE v == <<"cover">>  o == <<"open">>
  <2>4. v \in Seq(Steps) /\ o \in Seq(Steps) /\ c = Cat(v, k) /\ t = Cat(o, c)
    BY <1>0, <2>2, <2>3 DEF Cat
  <2>5. z = Cat(o, Cat(v, u)) BY <1>d, <1>e DEF Cat
  <2>6. u = Cat(Cat(k, r), e) BY <1>c DEF Cat
  <2> HIDE DEF c, t, k, v, o
  <2>7. Cat(k, r) \in Seq(Steps) /\ Cat(r, e) \in Seq(Steps) BY <2>1, <1>a, <1>1, CatRules
  <2>8. u = Cat(k, Cat(r, e)) BY <2>1, <2>6, <1>a, <1>1, CatRules
  <2>9. Cat(t, Cat(r, e)) = Cat(o, Cat(v, Cat(k, Cat(r, e))))
    <3>1. t = Cat(o, c) /\ c = Cat(v, k) /\ c \in Seq(Steps) BY <2>1, <2>4
    <3>2. Cat(t, Cat(r, e)) = Cat(o, Cat(c, Cat(r, e))) BY <3>1, <2>4, <2>7, CatRules
    <3>3. Cat(c, Cat(r, e)) = Cat(v, Cat(k, Cat(r, e))) BY <3>1, <2>1, <2>4, <2>7, CatRules
    <3> QED BY <3>2, <3>3
  <2>10. z = Cat(t, Cat(r, e)) BY <2>5, <2>8, <2>9
  <2> QED BY <2>1, <2>7, <2>10 DEF Cat
<1> HIDE DEF t
<1>7. ((b \o t) \o r) \o e = b \o z
  <2>1. b \in Seq(Steps) /\ t \in Seq(Steps) BY <1>5, <1>6
  <2>2. Cat(Cat(Cat(b, t), r), e) = Cat(b, Cat(t, Cat(r, e))) BY <2>1, <1>a, <1>1, CatFour
  <2>3. ((b \o t) \o r) \o e = b \o (t \o (r \o e)) BY <2>2 DEF Cat
  <2> QED BY <2>3, <1>6
<1>8. /\ Shape(((b \o t) \o r) \o e) /\ ((b \o t) \o r) \o e # <<>>
      /\ Head(((b \o t) \o r) \o e) \in {"open", "release"}
      /\ b = <<>> => Range(((b \o t) \o r) \o e) = {"open", "cover", "consume", "sum", "store",
                                                   "check", "save"}
      /\ b = <<"release">> \o Recount =>
           Range(((b \o t) \o r) \o e) = {"release", "open", "cover", "consume", "sum", "store",
                                          "check", "save"}
  <2>1. Range(z) = {"open", "cover", "consume", "sum", "store", "check", "save"}
    BY <1>1, <1>2, <1>3, <1>4
  <2> QED BY <2>1, <1>4, <1>5, <1>7
<1> QED BY <1>8 DEF t, r, e

\* The account is read again and saved.
LEMMA RereadList ==
  ASSUME NEW e, Shape(e), Range(e) \subseteq Opened, e # <<>>, Follows("store", Head(e))
  PROVE  LET w == <<"reread", "store">> \o e
         IN  /\ Shape(w) /\ Range(w) = {"reread", "store"} \cup Range(e) /\ w # <<>>
             /\ Head(w) = "reread" /\ <<"reread", "store">> \in Seq(Steps) /\ e \in Seq(Steps)
<1> DEFINE u == <<"store">> \o e  w == <<"reread">> \o u
<1>0. "reread" \in Steps /\ "store" \in Steps /\ e \in Seq(Steps) BY DEF Steps, Shape
<1>1. Shape(u) /\ Range(u) = {"store"} \cup Range(e) /\ u # <<>> /\ Head(u) = "store"
  <2>1. \A q \in Range(e) : Precedes("store", q) BY DEF Precedes, Counted
  <2> QED BY <2>1, <1>0, FrontShape
<1>a. u = <<"store">> \o e OBVIOUS
<1> HIDE DEF u
<1>2. Shape(w) /\ Range(w) = {"reread"} \cup Range(u) /\ w # <<>> /\ Head(w) = "reread"
  <2>1. \A q \in Range(u) : Precedes("reread", q) BY <1>1 DEF Precedes, Opened
  <2> QED BY <2>1, <1>0, <1>1, FrontShape DEF Follows
<1>3. <<"reread", "store">> \o e = w /\ <<"reread", "store">> \in Seq(Steps)
  <2> DEFINE p == <<"reread", "store">>  s == <<"store">>
  <2>1. p \in Seq(Steps) /\ s \in Seq(Steps) BY <1>0
  <2>2. p = <<"reread">> \o s BY <1>0, <2>1, Cons
  <2> HIDE DEF p
  <2>3. p \o e = <<"reread">> \o (s \o e) BY <1>0, <2>1, <2>2, SplitFront, SMTT(30)
  <2> QED BY <2>1, <2>3, <1>a DEF p
<1> QED BY <1>0, <1>1, <1>2, <1>3

\* What reading the account puts in front: nothing, the account without its
\* expiry date, or the expiry of what was carried forward.
LEMMA OpenList ==
  ASSUME NEW e, Shape(e), Range(e) \subseteq Opened, e # <<>>, Follows("open", Head(e)),
         NEW b, b \in {<<>>, <<"store">>, (<<"expire">> \o Recount) \o <<"reread", "store">>}
  PROVE  /\ Shape(b \o e) /\ b \o e # <<>>
         /\ Head(b \o e) \in {Head(e), "store", "expire"}
         /\ b = <<>> => b \o e = e
         /\ b = <<"store">> => Head(b \o e) = "store" /\ Range(b \o e) = {"store"} \cup Range(e)
         /\ b = (<<"expire">> \o Recount) \o <<"reread", "store">> =>
              /\ Head(b \o e) = "expire"
              /\ Range(b \o e) = {"expire", "sum", "store", "reread"} \cup Range(e)
<1>0. e \in Seq(Steps) /\ "store" \in Steps /\ "expire" \in Steps BY DEF Shape, Steps
<1>1. Follows("store", Head(e)) BY DEF Follows, Inserts
<1>2. <<>> \o e = e BY <1>0, ConcatEmptySeq
<1>3. /\ Shape(<<"store">> \o e) /\ <<"store">> \o e # <<>> /\ Head(<<"store">> \o e) = "store"
      /\ Range(<<"store">> \o e) = {"store"} \cup Range(e)
  <2>1. \A q \in Range(e) : Precedes("store", q) BY DEF Precedes, Counted
  <2> QED BY <2>1, <1>0, <1>1, FrontShape
<1>4. LET w == ((<<"expire">> \o Recount) \o <<"reread", "store">>) \o e
      IN  /\ Shape(w) /\ w # <<>> /\ Head(w) = "expire"
          /\ Range(w) = {"expire", "sum", "store", "reread"} \cup Range(e)
  <2> DEFINE p == <<"reread", "store">>  u == p \o e  x == <<"expire">> \o Recount
  <2>1. Shape(u) /\ Range(u) = {"reread", "store"} \cup Range(e) /\ u # <<>>
        /\ Head(u) = "reread" /\ p \in Seq(Steps)
    BY <1>1, RereadList
  <2> HIDE DEF p
  <2>a. u = p \o e OBVIOUS
  <2> HIDE DEF u
  <2>2. /\ Shape(x \o u) /\ Range(x \o u) = {"expire", "sum", "store"} \cup Range(u)
        /\ x \o u # <<>> /\ Head(x \o u) = "expire" /\ x \in Seq(Steps)
    <3>1. Range(u) \subseteq Counted /\ Follows("store", Head(u))
      BY <2>1 DEF Counted, Opened, Follows
    <3>2. "expire" \in Inserts /\ \A q \in Range(u) \cup {"sum", "store"} : Precedes("expire", q)
      BY <2>1 DEF Inserts, Precedes, Opened
    <3> QED BY <3>1, <3>2, <2>1, InsertList
  <2> HIDE DEF x
  <2>b. Cat(Cat(x, p), e) = Cat(x, Cat(p, e)) BY <2>1, <2>2, <1>0, CatRules
  <2>3. (x \o p) \o e = x \o u BY <2>a, <2>b DEF Cat
  <2>4. /\ Shape((x \o p) \o e) /\ (x \o p) \o e # <<>> /\ Head((x \o p) \o e) = "expire"
        /\ Range((x \o p) \o e) = {"expire", "sum", "store", "reread"} \cup Range(e)
    BY <2>1, <2>2, <2>3
  <2> QED BY <2>4 DEF x, p
<1>5. <<"store">> # <<>> OBVIOUS
<1> DEFINE k == (<<"expire">> \o Recount) \o <<"reread", "store">>
<1>6. k # <<>> /\ k # <<"store">>
  <2> DEFINE x == <<"expire">> \o Recount  p == <<"reread", "store">>
  <2>1. x \in Seq(Steps) /\ p \in Seq(Steps) /\ Len(p) = 2
    <3>1. <<"expire">> \in Seq(Steps) /\ Recount \in Seq(Steps) BY <1>0, Phrases
    <3>2. "reread" \in Steps BY DEF Steps
    <3> QED BY <3>1, <3>2, <1>0, Regroup, SMTT(30)
  <2> HIDE DEF x, p
  <2>2. Len(x \o p) = Len(x) + Len(p) /\ Len(x) \in Nat BY <2>1, ConcatProperties, LenProperties
  <2>3. Len(x \o p) # 0 /\ Len(x \o p) # 1 BY <2>1, <2>2
  <2>4. Len(<<>>) = 0 /\ Len(<<"store">>) = 1 OBVIOUS
  <2>5. x \o p # <<>> /\ x \o p # <<"store">> BY <2>3, <2>4
  <2> QED BY <2>5 DEF x, p
<1>7. /\ Shape(k \o e) /\ k \o e # <<>> /\ Head(k \o e) = "expire"
      /\ Range(k \o e) = {"expire", "sum", "store", "reread"} \cup Range(e)
  BY <1>4
<1>8. b = k \/ b = <<>> \/ b = <<"store">> OBVIOUS
<1> HIDE DEF k
<1>9. /\ Shape(b \o e) /\ b \o e # <<>>
      /\ Head(b \o e) \in {Head(e), "store", "expire"}
      /\ b = <<>> => b \o e = e
      /\ b = <<"store">> => Head(b \o e) = "store" /\ Range(b \o e) = {"store"} \cup Range(e)
      /\ b = k => /\ Head(b \o e) = "expire"
                  /\ Range(b \o e) = {"expire", "sum", "store", "reread"} \cup Range(e)
  BY <1>2, <1>3, <1>5, <1>6, <1>7, <1>8
<1> QED BY <1>9 DEF k

\* What the turn of the year puts in front, when something is left.
LEMMA TurnList ==
  ASSUME NEW e, Shape(e), e # <<>>, Follows("turn", Head(e)),
         \A y \in Range(e) : Precedes("turn", y),
         NEW b, b = <<>> \/ b = <<"carry">> \o Recount
  PROVE  LET w == ((Recount \o b) \o <<"reread", "store">>) \o e
         IN  /\ Shape(w) /\ w # <<>> /\ Head(w) = "sum"
             /\ Range(w) \subseteq {"carry", "sum", "store", "reread"} \cup Range(e)
<1>0. Range(e) \subseteq Opened /\ Follows("store", Head(e)) /\ e \in Seq(Steps)
  <2>1. Follows("store", Head(e)) BY DEF Follows, Inserts
  <2>2. \A y \in Range(e) : y \in Opened BY DEF Precedes, Opened, Saved
  <2> QED BY <2>1, <2>2 DEF Shape
<1> DEFINE p == <<"reread", "store">>  u == p \o e  d == b \o u  r == Recount
<1>1. Shape(u) /\ Range(u) = {"reread", "store"} \cup Range(e) /\ u # <<>>
      /\ Head(u) = "reread" /\ p \in Seq(Steps)
  BY <1>0, RereadList
<1>a. u = p \o e /\ r = Recount /\ r \in Seq(Steps) BY Phrases
<1> HIDE DEF p, u
<1>2. /\ Shape(d) /\ Range(d) \subseteq {"carry", "sum", "store"} \cup Range(u) /\ d # <<>>
      /\ Head(d) \in {"carry", "reread"} /\ b \in Seq(Steps)
      /\ \A y \in Range(d) : y \in {"carry", "sum", "store", "reread"} \cup Range(e)
  <2>0. u \in Seq(Steps) BY <1>1 DEF Shape
  <2>1. CASE b = <<>>
    <3>1. b \o u = u /\ b \in Seq(Steps) BY <2>0, <2>1, ConcatEmptySeq, Phrases
    <3> QED BY <3>1, <1>1
  <2>2. CASE b = <<"carry">> \o Recount
    <3>1. "carry" \in Inserts /\ Range(u) \subseteq Counted /\ Follows("store", Head(u))
      BY <1>0, <1>1 DEF Inserts, Counted, Opened, Follows
    <3>2. \A y \in Range(e) : y \in {"grant", "sum", "store", "complete"} BY DEF Precedes, Saved
    <3>3. \A q \in Range(u) \cup {"sum", "store"} : Precedes("carry", q)
      BY <1>1, <3>2 DEF Precedes
    <3>4. /\ Shape((<<"carry">> \o Recount) \o u)
          /\ Range((<<"carry">> \o Recount) \o u) = {"carry", "sum", "store"} \cup Range(u)
          /\ (<<"carry">> \o Recount) \o u # <<>> /\ Head((<<"carry">> \o Recount) \o u) = "carry"
          /\ <<"carry">> \o Recount \in Seq(Steps)
      BY <3>1, <3>3, <1>1, InsertList
    <3> HIDE DEF r
    <3> QED BY <3>4, <2>2, <1>1
  <2> QED BY <2>1, <2>2
<1>b. d = b \o u OBVIOUS
<1> HIDE DEF d
<1>3. Shape(r \o d) /\ Range(r \o d) = {"sum", "store"} \cup Range(d) /\ r \o d # <<>>
      /\ Head(r \o d) = "sum"
  <2>1. \A y \in Range(d) : y \in Counted BY <1>0, <1>2 DEF Counted, Opened
  <2>2. Follows("store", Head(d)) BY <1>2 DEF Follows
  <2> QED BY <2>1, <2>2, <1>2, RecountList
<1> HIDE DEF r
<1>4. ((r \o b) \o p) \o e = r \o d
  <2>1. Cat(Cat(Cat(r, b), p), e) = Cat(r, Cat(b, Cat(p, e))) BY <1>0, <1>1, <1>2, <1>a, CatFour
  <2>2. ((r \o b) \o p) \o e = r \o (b \o (p \o e)) BY <2>1 DEF Cat
  <2> QED BY <2>2, <1>a, <1>b
<1>5. Range(((r \o b) \o p) \o e) \subseteq {"carry", "sum", "store", "reread"} \cup Range(e)
  BY <1>2, <1>3, <1>4
<1> QED BY <1>3, <1>4, <1>5 DEF r, p

\* The statements of an accrual run.
LEMMA RunList ==
  ASSUME NEW t, t = <<>> \/ t = <<"turn">>, NEW b, b = <<>> \/ b = <<"grant">> \o Recount
  PROVE  LET w == ((<<"open">> \o t) \o b) \o <<"complete">>
         IN  /\ Shape(w) /\ w # <<>> /\ Head(w) = "open"
             /\ Range(w) \subseteq {"open", "turn", "grant", "sum", "store", "complete"}
<1> DEFINE e == <<"complete">>  u == b \o e  d == t \o u  o == <<"open">>
<1>0. {"open", "turn", "grant", "complete"} \subseteq Steps BY DEF Steps
<1>1. /\ Shape(e) /\ Range(e) = {"complete"} /\ Head(e) = "complete" /\ e # <<>>
      /\ e \in Seq(Steps)
  BY ShortLists, <1>0
<1> HIDE DEF e
<1>2. /\ Shape(u) /\ Range(u) \subseteq {"grant", "sum", "store", "complete"} /\ u # <<>>
      /\ Head(u) \in {"grant", "complete"} /\ b \in Seq(Steps)
  <2>1. CASE b = <<>>
    <3>1. b \o e = e /\ b \in Seq(Steps) BY <1>1, <2>1, ConcatEmptySeq, Phrases
    <3> QED BY <3>1, <1>1
  <2>2. CASE b = <<"grant">> \o Recount
    <3>1. "grant" \in Inserts /\ Range(e) \subseteq Counted /\ Follows("store", Head(e))
      BY <1>1 DEF Inserts, Counted, Opened, Follows
    <3>2. \A q \in Range(e) \cup {"sum", "store"} : Precedes("grant", q) BY <1>1 DEF Precedes
    <3>4. /\ Shape((<<"grant">> \o Recount) \o e)
          /\ Range((<<"grant">> \o Recount) \o e) = {"grant", "sum", "store"} \cup Range(e)
          /\ (<<"grant">> \o Recount) \o e # <<>> /\ Head((<<"grant">> \o Recount) \o e) = "grant"
          /\ <<"grant">> \o Recount \in Seq(Steps)
      BY <3>1, <3>2, <1>1, InsertList
    <3> HIDE DEF Recount
    <3> QED BY <3>4, <2>2, <1>1
  <2> QED BY <2>1, <2>2
<1>a. u = b \o e OBVIOUS
<1> HIDE DEF u
<1>3. /\ Shape(d) /\ Range(d) \subseteq {"turn", "grant", "sum", "store", "complete"} /\ d # <<>>
      /\ Head(d) \in {"turn", "grant", "complete"} /\ t \in Seq(Steps)
  <2>1. CASE t = <<>>
    <3>0. u \in Seq(Steps) BY <1>2 DEF Shape
    <3>1. t \o u = u /\ t \in Seq(Steps) BY <3>0, <2>1, ConcatEmptySeq, Phrases
    <3> QED BY <3>1, <1>2
  <2>2. CASE t = <<"turn">>
    <3>1. \A q \in Range(u) : Precedes("turn", q) BY <1>2 DEF Precedes
    <3>2. Follows("turn", Head(u)) BY <1>2 DEF Follows
    <3>3. /\ Shape(<<"turn">> \o u) /\ Range(<<"turn">> \o u) = Range(u) \cup {"turn"}
          /\ <<"turn">> \o u # <<>> /\ Head(<<"turn">> \o u) = "turn"
      BY <3>1, <3>2, <1>0, <1>2, FrontShape
    <3>4. t \in Seq(Steps) BY <2>2, <1>0
    <3> QED BY <3>3, <3>4, <2>2, <1>2
  <2> QED BY <2>1, <2>2
<1>b. d = t \o u OBVIOUS
<1> HIDE DEF d
<1>4. /\ Shape(o \o d) /\ Range(o \o d) = Range(d) \cup {"open"}
      /\ o \o d # <<>> /\ Head(o \o d) = "open"
  <2>1. \A q \in Range(d) : Precedes("open", q) BY <1>3 DEF Precedes, Opened
  <2>2. Follows("open", Head(d)) BY <1>3 DEF Follows
  <2> QED BY <2>1, <2>2, <1>0, <1>3, FrontShape
<1>5. o \in Seq(Steps) BY <1>0
<1> HIDE DEF o
<1>6. ((o \o t) \o b) \o e = o \o d
  <2>1. Cat(Cat(Cat(o, t), b), e) = Cat(o, Cat(t, Cat(b, e))) BY <1>1, <1>2, <1>3, <1>5, CatFour
  <2>2. ((o \o t) \o b) \o e = o \o (t \o (b \o e)) BY <2>1 DEF Cat
  <2> QED BY <2>2, <1>a, <1>b
<1>7. Range(((o \o t) \o b) \o e) \subseteq {"open", "turn", "grant", "sum", "store", "complete"}
  BY <1>3, <1>4, <1>6
<1> QED BY <1>4, <1>6, <1>7 DEF o, e

-----------------------------------------------------------------------------
(***************************************************************************)
(* The invariant that holds whatever overlaps and fails.                   *)
(***************************************************************************)

\* What an accrual run does, and nothing else does.
RunSteps == {"open", "expire", "turn", "carry", "grant", "reread", "sum", "store", "complete"}
RunOnly  == {"turn", "carry", "grant", "complete"}

\* The request as a handler will save it, once its statements are executed.
Holds(w, r, td) ==
  /\ w.status = "approved" /\ "consume" \notin Range(td) =>
       Is(w.consumption, "consumption", r, w.days)
  /\ w.status # "approved" => w.consumption = 0
  /\ w.reservation # 0 =>
       w.status = "submitted" /\ Is(w.reservation, "reservation", r, w.days)

\* What a handler still has to do agrees with what it works on: entries that it
\* will give back exist, one that it will make is not there yet.
SaneTask(td, r, v, w, g) ==
  /\ Shape(td)
  /\ r = NoRequest => Range(td) \subseteq RunSteps /\ (td # <<>> => g # {})
  /\ r # NoRequest => Range(td) \cap RunOnly = {} /\ g = {}
  /\ "release" \in Range(td) => v.reservation \in DOMAIN ledger
  /\ "reverse" \in Range(td) => v.consumption \in DOMAIN ledger
  /\ "reserve" \in Range(td) => w.status # "approved" /\ w.reservation = 0
  /\ "consume" \in Range(td) => w.status = "approved"
  /\ r # NoRequest => Holds(w, r, td)
Sane == \A h \in Handlers : SaneTask(todo[h], target[h], old[h], copy[h], run[h])

Core == TypeOK /\ Sane /\ RequestsNameTheirEntries

-----------------------------------------------------------------------------
(* PROOFS: types, and entries that stay *)

\* Nothing that is in the ledger changes.
Keeps == DOMAIN ledger \subseteq DOMAIN ledger' /\ \A i \in DOMAIN ledger : ledger'[i] = ledger[i]

\* The others are not concerned by a step of handler h.
Others(h) ==
  \A k \in Handlers \ {h} :
    /\ todo'[k] = todo[k] /\ target'[k] = target[k] /\ old'[k] = old[k]
    /\ copy'[k] = copy[k] /\ run'[k] = run[k]

\* Sums of entries are integers, and a recomputed account is an account.
LEMMA SumsTyped ==
  ASSUME TypeOK
  PROVE  /\ IsFiniteSet(DOMAIN ledger) /\ Listed \subseteq DOMAIN ledger
         /\ \A types : DaysOf(types) \in Int
         /\ \A date : CarryAt(date) \in Nat
         /\ \A a \in Account : Recompute(a) \in Account
<1>1. DOMAIN ledger = 1..Len(ledger) /\ Len(ledger) \in Nat
      /\ \A i \in DOMAIN ledger : ledger[i] \in Entry
  <2>1. ledger \in Seq(Entry) BY DEF TypeOK
  <2> QED BY <2>1, LenProperties, ElementOfSeq
<1>2. IsFiniteSet(DOMAIN ledger) /\ Listed \subseteq DOMAIN ledger
  <2>1. IsFiniteSet(1..Len(ledger)) BY <1>1, FS_Interval
  <2> QED BY <1>1, <2>1 DEF Listed
<1>3. \A i \in DOMAIN ledger : EntryDays[i] \in Int /\ EntryCarry[i] \in Int
  BY <1>1 DEF EntryDays, EntryCarry, Entry
<1>4. ASSUME NEW S, S \subseteq DOMAIN ledger
      PROVE  SumFunctionOnSet(EntryDays, S) \in Int /\ SumFunctionOnSet(EntryCarry, S) \in Int
  <2>1. IsFiniteSet(S) BY <1>2, <1>4, FS_Subset
  <2>2. \A i \in S : EntryDays[i] \in Int /\ EntryCarry[i] \in Int BY <1>3, <1>4
  <2> QED BY <2>1, <2>2, SumTakeOut
<1>5. ASSUME NEW types PROVE DaysOf(types) \in Int
  <2>1. {i \in Listed : ledger[i].type \in types} \subseteq DOMAIN ledger BY <1>2
  <2> QED BY <2>1, <1>4 DEF DaysOf
<1>6. ASSUME NEW date PROVE CarryAt(date) \in Nat
  <2>1. {i \in Listed : ledger[i].date <= date} \subseteq DOMAIN ledger BY <1>2
  <2>2. SumFunctionOnSet(EntryCarry, {i \in Listed : ledger[i].date <= date}) \in Int
    BY <2>1, <1>4
  <2> QED BY <2>2 DEF CarryAt, Positive
<1>7. ASSUME NEW a \in Account PROVE Recompute(a) \in Account
  <2>1. SumFunctionOnSet(EntryCarry, Listed) \in Int BY <1>2, <1>4
  <2>2. DaysOf(Credits) \in Int /\ DaysOf(Debits) \in Int /\ DaysOf({"reservation"}) \in Int
        /\ DaysOf({"release"}) \in Int
    BY <1>5
  <2>3. PICK c \in Int : c = SumFunctionOnSet(EntryCarry, Listed) BY <2>1
  <2>4. PICK m \in Int : m = DaysOf(Credits) - DaysOf(Debits) BY <2>2
  <2>5. PICK n \in Nat : n = Positive(DaysOf({"reservation"}) - DaysOf({"release"}))
    BY <2>2 DEF Positive
  <2>6. PICK p \in Nat : p = Positive(c) BY DEF Positive
  <2>7. Recompute(a) = [a EXCEPT !.current = m, !.reserved = n, !.carry = p,
                                 !.expiry = IF c <= 0 THEN 0 ELSE @]
    BY <2>3, <2>4, <2>5, <2>6 DEF Recompute
  <2>8. PICK b \in Nat : b = IF c <= 0 THEN 0 ELSE a.expiry BY DEF Account
  <2>9. Recompute(a) = [current |-> m, reserved |-> n, carry |-> p, expiry |-> b,
                        version |-> a.version]
    BY <2>7, <2>8 DEF Account
  <2> QED BY <2>9 DEF Account
<1> QED BY <1>2, <1>5, <1>6, <1>7

\* An entry is appended, and all others stay.
LEMMA EntryAdded ==
  ASSUME TypeOK, NEW e \in Entry, ledger' = Append(ledger, e)
  PROVE  /\ ledger' \in Seq(Entry) /\ Keeps
         /\ Len(ledger) + 1 \in DOMAIN ledger' /\ ledger'[Len(ledger) + 1] = e
         /\ DOMAIN ledger' = DOMAIN ledger \cup {Len(ledger) + 1}
         /\ Len(ledger) + 1 \notin DOMAIN ledger
         /\ Len(ledger) \in Nat /\ DOMAIN ledger = 1..Len(ledger)
<1>1. ledger \in Seq(Entry) BY DEF TypeOK
<1>2. Len(ledger) \in Nat /\ DOMAIN ledger = 1..Len(ledger) BY <1>1, LenProperties
<1>3. /\ ledger' \in Seq(Entry) /\ Len(ledger') = Len(ledger) + 1
      /\ \A i \in 1..Len(ledger) : ledger'[i] = ledger[i]
      /\ ledger'[Len(ledger) + 1] = e
  BY <1>1, AppendProperties
<1>4. DOMAIN ledger' = 1..(Len(ledger) + 1) BY <1>3, LenProperties
<1> QED BY <1>2, <1>3, <1>4 DEF Keeps

\* A ledger that is not changed is kept.
LEMMA KeptSame == ledger' = ledger => Keeps
BY DEF Keeps

\* What an entry says of a request stays true.
LEMMA IsKept ==
  ASSUME Keeps, NEW e, NEW type, NEW r, NEW n, Is(e, type, r, n)
  PROVE  Is(e, type, r, n)'
BY DEF Is, Keeps

\* A step of one handler that keeps its own task sane keeps all of them.
LEMMA SaneStep ==
  ASSUME Sane, Keeps, NEW h \in Handlers, Others(h),
         SaneTask(todo[h], target[h], old[h], copy[h], run[h])'
  PROVE  Sane'
<1> SUFFICES ASSUME NEW k \in Handlers
             PROVE  SaneTask(todo[k], target[k], old[k], copy[k], run[k])'
  BY DEF Sane
<1>1. CASE k = h BY <1>1
<1>2. CASE k # h
  <2>1. SaneTask(todo[k], target[k], old[k], copy[k], run[k]) BY DEF Sane
  <2>2. /\ todo'[k] = todo[k] /\ target'[k] = target[k] /\ old'[k] = old[k]
        /\ copy'[k] = copy[k] /\ run'[k] = run[k]
    BY <1>2 DEF Others
  <2>3. Holds(copy[k], target[k], todo[k]) => Holds(copy[k], target[k], todo[k])'
    BY <2>2 DEF Holds, Is, Keeps
  <2> QED BY <2>1, <2>2, <2>3 DEF SaneTask, Keeps
<1> QED BY <1>1, <1>2

\* Requests that are not written still name their entries.
LEMMA NamesKept ==
  ASSUME RequestsNameTheirEntries, Keeps, request' = request
  PROVE  RequestsNameTheirEntries'
BY DEF RequestsNameTheirEntries, Is, Keeps

-----------------------------------------------------------------------------
(* PROOFS: the invariant, operation by operation *)

\* An operation whose statements agree with what it has read may begin.
LEMMA BeginKeeps ==
  ASSUME Core, NEW h \in Handlers, NEW r \in Requests \cup {NoRequest}, NEW v \in Request,
         NEW w \in Request, NEW g \in SUBSET Runs, NEW td, SaneTask(td, r, v, w, g),
         Begin(h, r, v, w, g, td)
  PROVE  Core'
<1>1. td \in Seq(Steps) BY DEF SaneTask, Shape
<1>2. TypeOK /\ Sane /\ RequestsNameTheirEntries BY DEF Core
<1>3. /\ request' = request /\ ledger' = ledger /\ account' = account /\ completed' = completed
      /\ acct' = acct /\ carried' = carried
  BY DEF Begin
<1>4. Keeps BY <1>3, KeptSame
<1>5. TypeOK'
  <2>1. ops' \in 0..MaxOps BY <1>2, LeaveAssumption DEF Begin, TypeOK
  <2>2. clean' \in BOOLEAN /\ upsets' \in 0..MaxUpsets
    BY <1>2, LeaveAssumption DEF Begin, TypeOK
  <2>3. /\ target' \in [Handlers -> Requests \cup {NoRequest}]
        /\ old' \in [Handlers -> Request] /\ copy' \in [Handlers -> Request]
        /\ run' \in [Handlers -> SUBSET Runs] /\ todo' \in [Handlers -> Seq(Steps)]
    BY <1>1, <1>2 DEF Begin, TypeOK
  <2> QED BY <1>2, <1>3, <2>1, <2>2, <2>3 DEF TypeOK
<1>6. /\ todo'[h] = td /\ target'[h] = r /\ old'[h] = v /\ copy'[h] = w /\ run'[h] = g
      /\ Others(h)
  BY <1>2 DEF Begin, TypeOK, Others
<1>7. SaneTask(todo[h], target[h], old[h], copy[h], run[h])'
  BY <1>3, <1>6 DEF SaneTask, Holds, Is
<1>8. Sane' BY <1>2, <1>4, <1>6, <1>7, SaneStep
<1>9. RequestsNameTheirEntries' BY <1>2, <1>3, <1>4, NamesKept
<1> QED BY <1>5, <1>8, <1>9 DEF Core

\* An idle handler has nothing to do.
LEMMA IdleSane ==
  /\ NoRecord \in Request /\ NoAccount \in Account
  /\ SaneTask(<<>>, NoRequest, NoRecord, NoRecord, {})
<1>1. NoRecord \in Request
  <2>1. {} \in SUBSET Users /\ {} \in SUBSET (Nat \X Users) OBVIOUS
  <2> QED BY <2>1 DEF NoRecord, Request, Statuses
<1>2. NoAccount \in Account BY DEF NoAccount, Account
<1>3. SaneTask(<<>>, NoRequest, NoRecord, NoRecord, {})
  BY ShortLists DEF SaneTask
<1> QED BY <1>1, <1>2, <1>3

\* A handler that is done leaves a sane state, whatever it has written.
LEMMA DoneKeeps ==
  ASSUME TypeOK, Sane, Keeps, NEW h \in Handlers, Done(h)
  PROVE  /\ target' \in [Handlers -> Requests \cup {NoRequest}]
         /\ old' \in [Handlers -> Request] /\ copy' \in [Handlers -> Request]
         /\ acct' \in [Handlers -> Account] /\ carried' \in [Handlers -> Nat]
         /\ run' \in [Handlers -> SUBSET Runs] /\ todo' \in [Handlers -> Seq(Steps)]
         /\ Sane'
<1>1. NoRecord \in Request /\ NoAccount \in Account
      /\ SaneTask(<<>>, NoRequest, NoRecord, NoRecord, {})
  BY IdleSane
<1>2. <<>> \in Seq(Steps) BY Phrases
<1>3. /\ todo'[h] = <<>> /\ target'[h] = NoRequest /\ old'[h] = NoRecord
      /\ copy'[h] = NoRecord /\ run'[h] = {} /\ Others(h)
  BY DEF Done, TypeOK, Others
<1>4. SaneTask(todo[h], target[h], old[h], copy[h], run[h])'
  BY <1>3, ShortLists DEF SaneTask
<1>5. Sane' BY <1>3, <1>4, SaneStep
<1>6. /\ target' \in [Handlers -> Requests \cup {NoRequest}]
      /\ old' \in [Handlers -> Request] /\ copy' \in [Handlers -> Request]
      /\ acct' \in [Handlers -> Account] /\ carried' \in [Handlers -> Nat]
  BY <1>1 DEF Done, TypeOK
<1>7. run' \in [Handlers -> SUBSET Runs] /\ todo' \in [Handlers -> Seq(Steps)]
  BY <1>2 DEF Done, TypeOK
<1> QED BY <1>5, <1>6, <1>7

\* An operation that is refused or fails.
LEMMA StopKeeps ==
  ASSUME Core, NEW h \in Handlers, Refuse(h) \/ Fail(h)
  PROVE  Core'
<1>1. TypeOK /\ Sane /\ RequestsNameTheirEntries BY DEF Core
<1>2. /\ Done(h) /\ request' = request /\ ledger' = ledger /\ account' = account
      /\ completed' = completed
  BY DEF Refuse, Fail
<1>3. Keeps BY <1>2, KeptSame
<1>4. ops' \in 0..MaxOps /\ clean' \in BOOLEAN /\ upsets' \in 0..MaxUpsets
  <2>0. ops \in 0..MaxOps /\ clean \in BOOLEAN /\ upsets \in 0..MaxUpsets BY <1>1 DEF TypeOK
  <2>1. CASE Refuse(h)
    <3>1. ops' = ops /\ clean' = clean /\ upsets' = upsets BY <2>1 DEF Refuse, rest
    <3> QED BY <2>0, <3>1
  <2>2. CASE Fail(h)
    <3>1. MaxUpsets \in Nat BY LeaveAssumption
    <3>2. ops' = ops /\ upsets' = upsets + 1 /\ upsets < MaxUpsets BY <2>2 DEF Fail
    <3>3. clean' \in BOOLEAN BY <2>2 DEF Fail
    <3>4. upsets' \in 0..MaxUpsets BY <2>0, <3>1, <3>2
    <3> QED BY <2>0, <3>2, <3>3, <3>4
  <2> QED BY <2>1, <2>2
<1>5. TypeOK' BY <1>1, <1>2, <1>3, <1>4, DoneKeeps DEF TypeOK
<1>6. Sane' BY <1>1, <1>2, <1>3, DoneKeeps
<1>7. RequestsNameTheirEntries' BY <1>1, <1>2, <1>3, NamesKept
<1> QED BY <1>5, <1>6, <1>7 DEF Core

\* What is known of a handler that executes a statement.
LEMMA AtStep ==
  ASSUME Core, NEW h \in Handlers, NEW s, At(h, s)
  PROVE  /\ SaneTask(todo[h], target[h], old[h], copy[h], run[h])
         /\ todo[h] # <<>> /\ Head(todo[h]) = s /\ s \in Steps /\ s \in Range(todo[h])
         /\ Shape(todo[h]) /\ Shape(Tail(todo[h]))
         /\ Range(todo[h]) = Range(Tail(todo[h])) \cup {s}
         /\ \A y \in Range(Tail(todo[h])) : Precedes(s, y)
         /\ s \in Single => s \notin Range(Tail(todo[h]))
         /\ Tail(todo[h]) # <<>> => Follows(s, Head(Tail(todo[h])))
         /\ s \in Inner => Tail(todo[h]) # <<>>
         /\ s \notin RunSteps => target[h] \in Requests /\ run[h] = {}
         /\ s \in RunOnly => run[h] # {} /\ target[h] = NoRequest
         /\ target[h] \in Requests \cup {NoRequest} /\ old[h] \in Request /\ copy[h] \in Request
         /\ acct[h] \in Account /\ carried[h] \in Nat /\ run[h] \in SUBSET Runs
<1>1. todo[h] # <<>> /\ Head(todo[h]) = s BY DEF At
<1>2. SaneTask(todo[h], target[h], old[h], copy[h], run[h]) BY DEF Core, Sane
<1>3. PICK td : td = todo[h] OBVIOUS
<1>4. Shape(td) BY <1>2, <1>3 DEF SaneTask
<1>5. /\ Shape(Tail(td)) /\ Head(td) \in Steps
      /\ Range(td) = Range(Tail(td)) \cup {Head(td)}
      /\ \A y \in Range(Tail(td)) : Precedes(Head(td), y)
      /\ Head(td) \in Single => Range(Tail(td)) = Range(td) \ {Head(td)}
      /\ Tail(td) # <<>> => Follows(Head(td), Head(Tail(td)))
      /\ Head(td) \in Inner => Tail(td) # <<>>
  BY <1>1, <1>3, <1>4, TailShape
<1>6. /\ target[h] \in Requests \cup {NoRequest} /\ old[h] \in Request /\ copy[h] \in Request
      /\ acct[h] \in Account /\ carried[h] \in Nat /\ run[h] \in SUBSET Runs
  BY DEF Core, TypeOK
<1>7. s \in Range(todo[h]) BY <1>1, <1>3, <1>5
<1>8. s \notin RunSteps => target[h] \in Requests /\ run[h] = {}
  BY <1>2, <1>6, <1>7 DEF SaneTask
<1>9. s \in RunOnly => run[h] # {} /\ target[h] = NoRequest
  BY <1>1, <1>2, <1>7 DEF SaneTask
<1> QED BY <1>1, <1>2, <1>3, <1>4, <1>5, <1>6, <1>7, <1>8, <1>9

\* A handler goes on with the next statement, with the same request.
LEMMA ContinueSane ==
  ASSUME Core, NEW h \in Handlers, NEW s, At(h, s), s # "consume", Keeps, Continue(h),
         target' = target, old' = old, copy' = copy, run' = run
  PROVE  Sane' /\ todo' \in [Handlers -> Seq(Steps)]
<1>1. Sane /\ TypeOK BY DEF Core
<1>2. /\ SaneTask(todo[h], target[h], old[h], copy[h], run[h])
      /\ Shape(Tail(todo[h])) /\ Range(todo[h]) = Range(Tail(todo[h])) \cup {s}
      /\ todo[h] # <<>>
  BY AtStep
<1>3. Tail(todo[h]) \in Seq(Steps) BY <1>2 DEF Shape
<1>4. todo'[h] = Tail(todo[h]) /\ Others(h) /\ todo' \in [Handlers -> Seq(Steps)]
  BY <1>1, <1>3 DEF Continue, TypeOK, Others
<1>5. PICK td : td = todo[h] OBVIOUS
<1>6. PICK tl : tl = Tail(td) OBVIOUS
<1>7. /\ Shape(tl) /\ Range(td) = Range(tl) \cup {s} /\ todo'[h] = tl
      /\ SaneTask(td, target[h], old[h], copy[h], run[h]) /\ td # <<>>
  BY <1>2, <1>4, <1>5, <1>6
<1>8. target[h] # NoRequest => Holds(copy[h], target[h], tl)'
  BY <1>7 DEF SaneTask, Holds, Is, Keeps
<1>9. SaneTask(todo[h], target[h], old[h], copy[h], run[h])'
  BY <1>7, <1>8 DEF SaneTask, Keeps
<1> QED BY <1>1, <1>4, <1>9, SaneStep

\* A statement that writes nothing that is shared.
LEMMA QuietStep ==
  ASSUME Core, NEW h \in Handlers, NEW s, At(h, s), s # "consume", Continue(h),
         UNCHANGED <<request, ledger, account, completed, target, old, copy, run, rest>>,
         acct' \in [Handlers -> Account], carried' \in [Handlers -> Nat]
  PROVE  Core'
<1>1. TypeOK /\ Sane /\ RequestsNameTheirEntries BY DEF Core
<1>2. Keeps BY KeptSame
<1>3. Sane' /\ todo' \in [Handlers -> Seq(Steps)] BY <1>2, ContinueSane
<1>4. TypeOK' BY <1>1, <1>3 DEF TypeOK, rest
<1>5. RequestsNameTheirEntries' BY <1>1, <1>2, NamesKept
<1> QED BY <1>3, <1>4, <1>5 DEF Core

\* The date an operation is effective on is a date.
LEMMA DateTyped ==
  ASSUME Core, NEW h \in Handlers
  PROVE  /\ EffectiveDate(h) \in Nat
         /\ run[h] # {} => /\ (CHOOSE g \in run[h] : TRUE) \in Runs
                           /\ RunDate[CHOOSE g \in run[h] : TRUE] \in Nat
                           /\ RunExpiry[CHOOSE g \in run[h] : TRUE] \in Nat
                           /\ RunMode[CHOOSE g \in run[h] : TRUE] \in Types
<1>1. copy[h].start \in Nat /\ run[h] \in SUBSET Runs BY DEF Core, TypeOK, Request
<1>2. \A g \in Runs : RunDate[g] \in Nat /\ RunExpiry[g] \in Nat /\ RunMode[g] \in Types
  BY LeaveAssumption DEF Types, Credits
<1> QED BY <1>1, <1>2 DEF EffectiveDate

\* Preflight, Check, Cover, Reread, Sum and Store.
LEMMA QuietActions ==
  ASSUME Core, NEW h \in Handlers,
         Preflight(h) \/ Check(h) \/ Cover(h) \/ Reread(h) \/ Sum(h) \/ Store(h)
  PROVE  Core'
<1>1. TypeOK /\ Sane /\ RequestsNameTheirEntries BY DEF Core
<1>2. CASE Preflight(h)
  <2>1. CASE Refuse(h) BY <2>1, StopKeeps
  <2>2. CASE ~Refuse(h)
    <3>1. At(h, "preflight") /\ Continue(h)
          /\ UNCHANGED <<request, ledger, account, completed, target, old, copy, acct, carried,
                         run, rest>>
      BY <1>2, <2>2 DEF Preflight
    <3> QED BY <3>1, <1>1, QuietStep DEF TypeOK
  <2> QED BY <2>1, <2>2
<1>3. CASE Check(h)
  <2>1. CASE Refuse(h) BY <2>1, StopKeeps
  <2>2. CASE ~Refuse(h)
    <3>1. At(h, "check") /\ Continue(h)
          /\ UNCHANGED <<request, ledger, account, completed, target, old, copy, acct, carried,
                         run, rest>>
      BY <1>3, <2>2 DEF Check
    <3> QED BY <3>1, <1>1, QuietStep DEF TypeOK
  <2> QED BY <2>1, <2>2
<1>4. CASE Cover(h)
  <2>1. At(h, "cover") /\ Continue(h) BY <1>4 DEF Cover
  <2>2. PICK c \in Nat : c = CarryAt(copy[h].start) BY <1>1, SumsTyped
  <2>3. copy[h].days \in Nat BY <1>1 DEF TypeOK, Request
  <2>4. Least(c, copy[h].days) \in Nat BY <2>3 DEF Least
  <2>5. carried' \in [Handlers -> Nat] BY <1>1, <1>4, <2>2, <2>4 DEF Cover, TypeOK
  <2>6. UNCHANGED <<request, ledger, account, completed, target, old, copy, run, rest, acct>>
    BY <1>4 DEF Cover
  <2> QED BY <1>1, <2>1, <2>5, <2>6, QuietStep DEF TypeOK
<1>5. CASE Reread(h)
  <2>1. At(h, "reread") /\ Continue(h) BY <1>5 DEF Reread
  <2>2. PICK n \in Nat :
           n = IF run[h] # {} /\ carried[h] > 0
               THEN RunExpiry[CHOOSE x \in run[h] : TRUE] ELSE 0
    BY DateTyped
  <2>3. [account EXCEPT !.expiry = n] \in Account BY <1>1 DEF TypeOK, Account
  <2>4. acct' \in [Handlers -> Account] BY <1>1, <1>5, <2>2, <2>3 DEF Reread, TypeOK
  <2>5. UNCHANGED <<request, ledger, account, completed, target, old, copy, run, rest, carried>>
    BY <1>5 DEF Reread
  <2> QED BY <1>1, <2>1, <2>4, <2>5, QuietStep DEF TypeOK
<1>6. CASE Sum(h)
  <2>1. At(h, "sum") /\ Continue(h) BY <1>6 DEF Sum
  <2>2. Recompute(account) \in Account BY <1>1, SumsTyped DEF TypeOK
  <2>4. acct' \in [Handlers -> Account] BY <1>1, <1>6, <2>2 DEF Sum, TypeOK
  <2>5. UNCHANGED <<request, ledger, account, completed, target, old, copy, run, rest, carried>>
    BY <1>6 DEF Sum
  <2> QED BY <1>1, <2>1, <2>4, <2>5, QuietStep DEF TypeOK
<1>7. CASE Store(h)
  <2>1. At(h, "store") /\ Continue(h) BY <1>7 DEF Store
  <2>2. UNCHANGED <<request, ledger, completed, target, old, copy, run, rest, carried>>
    BY <1>7 DEF Store
  <2>3. PICK a \in Account : a = acct[h] BY <1>1 DEF TypeOK
  <2>4. [a EXCEPT !.version = @ + 1] \in Account BY DEF Account
  <2>5. account' \in Account BY <1>7, <2>3, <2>4 DEF Store
  <2>6. acct' = [acct EXCEPT ![h] = [a EXCEPT !.version = @ + 1]]
    BY <1>1, <1>7, <2>3 DEF Store, TypeOK
  <2>7. acct' \in [Handlers -> Account] BY <1>1, <2>4, <2>6 DEF TypeOK
  <2>8. Keeps BY <2>2, KeptSame
  <2>9. Sane' /\ todo' \in [Handlers -> Seq(Steps)] BY <2>1, <2>2, <2>8, ContinueSane
  <2>10. TypeOK' BY <1>1, <2>2, <2>5, <2>7, <2>9 DEF TypeOK, rest
  <2>11. RequestsNameTheirEntries' BY <1>1, <2>2, <2>8, NamesKept
  <2> QED BY <2>9, <2>10, <2>11 DEF Core
<1> QED BY <1>2, <1>3, <1>4, <1>5, <1>6, <1>7

\* The entry that a statement creates, and that all others are kept.
LEMMA NewEntryKept ==
  ASSUME Core, NEW h \in Handlers, NEW type \in Types, NEW n \in Int, NEW c \in Int,
         NEW d \in Nat, NewEntry(h, type, n, c, d)
  PROVE  /\ ledger' \in Seq(Entry) /\ Keeps
         /\ Len(ledger) + 1 \in DOMAIN ledger'
         /\ DOMAIN ledger' = DOMAIN ledger \cup {Len(ledger) + 1}
         /\ Len(ledger) + 1 \notin DOMAIN ledger
         /\ Len(ledger) \in Nat /\ DOMAIN ledger = 1..Len(ledger)
         /\ ledger'[Len(ledger) + 1] =
              [type |-> type, days |-> n, carry |-> c, date |-> d, request |-> target[h]]
<1>1. TypeOK /\ target[h] \in Requests \cup {NoRequest} BY DEF Core, TypeOK
<1>2. PICK e : e = [type |-> type, days |-> n, carry |-> c, date |-> d, request |-> target[h]]
  OBVIOUS
<1>3. e \in Entry BY <1>1, <1>2 DEF Entry
<1>4. ledger' = Append(ledger, e) BY <1>2 DEF NewEntry
<1> QED BY <1>1, <1>2, <1>3, <1>4, EntryAdded

\* Insert: the entry of a statement.
LEMMA InsertKeeps ==
  ASSUME Core, NEW h \in Handlers, Insert(h)
  PROVE  Core'
<1>1. TypeOK /\ Sane /\ RequestsNameTheirEntries BY DEF Core
<1>2. Continue(h)
      /\ UNCHANGED <<request, account, completed, target, old, copy, acct, carried, run, rest>>
  BY DEF Insert
<1>3. /\ acct[h] \in Account /\ carried[h] \in Nat /\ EffectiveDate(h) \in Nat
      /\ old[h] \in Request /\ copy[h] \in Request
      /\ ledger \in Seq(Entry) /\ \A i \in DOMAIN ledger : ledger[i] \in Entry
  <2>1. ledger \in Seq(Entry) BY <1>1 DEF TypeOK
  <2>2. \A i \in DOMAIN ledger : ledger[i] \in Entry BY <2>1, LenProperties, ElementOfSeq
  <2> QED BY <1>1, <2>1, <2>2, DateTyped DEF TypeOK
<1>4. \E s \in {"expire", "release", "reverse", "carry", "grant"} : At(h, s)
  BY DEF Insert
<1>5. \E type \in Types, n \in Int, c \in Int, d \in Nat : NewEntry(h, type, n, c, d)
  <2>1. CASE At(h, "expire") /\ NewEntry(h, "expiry", acct[h].carry, -acct[h].carry,
                                         EffectiveDate(h))
    <3>1. acct[h].carry \in Int /\ -acct[h].carry \in Int /\ "expiry" \in Types
      BY <1>3 DEF Account, Types, Debits
    <3> QED BY <2>1, <3>1, <1>3
  <2>2. CASE At(h, "release") /\ NewEntry(h, "release", ledger[old[h].reservation].days, 0,
                                          old[h].start)
    <3>1. old[h].reservation \in DOMAIN ledger BY <2>2, AtStep DEF SaneTask
    <3>2. ledger[old[h].reservation].days \in Int BY <1>3, <3>1 DEF Entry
    <3>3. old[h].start \in Nat BY <1>3 DEF Request
    <3>4. 0 \in Int /\ "release" \in Types BY DEF Types
    <3> QED BY <2>2, <3>2, <3>3, <3>4
  <2>3. CASE At(h, "reverse") /\ NewEntry(h, "reversal", ledger[old[h].consumption].days,
                                          -ledger[old[h].consumption].carry, Today)
    <3>1. old[h].consumption \in DOMAIN ledger BY <2>3, AtStep DEF SaneTask
    <3>2. /\ ledger[old[h].consumption].days \in Int /\ ledger[old[h].consumption].carry \in Int
          /\ "reversal" \in Types /\ Today \in Nat
      BY <1>3, <3>1, LeaveAssumption DEF Entry, Types, Credits
    <3>3. -ledger[old[h].consumption].carry \in Int BY <3>2
    <3> QED BY <2>3, <3>2, <3>3
  <2>4. CASE At(h, "carry") /\ NewEntry(h, "carry_forward", carried[h], carried[h],
                                        EffectiveDate(h))
    <3>1. carried[h] \in Int /\ "carry_forward" \in Types BY <1>3 DEF Types, Credits
    <3> QED BY <2>4, <3>1, <1>3
  <2>5. CASE At(h, "grant") /\ NewEntry(h, RunMode[CHOOSE g \in run[h] : TRUE], Grant, 0,
                                        EffectiveDate(h))
    <3>1. run[h] # {} BY <2>5, AtStep DEF RunOnly
    <3>2. RunMode[CHOOSE g \in run[h] : TRUE] \in Types BY <3>1, DateTyped
    <3>3. Grant \in Int /\ 0 \in Int BY LeaveAssumption
    <3> QED BY <2>5, <3>2, <3>3, <1>3
  <2> QED BY <2>1, <2>2, <2>3, <2>4, <2>5 DEF Insert
<1>6. ledger' \in Seq(Entry) /\ Keeps
  BY <1>5, NewEntryKept
<1>7. Sane' /\ todo' \in [Handlers -> Seq(Steps)] BY <1>2, <1>4, <1>6, ContinueSane
<1>8. TypeOK' BY <1>1, <1>2, <1>6, <1>7 DEF TypeOK, rest
<1>9. RequestsNameTheirEntries' BY <1>1, <1>2, <1>6, NamesKept
<1> QED BY <1>7, <1>8, <1>9 DEF Core

\* Reserve: the request names the reservation that is made.
LEMMA ReserveKeeps ==
  ASSUME Core, NEW h \in Handlers, Reserve(h)
  PROVE  Core'
<1>1. TypeOK /\ Sane /\ RequestsNameTheirEntries BY DEF Core
<1>2. CASE Refuse(h) BY <1>2, StopKeeps
<1>3. CASE ~Refuse(h)
  <2>1. /\ At(h, "reserve") /\ NewEntry(h, "reservation", copy[h].days, 0, copy[h].start)
        /\ copy' = [copy EXCEPT ![h].status = "submitted",
                                ![h].reservation = Len(ledger) + 1,
                                ![h].stage = Least(1, Stages), ![h].recorded = {}]
        /\ Continue(h)
        /\ UNCHANGED <<request, account, completed, target, old, acct, carried, run, rest>>
    BY <1>3 DEF Reserve
  <2>2. PICK td : td = todo[h] OBVIOUS
  <2>3. PICK tl : tl = Tail(td) OBVIOUS
  <2>4. PICK w \in Request : w = copy[h] BY <1>1 DEF TypeOK
  <2>5. /\ SaneTask(td, target[h], old[h], w, run[h]) /\ Shape(tl)
        /\ Range(td) = Range(tl) \cup {"reserve"} /\ "reserve" \notin Range(tl)
        /\ "consume" \notin Range(tl) /\ target[h] \in Requests
    <3>1. "reserve" \notin RunSteps /\ "reserve" \in Single BY DEF RunSteps, Single, Steps
    <3>2. ~Precedes("reserve", "consume") BY DEF Precedes
    <3> QED BY <2>1, <2>2, <2>3, <2>4, <3>1, <3>2, AtStep
  <2>6. w.days \in Nat /\ w.start \in Nat BY DEF Request
  <2>7. /\ ledger' \in Seq(Entry) /\ Keeps
        /\ Len(ledger) + 1 \in DOMAIN ledger' /\ Len(ledger) \in Nat
        /\ ledger'[Len(ledger) + 1] = [type |-> "reservation", days |-> w.days, carry |-> 0,
                                       date |-> w.start, request |-> target[h]]
    <3>1. "reservation" \in Types /\ 0 \in Int /\ w.days \in Int BY <2>6 DEF Types
    <3>2. NewEntry(h, "reservation", w.days, 0, w.start) BY <2>1, <2>4
    <3> QED BY <3>1, <3>2, <2>6, NewEntryKept
  <2>a. PICK k \in Nat : k = Len(ledger) + 1 BY <2>7
  <2>b. PICK m \in Nat : m = Least(1, Stages)
    <3>1. Stages \in Nat BY LeaveAssumption
    <3> QED BY <3>1 DEF Least
  <2>8. PICK x : x = [w EXCEPT !.status = "submitted", !.reservation = k, !.stage = m,
                               !.recorded = {}]
    OBVIOUS
  <2>9. /\ x \in Request /\ x.status = "submitted" /\ x.reservation = Len(ledger) + 1
        /\ x.consumption = w.consumption /\ x.days = w.days
    <3>1. x = [status |-> "submitted", days |-> w.days, start |-> w.start, reservation |-> k,
               consumption |-> w.consumption, stage |-> m, recorded |-> {}, by |-> w.by,
               version |-> w.version]
      BY <2>8 DEF Request
    <3>2. w.days \in Nat /\ w.start \in Nat /\ w.consumption \in Nat /\ w.version \in Nat
          /\ w.by \in SUBSET (Nat \X Users)
      BY DEF Request
    <3> QED BY <2>a, <3>1, <3>2 DEF Request, Statuses
  <2>10. copy' = [copy EXCEPT ![h] = x] BY <1>1, <2>1, <2>4, <2>8, <2>a, <2>b DEF TypeOK
  <2>11. copy' \in [Handlers -> Request] /\ copy'[h] = x BY <1>1, <2>9, <2>10 DEF TypeOK
  <2>12. todo' \in [Handlers -> Seq(Steps)] /\ todo'[h] = tl
    <3>1. tl \in Seq(Steps) BY <2>5 DEF Shape
    <3> QED BY <1>1, <2>1, <2>2, <2>3, <3>1 DEF Continue, TypeOK
  <2>13. Others(h) BY <1>1, <2>1, <2>10 DEF Others, Continue, TypeOK
  <2>14. w.status # "approved" BY <2>5 DEF SaneTask
  <2>15. w.consumption = 0
    <3>1. target[h] # NoRequest BY <2>5, LeaveAssumption
    <3> QED BY <3>1, <2>5, <2>14 DEF SaneTask, Holds
  <2>16. Holds(copy[h], target[h], todo[h])'
    <3>1. Is(x.reservation, "reservation", target[h], x.days)'
      BY <2>1, <2>7, <2>9, <2>10, <2>11 DEF Is
    <3> QED BY <2>1, <2>9, <2>11, <2>15, <3>1 DEF Holds
  <2>17. SaneTask(todo[h], target[h], old[h], copy[h], run[h])'
    <3>1. PICK r, v, g : r = target[h] /\ v = old[h] /\ g = run[h] OBVIOUS
    <3>2. SaneTask(td, r, v, w, g) /\ Holds(x, r, tl)'
      BY <2>1, <2>5, <2>11, <2>12, <2>16, <3>1
    <3>3. r # NoRequest BY <2>5, <3>1, LeaveAssumption
    <3>4. SaneTask(tl, r, v, x, g)' BY <2>5, <2>7, <3>2, <3>3 DEF SaneTask, Keeps
    <3> QED BY <2>1, <2>11, <2>12, <3>1, <3>4
  <2>18. Sane' BY <1>1, <2>7, <2>13, <2>17, SaneStep
  <2>19. TypeOK' BY <1>1, <2>1, <2>7, <2>11, <2>12 DEF TypeOK, rest
  <2>20. RequestsNameTheirEntries' BY <1>1, <2>1, <2>7, NamesKept
  <2> QED BY <2>18, <2>19, <2>20 DEF Core
<1> QED BY <1>2, <1>3

\* Consume: the request names the entry that is made.
LEMMA ConsumeKeeps ==
  ASSUME Core, NEW h \in Handlers, Consume(h)
  PROVE  Core'
<1>1. TypeOK /\ Sane /\ RequestsNameTheirEntries BY DEF Core
<1>2. /\ At(h, "consume")
      /\ NewEntry(h, "consumption", copy[h].days, -carried[h], copy[h].start)
      /\ copy' = [copy EXCEPT ![h].consumption = Len(ledger) + 1]
      /\ Continue(h)
      /\ UNCHANGED <<request, account, completed, target, old, acct, carried, run, rest>>
  BY DEF Consume
<1>3. PICK td : td = todo[h] OBVIOUS
<1>4. PICK tl : tl = Tail(td) OBVIOUS
<1>5. PICK w \in Request : w = copy[h] BY <1>1 DEF TypeOK
<1>6. /\ SaneTask(td, target[h], old[h], w, run[h]) /\ Shape(tl)
      /\ Range(td) = Range(tl) \cup {"consume"} /\ "consume" \notin Range(tl)
      /\ target[h] \in Requests
  <2>1. "consume" \notin RunSteps /\ "consume" \in Single BY DEF RunSteps, Single, Steps
  <2> QED BY <1>2, <1>3, <1>4, <1>5, <2>1, AtStep
<1>7. w.days \in Nat /\ w.start \in Nat BY DEF Request
<1>8. /\ ledger' \in Seq(Entry) /\ Keeps
      /\ Len(ledger) + 1 \in DOMAIN ledger' /\ Len(ledger) \in Nat
      /\ ledger'[Len(ledger) + 1].type = "consumption"
      /\ ledger'[Len(ledger) + 1].request = target[h]
      /\ ledger'[Len(ledger) + 1].days = w.days
  <2>1. "consumption" \in Types BY DEF Types, Debits
  <2>2. PICK c \in Int : c = -carried[h]
    <3>1. carried[h] \in Nat BY <1>1 DEF TypeOK
    <3> QED BY <3>1
  <2>3. NewEntry(h, "consumption", w.days, c, w.start) BY <1>2, <1>5, <2>2
  <2>4. /\ ledger' \in Seq(Entry) /\ Keeps
        /\ Len(ledger) + 1 \in DOMAIN ledger' /\ Len(ledger) \in Nat
        /\ ledger'[Len(ledger) + 1] = [type |-> "consumption", days |-> w.days, carry |-> c,
                                       date |-> w.start, request |-> target[h]]
    BY <2>1, <2>3, <1>7, NewEntryKept
  <2> QED BY <2>4
<1>9. PICK k \in Nat : k = Len(ledger) + 1 BY <1>8
<1>10. PICK x : x = [w EXCEPT !.consumption = k] OBVIOUS
<1>11. /\ x \in Request /\ x.status = w.status /\ x.reservation = w.reservation
       /\ x.consumption = k /\ x.days = w.days
  BY <1>9, <1>10 DEF Request
<1>12. copy' = [copy EXCEPT ![h] = x] BY <1>1, <1>2, <1>5, <1>9, <1>10 DEF TypeOK
<1>13. copy' \in [Handlers -> Request] /\ copy'[h] = x BY <1>1, <1>11, <1>12 DEF TypeOK
<1>14. todo' \in [Handlers -> Seq(Steps)] /\ todo'[h] = tl
  <2>1. tl \in Seq(Steps) BY <1>6 DEF Shape
  <2> QED BY <1>1, <1>2, <1>3, <1>4, <2>1 DEF Continue, TypeOK
<1>15. Others(h) BY <1>1, <1>2, <1>12 DEF Others, Continue, TypeOK
<1>16. SaneTask(todo[h], target[h], old[h], copy[h], run[h])'
  <2>1. PICK r, v, g : r = target[h] /\ v = old[h] /\ g = run[h] OBVIOUS
  <2>2. SaneTask(td, r, v, w, g) /\ r # NoRequest BY <1>6, <2>1, LeaveAssumption
  <2>3. w.status = "approved" /\ w.reservation = 0 BY <1>6, <2>2 DEF SaneTask, Holds
  <2>4. Is(k, "consumption", r, x.days)' BY <1>8, <1>9, <1>11, <2>1 DEF Is
  <2>5. Holds(x, r, tl)' BY <1>11, <2>3, <2>4 DEF Holds
  <2>6. SaneTask(tl, r, v, x, g)' BY <1>6, <1>8, <1>11, <2>2, <2>3, <2>5 DEF SaneTask, Keeps
  <2> QED BY <1>2, <1>13, <1>14, <2>1, <2>6
<1>17. Sane' BY <1>1, <1>8, <1>15, <1>16, SaneStep
<1>18. TypeOK' BY <1>1, <1>2, <1>8, <1>13, <1>14 DEF TypeOK, rest
<1>19. RequestsNameTheirEntries' BY <1>1, <1>2, <1>8, NamesKept
<1> QED BY <1>17, <1>18, <1>19 DEF Core

\* A handler goes on with more statements than were left, none of which is about
\* the request.
LEMMA ExtendSane ==
  ASSUME Core, NEW h \in Handlers, NEW s, At(h, s), s # "consume", Keeps,
         NEW nl, Shape(nl), todo' = [todo EXCEPT ![h] = nl],
         \/ Range(nl) = Range(Tail(todo[h]))
         \/ Range(nl) = {"store"} \cup Range(Tail(todo[h]))
         \/ Range(nl) = {"expire", "sum", "store", "reread"} \cup Range(Tail(todo[h]))
         \/ /\ target[h] = NoRequest
            /\ Range(nl) \subseteq {"carry", "sum", "store", "reread"} \cup Range(Tail(todo[h])),
         target' = target, old' = old, copy' = copy, run' = run
  PROVE  Sane' /\ todo' \in [Handlers -> Seq(Steps)]
<1>1. Sane /\ TypeOK BY DEF Core
<1>2. PICK td : td = todo[h] OBVIOUS
<1>3. PICK tl : tl = Tail(td) OBVIOUS
<1>4. SaneTask(td, target[h], old[h], copy[h], run[h]) /\ Range(td) = Range(tl) \cup {s}
      /\ td # <<>>
  BY <1>2, <1>3, AtStep
<1>5. nl \in Seq(Steps) BY DEF Shape
<1>6. todo'[h] = nl /\ Others(h) /\ todo' \in [Handlers -> Seq(Steps)]
  BY <1>1, <1>5 DEF TypeOK, Others
<1>7. PICK r, v, w, g : r = target[h] /\ v = old[h] /\ w = copy[h] /\ g = run[h] OBVIOUS
<1>8. SaneTask(td, r, v, w, g) BY <1>4, <1>7
<1>9. \/ Range(nl) = Range(tl)
      \/ Range(nl) = {"store"} \cup Range(tl)
      \/ Range(nl) = {"expire", "sum", "store", "reread"} \cup Range(tl)
      \/ /\ r = NoRequest
         /\ Range(nl) \subseteq {"carry", "sum", "store", "reread"} \cup Range(tl)
  BY <1>2, <1>3, <1>7
<1>10. \A y \in {"release", "reverse", "reserve", "consume"} : y \in Range(nl) => y \in Range(td)
  BY <1>4, <1>9
<1>11. r # NoRequest => Holds(w, r, nl)'
  <2> SUFFICES ASSUME r # NoRequest PROVE Holds(w, r, nl)' OBVIOUS
  <2>1. "consume" \in Range(td) => "consume" \in Range(nl) BY <1>4, <1>9
  <2> QED BY <1>8, <2>1 DEF SaneTask, Holds, Is, Keeps
<1>12. /\ r = NoRequest => Range(nl) \subseteq RunSteps /\ g # {}
       /\ r # NoRequest => Range(nl) \cap RunOnly = {} /\ g = {}
  BY <1>4, <1>8, <1>9 DEF SaneTask, RunSteps, RunOnly
<1>13. SaneTask(nl, r, v, w, g)'
  BY <1>8, <1>10, <1>11, <1>12 DEF SaneTask, Keeps
<1>14. SaneTask(todo[h], target[h], old[h], copy[h], run[h])' BY <1>6, <1>7, <1>13
<1> QED BY <1>1, <1>6, <1>14, SaneStep

\* Open: what an expired carry-forward still needs comes first.
LEMMA OpenKeeps ==
  ASSUME Core, NEW h \in Handlers, Open(h)
  PROVE  Core'
<1>1. TypeOK /\ Sane /\ RequestsNameTheirEntries BY DEF Core
<1> DEFINE k == (<<"expire">> \o Recount) \o <<"reread", "store">>
           due == account.expiry # 0 /\ EffectiveDate(h) > account.expiry
<1>2. /\ At(h, "open")
      /\ acct' = [acct EXCEPT ![h] = IF due /\ account.carry = 0
                                     THEN [account EXCEPT !.expiry = 0] ELSE account]
      /\ todo' = [todo EXCEPT ![h] =
                    (IF ~due THEN <<>> ELSE IF account.carry = 0 THEN <<"store">> ELSE k)
                    \o Tail(@)]
      /\ UNCHANGED <<request, ledger, account, completed, target, old, copy, carried, run, rest>>
  BY DEF Open
<1>3. PICK e : e = Tail(todo[h]) OBVIOUS
<1>4. /\ Shape(e) /\ e # <<>> /\ Follows("open", Head(e))
      /\ \A y \in Range(e) : Precedes("open", y)
  <2>1. "open" \in Inner BY DEF Inner, Steps
  <2> QED BY <1>2, <1>3, <2>1, AtStep
<1>5. Range(e) \subseteq Opened BY <1>4 DEF Precedes
<1>6. PICK b \in {<<>>, <<"store">>, k} :
         b = IF ~due THEN <<>> ELSE IF account.carry = 0 THEN <<"store">> ELSE k
  <2> HIDE DEF k, due
  <2> QED OBVIOUS
<1>7. /\ Shape(b \o e)
      /\ b = <<>> => b \o e = e
      /\ b = <<"store">> => Range(b \o e) = {"store"} \cup Range(e)
      /\ b = k => Range(b \o e) = {"expire", "sum", "store", "reread"} \cup Range(e)
  BY <1>4, <1>5, OpenList
<1> HIDE DEF k
<1>8. PICK nl : nl = b \o e OBVIOUS
<1>9. \/ Range(nl) = Range(Tail(todo[h]))
      \/ Range(nl) = {"store"} \cup Range(Tail(todo[h]))
      \/ Range(nl) = {"expire", "sum", "store", "reread"} \cup Range(Tail(todo[h]))
  BY <1>3, <1>6, <1>7, <1>8
<1>10. todo' = [todo EXCEPT ![h] = nl]
  <2> HIDE DEF due
  <2> QED BY <1>1, <1>2, <1>3, <1>6, <1>8 DEF TypeOK
<1>11. Keeps BY <1>2, KeptSame
<1>12. Sane' /\ todo' \in [Handlers -> Seq(Steps)]
  <2>1. Shape(nl) BY <1>7, <1>8
  <2> QED BY <1>2, <1>9, <1>10, <1>11, <2>1, ExtendSane
<1>13. acct' \in [Handlers -> Account]
  <2>1. account \in Account /\ [account EXCEPT !.expiry = 0] \in Account
    BY <1>1 DEF TypeOK, Account
  <2> HIDE DEF due
  <2> QED BY <1>1, <1>2, <2>1 DEF TypeOK
<1>14. TypeOK' BY <1>1, <1>2, <1>12, <1>13 DEF TypeOK, rest
<1>15. RequestsNameTheirEntries' BY <1>1, <1>2, <1>11, NamesKept
<1> QED BY <1>12, <1>14, <1>15 DEF Core

\* Turn: what is left expires, and part of it will be carried forward.
LEMMA TurnKeeps ==
  ASSUME Core, NEW h \in Handlers, Turn(h)
  PROVE  Core'
<1>1. TypeOK /\ Sane /\ RequestsNameTheirEntries BY DEF Core
<1> DEFINE left == acct[h].current
           g == CHOOSE x \in run[h] : TRUE
           taken == IF CarryCap > 0 THEN Least(left, CarryCap)
                    ELSE IF RunExpiry[g] # 0 THEN left ELSE 0
<1>2. /\ At(h, "turn")
      /\ UNCHANGED <<request, account, completed, target, old, copy, run, rest>>
  BY DEF Turn
<1>3. PICK e : e = Tail(todo[h]) OBVIOUS
<1>4. /\ Shape(e) /\ e # <<>> /\ Follows("turn", Head(e))
      /\ \A y \in Range(e) : Precedes("turn", y)
      /\ target[h] = NoRequest /\ run[h] # {} /\ acct[h] \in Account
  <2>1. "turn" \in Inner /\ "turn" \in RunOnly BY DEF Inner, Steps, RunOnly
  <2> QED BY <1>2, <1>3, <2>1, AtStep
<1>5. left \in Int /\ RunExpiry[g] \in Nat /\ RunDate[g] \in Nat /\ acct[h].carry \in Nat
  BY <1>4, DateTyped DEF Account
<1>6. CASE left <= 0
  <2>1. /\ acct' = [acct EXCEPT ![h].expiry = 0]
        /\ todo' = [todo EXCEPT ![h] = <<"store">> \o Tail(@)]
        /\ ledger' = ledger /\ carried' = carried
    BY <1>6 DEF Turn
  <2>2. Shape(<<"store">> \o e) /\ Range(<<"store">> \o e) = {"store"} \cup Range(e)
    <3>1. "store" \in Steps /\ Follows("store", Head(e)) BY <1>4 DEF Steps, Follows, Inserts
    <3>2. \A y \in Range(e) : Precedes("store", y)
      BY <1>4 DEF Precedes, Counted, Opened, Saved
    <3> QED BY <3>1, <3>2, <1>4, FrontShape
  <2>3. PICK nl : nl = <<"store">> \o e OBVIOUS
  <2>4. todo' = [todo EXCEPT ![h] = nl] BY <1>1, <1>3, <2>1, <2>3 DEF TypeOK
  <2>5. Keeps BY <2>1, KeptSame
  <2>6. Sane' /\ todo' \in [Handlers -> Seq(Steps)]
    BY <1>2, <1>3, <2>2, <2>3, <2>4, <2>5, ExtendSane
  <2>7. acct' \in [Handlers -> Account]
    <3>1. [acct[h] EXCEPT !.expiry = 0] \in Account BY <1>4 DEF Account
    <3> QED BY <1>1, <2>1, <3>1 DEF TypeOK
  <2>8. TypeOK' BY <1>1, <1>2, <2>1, <2>6, <2>7 DEF TypeOK, rest
  <2>9. RequestsNameTheirEntries' BY <1>1, <1>2, <2>5, NamesKept
  <2> QED BY <2>6, <2>8, <2>9 DEF Core
<1>7. CASE ~(left <= 0)
  <2>1. /\ NewEntry(h, "expiry", left, -Least(acct[h].carry, left), RunDate[g])
        /\ carried' = [carried EXCEPT ![h] = taken]
        /\ todo' = [todo EXCEPT ![h] =
                      ((Recount \o (IF taken > 0 THEN <<"carry">> \o Recount ELSE <<>>))
                       \o <<"reread", "store">>) \o Tail(@)]
        /\ acct' = acct
    BY <1>7 DEF Turn
  <2>2. taken \in Nat
    <3>1. CarryCap \in Nat BY LeaveAssumption
    <3> QED BY <1>5, <1>7, <3>1 DEF Least
  <2>3. PICK b \in {<<>>, <<"carry">> \o Recount} :
           b = IF taken > 0 THEN <<"carry">> \o Recount ELSE <<>>
    <3> HIDE DEF taken
    <3> QED OBVIOUS
  <2>4. PICK nl : nl = ((Recount \o b) \o <<"reread", "store">>) \o e OBVIOUS
  <2>5. Shape(nl) /\ Range(nl) \subseteq {"carry", "sum", "store", "reread"} \cup Range(e)
    BY <1>4, <2>3, <2>4, TurnList
  <2>6. todo' = [todo EXCEPT ![h] = nl]
    <3> HIDE DEF taken
    <3> QED BY <1>1, <1>3, <2>1, <2>3, <2>4 DEF TypeOK
  <2>7. ledger' \in Seq(Entry) /\ Keeps
    <3>1. PICK n \in Int : n = left BY <1>5
    <3>2. PICK c \in Int : c = -Least(acct[h].carry, left) BY <1>5 DEF Least
    <3>3. PICK d \in Nat : d = RunDate[g] BY <1>5
    <3>4. "expiry" \in Types BY DEF Types, Debits
    <3>5. NewEntry(h, "expiry", n, c, d) BY <2>1, <3>1, <3>2, <3>3
    <3> QED BY <3>4, <3>5, NewEntryKept
  <2>8. Sane' /\ todo' \in [Handlers -> Seq(Steps)]
    BY <1>2, <1>3, <1>4, <2>5, <2>6, <2>7, ExtendSane
  <2>9. carried' \in [Handlers -> Nat]
    <3> HIDE DEF taken
    <3> QED BY <1>1, <2>1, <2>2 DEF TypeOK
  <2>10. TypeOK' BY <1>1, <1>2, <2>1, <2>7, <2>8, <2>9 DEF TypeOK, rest
  <2>11. RequestsNameTheirEntries' BY <1>1, <1>2, <2>7, NamesKept
  <2> QED BY <2>8, <2>10, <2>11 DEF Core
<1> QED BY <1>6, <1>7

\* Complete: the run is over.
LEMMA CompleteKeeps ==
  ASSUME Core, NEW h \in Handlers, Complete(h)
  PROVE  Core'
<1>1. TypeOK /\ Sane /\ RequestsNameTheirEntries BY DEF Core
<1>2. /\ Done(h) /\ completed' = completed \cup run[h]
      /\ UNCHANGED <<request, ledger, account, rest>>
  BY DEF Complete
<1>3. Keeps BY <1>2, KeptSame
<1>4. completed' \subseteq Runs BY <1>1, <1>2 DEF TypeOK
<1>5. TypeOK' BY <1>1, <1>2, <1>3, <1>4, DoneKeeps DEF TypeOK, rest
<1>6. Sane' BY <1>1, <1>2, <1>3, DoneKeeps
<1>7. RequestsNameTheirEntries' BY <1>1, <1>2, <1>3, NamesKept
<1> QED BY <1>5, <1>6, <1>7 DEF Core

\* Save: by now the request names what was made for it.
LEMMA SaveKeeps ==
  ASSUME Core, NEW h \in Handlers, Save(h)
  PROVE  Core'
<1>1. TypeOK /\ Sane /\ RequestsNameTheirEntries BY DEF Core
<1>2. PICK w \in Request : w = copy[h] BY <1>1 DEF TypeOK
<1>3. PICK x : x = [w EXCEPT !.version = @ + 1] OBVIOUS
<1>4. /\ At(h, "save")
      /\ request' = [request EXCEPT ![target[h]] = x]
      /\ UNCHANGED <<ledger, account, completed, rest>>
  BY <1>2, <1>3 DEF Save
<1>5. /\ x \in Request /\ x.status = w.status /\ x.days = w.days
      /\ x.reservation = w.reservation /\ x.consumption = w.consumption
  BY <1>3 DEF Request
<1>6. PICK td : td = todo[h] OBVIOUS
<1>7. PICK tl : tl = Tail(td) OBVIOUS
<1>8. PICK r \in Requests : r = target[h]
  <2>1. "save" \notin RunSteps BY DEF RunSteps
  <2> QED BY <1>4, <2>1, AtStep
<1>9. /\ SaneTask(td, r, old[h], w, run[h]) /\ Shape(tl) /\ Range(td) = Range(tl) \cup {"save"}
      /\ \A y \in Range(tl) : Precedes("save", y)
  BY <1>2, <1>4, <1>6, <1>7, <1>8, AtStep
<1>10. "consume" \notin Range(td) BY <1>9 DEF Precedes, Saved
<1>11. Holds(w, r, td) /\ r # NoRequest
  <2>1. r # NoRequest BY LeaveAssumption
  <2> QED BY <1>9, <2>1 DEF SaneTask
<1>12. Keeps BY <1>4, KeptSame
<1>13. request' \in [Requests -> Request] BY <1>1, <1>4, <1>5, <1>8 DEF TypeOK
<1>14. RequestsNameTheirEntries'
  <2> DEFINE Named(y, q) ==
        /\ y.status = "approved" => Is(y.consumption, "consumption", q, y.days)
        /\ y.status # "approved" => y.consumption = 0
        /\ y.reservation # 0 =>
             y.status = "submitted" /\ Is(y.reservation, "reservation", q, y.days)
  <2>1. \A y, q : Named(y, q) => Named(y, q)' BY <1>4 DEF Is
  <2>2. \A q \in Requests : Named(request[q], q) BY <1>1 DEF RequestsNameTheirEntries
  <2>3. Named(x, r) BY <1>5, <1>10, <1>11 DEF Holds
  <2>4. \A q \in Requests : request'[q] = IF q = r THEN x ELSE request[q]
    BY <1>1, <1>4, <1>8 DEF TypeOK
  <2> SUFFICES \A q \in Requests : Named(request[q], q)'
    BY DEF RequestsNameTheirEntries
  <2> HIDE DEF Named
  <2>5. \A q \in Requests : \A y : y = request'[q] => Named(y, q)' BY <2>1, <2>2, <2>3, <2>4
  <2>6. \A q \in Requests : \A y : y = request'[q] /\ Named(y, q)' => Named(request[q], q)'
    BY DEF Named
  <2> QED BY <2>5, <2>6
<1>15. CASE Len(todo[h]) = 1
  <2>1. Done(h) BY <1>15 DEF Save
  <2>2. Sane' BY <1>1, <1>12, <2>1, DoneKeeps
  <2>3. TypeOK' BY <1>1, <1>4, <1>12, <1>13, <2>1, DoneKeeps DEF TypeOK, rest
  <2> QED BY <1>14, <2>2, <2>3 DEF Core
<1>16. CASE Len(todo[h]) # 1
  <2>1. /\ Continue(h) /\ copy' = [copy EXCEPT ![h] = x]
        /\ UNCHANGED <<target, old, acct, carried, run>>
    BY <1>2, <1>3, <1>16 DEF Save
  <2>2. copy' \in [Handlers -> Request] /\ copy'[h] = x BY <1>1, <1>5, <2>1 DEF TypeOK
  <2>3. todo' \in [Handlers -> Seq(Steps)] /\ todo'[h] = tl
    <3>1. tl \in Seq(Steps) BY <1>9 DEF Shape
    <3> QED BY <1>1, <1>6, <1>7, <2>1, <3>1 DEF Continue, TypeOK
  <2>4. Others(h) BY <1>1, <2>1 DEF Others, Continue, TypeOK
  <2>5. SaneTask(todo[h], target[h], old[h], copy[h], run[h])'
    <3>1. PICK v, g : v = old[h] /\ g = run[h] OBVIOUS
    <3>2. SaneTask(td, r, v, w, g) BY <1>9, <3>1
    <3>3. Holds(x, r, tl)' BY <1>4, <1>5, <1>10, <1>11 DEF Holds, Is
    <3>4. SaneTask(tl, r, v, x, g)'
      BY <1>4, <1>5, <1>9, <1>11, <3>2, <3>3 DEF SaneTask
    <3> QED BY <1>8, <2>1, <2>2, <2>3, <3>1, <3>4
  <2>6. Sane' BY <1>1, <1>12, <2>4, <2>5, SaneStep
  <2>7. TypeOK' BY <1>1, <1>4, <1>13, <2>1, <2>2, <2>3 DEF TypeOK, rest
  <2> QED BY <1>14, <2>6, <2>7 DEF Core
<1> QED BY <1>15, <1>16

\* Create: a draft has no entries.
LEMMA CreateKeeps ==
  ASSUME Core, NEW r \in Requests, NEW n \in Days, NEW start \in Dates, Create(r, n, start)
  PROVE  Core'
<1>1. TypeOK /\ Sane /\ RequestsNameTheirEntries BY DEF Core
<1>2. PICK x : x = [NoRecord EXCEPT !.status = "draft", !.days = n, !.start = start,
                                    !.version = 1]
  OBVIOUS
<1>3. /\ request' = [request EXCEPT ![r] = x]
      /\ UNCHANGED <<ledger, account, completed, taskVars, rest>>
  BY <1>2 DEF Create
<1>4. x = [status |-> "draft", days |-> n, start |-> start, reservation |-> 0,
           consumption |-> 0, stage |-> 0, recorded |-> {}, by |-> {}, version |-> 1]
  BY <1>2 DEF NoRecord
<1>5. x \in Request
  <2>1. n \in Nat /\ start \in Nat BY LeaveAssumption
  <2>2. {} \in SUBSET Users /\ {} \in SUBSET (Nat \X Users) OBVIOUS
  <2> QED BY <1>4, <2>1, <2>2 DEF Request, Statuses
<1>6. TypeOK' BY <1>1, <1>3, <1>5 DEF TypeOK, taskVars, rest
<1>7. Sane' BY <1>1, <1>3 DEF Sane, SaneTask, Holds, Is, taskVars
<1>8. RequestsNameTheirEntries'
  <2>1. \A q \in Requests : request'[q] = IF q = r THEN x ELSE request[q]
    BY <1>1, <1>3 DEF TypeOK
  <2>2. x.status = "draft" /\ x.reservation = 0 /\ x.consumption = 0 BY <1>4
  <2> QED BY <1>1, <1>3, <2>1, <2>2 DEF RequestsNameTheirEntries, Is
<1> QED BY <1>6, <1>7, <1>8 DEF Core

\* What a request that is read says of the ledger.
LEMMA RequestRead ==
  ASSUME Core, NEW r \in Requests, NEW v, v = request[r]
  PROVE  /\ v \in Request /\ r # NoRequest
         /\ v.status = "approved" => Is(v.consumption, "consumption", r, v.days)
         /\ v.status # "approved" => v.consumption = 0
         /\ v.reservation # 0 =>
              v.status = "submitted" /\ Is(v.reservation, "reservation", r, v.days)
<1>1. v \in Request BY DEF Core, TypeOK
<1>2. r # NoRequest BY LeaveAssumption
<1> QED BY <1>1, <1>2 DEF Core, RequestsNameTheirEntries

\* The task of an operation on a request.
LEMMA RequestTask ==
  ASSUME Core, NEW r \in Requests, NEW v, v = request[r], NEW w, NEW td, Shape(td),
         Range(td) \cap RunOnly = {},
         "release" \in Range(td) => v.reservation # 0,
         "reverse" \in Range(td) => v.consumption # 0,
         "reserve" \in Range(td) => w.status # "approved" /\ w.reservation = 0,
         "consume" \in Range(td) => w.status = "approved",
         w.status = "approved" => "consume" \in Range(td),
         w.status # "approved" => w.consumption = 0,
         w.reservation # 0 =>
           w.status = "submitted" /\ w.reservation = v.reservation /\ w.days = v.days
  PROVE  SaneTask(td, r, v, w, {})
<1>1. /\ v \in Request /\ r # NoRequest
      /\ v.status = "approved" => Is(v.consumption, "consumption", r, v.days)
      /\ v.status # "approved" => v.consumption = 0
      /\ v.reservation # 0 =>
           v.status = "submitted" /\ Is(v.reservation, "reservation", r, v.days)
  BY RequestRead
<1>2. v.reservation # 0 => v.reservation \in DOMAIN ledger BY <1>1 DEF Is
<1>3. v.consumption # 0 => v.consumption \in DOMAIN ledger BY <1>1 DEF Is
<1>4. Holds(w, r, td) BY <1>1 DEF Holds
<1> QED BY <1>1, <1>2, <1>3, <1>4 DEF SaneTask

\* Records that handlers prepare.
LEMMA RecordsTyped ==
  ASSUME NEW v \in Request
  PROVE  /\ \A n \in NewDays, start \in Dates :
              /\ Prepared(v, n, start) \in Request
              /\ Prepared(v, n, start).status = v.status
              /\ Prepared(v, n, start).reservation = v.reservation
              /\ Prepared(v, n, start).consumption = v.consumption
         /\ \A s \in Statuses :
              /\ Closed(v, s) \in Request /\ Closed(v, s).status = s
              /\ Closed(v, s).reservation = 0 /\ Closed(v, s).consumption = 0
<1>1. /\ v.status \in Statuses /\ v.days \in Nat /\ v.start \in Nat /\ v.reservation \in Nat
      /\ v.consumption \in Nat /\ v.stage \in Nat /\ v.recorded \in SUBSET Users
      /\ v.by \in SUBSET (Nat \X Users) /\ v.version \in Nat
  BY DEF Request
<1>2. ASSUME NEW n \in NewDays, NEW start \in Dates
      PROVE  /\ Prepared(v, n, start) \in Request
             /\ Prepared(v, n, start).status = v.status
             /\ Prepared(v, n, start).reservation = v.reservation
             /\ Prepared(v, n, start).consumption = v.consumption
  <2>1. n \in Nat /\ start \in Nat BY LeaveAssumption
  <2>a. PICK x : x = [v EXCEPT !.days = n, !.start = start, !.stage = 0, !.by = {}] OBVIOUS
  <2>2. x =
          [status |-> v.status, days |-> n, start |-> start, reservation |-> v.reservation,
           consumption |-> v.consumption, stage |-> 0, recorded |-> v.recorded, by |-> {},
           version |-> v.version]
    BY <2>a DEF Request
  <2>b. Prepared(v, n, start) = x BY <2>a DEF Prepared
  <2>3. {} \in SUBSET (Nat \X Users) OBVIOUS
  <2> QED BY <1>1, <2>1, <2>2, <2>3, <2>b DEF Request
<1>3. ASSUME NEW s \in Statuses
      PROVE  /\ Closed(v, s) \in Request /\ Closed(v, s).status = s
             /\ Closed(v, s).reservation = 0 /\ Closed(v, s).consumption = 0
  <2>a. PICK x : x = [v EXCEPT !.status = s, !.reservation = 0, !.consumption = 0, !.stage = 0]
    OBVIOUS
  <2>1. x =
          [status |-> s, days |-> v.days, start |-> v.start, reservation |-> 0,
           consumption |-> 0, stage |-> 0, recorded |-> v.recorded, by |-> v.by,
           version |-> v.version]
    BY <2>a DEF Request
  <2>b. Closed(v, s) = x BY <2>a DEF Closed
  <2> QED BY <1>1, <2>1, <2>b DEF Request
<1> QED BY <1>2, <1>3

\* Edit and Submit.
LEMMA DraftKeeps ==
  ASSUME Core, NEW h \in Handlers, NEW r \in Requests,
         Submit(h, r) \/ \E n \in NewDays, start \in Dates : Edit(h, r, n, start)
  PROVE  Core'
<1>1. PICK v : v = request[r] OBVIOUS
<1>2. v \in Request /\ v.status = "draft" /\ v.reservation = 0 /\ v.consumption = 0
  <2>1. v.status = "draft" BY <1>1 DEF Submit, Edit
  <2> QED BY <1>1, <2>1, RequestRead
<1>3. {} \in SUBSET Runs OBVIOUS
<1>4. CASE Submit(h, r)
  <2>1. Begin(h, r, v, v, {}, Submitting) BY <1>1, <1>4 DEF Submit
  <2>2. SaneTask(Submitting, r, v, v, {}) BY <1>1, <1>2, SubmitList, RequestTask DEF RunOnly
  <2> QED BY <1>2, <1>3, <2>1, <2>2, BeginKeeps
<1>5. ASSUME NEW n \in NewDays, NEW start \in Dates, Edit(h, r, n, start) PROVE Core'
  <2>1. PICK w : w = Prepared(v, n, start) OBVIOUS
  <2>2. w \in Request /\ w.status = "draft" /\ w.reservation = 0 /\ w.consumption = 0
    BY <1>2, <2>1, RecordsTyped
  <2>3. Begin(h, r, v, w, {}, Update) BY <1>1, <1>5, <2>1 DEF Edit
  <2>4. SaneTask(Update, r, v, w, {})
    BY <1>1, <2>2, UpdateOnly, RequestTask DEF RunOnly
  <2> QED BY <1>2, <1>3, <2>2, <2>3, <2>4, BeginKeeps
<1> QED BY <1>4, <1>5

\* What a reservation or a charge costs to give back.
LEMMA GivingBack ==
  ASSUME NEW v
  PROVE  /\ Releasing(v) = <<>> \/ Releasing(v) = <<"release">> \o Recount
         /\ Releasing(v) = <<>> \/ v.reservation # 0
         /\ v.reservation = 0 => Releasing(v) = <<>>
         /\ v.reservation # 0 => Releasing(v) = <<"release">> \o Recount
         /\ Reversing(v) = <<>> \/ Reversing(v) = <<"reverse">> \o Recount
         /\ Reversing(v) = <<>> \/ v.consumption # 0
         /\ v.consumption = 0 => Reversing(v) = <<>>
         /\ v.consumption # 0 => Reversing(v) = <<"reverse">> \o Recount
BY Zenon DEF Releasing, Reversing

\* Cancel and Reject.
LEMMA CloseKeeps ==
  ASSUME Core, NEW h \in Handlers, NEW r \in Requests,
         Cancel(h, r) \/ \E u \in Users : Reject(h, r, u)
  PROVE  Core'
<1>1. PICK v : v = request[r] OBVIOUS
<1>2. v \in Request BY <1>1, RequestRead
<1>3. {} \in SUBSET Runs OBVIOUS
<1>4. PICK s \in {"cancelled", "rejected"} :
         \/ Begin(h, r, v, Closed(v, s), {}, Releasing(v) \o Update)
         \/ Begin(h, r, v, Closed(v, s), {}, Reversing(v) \o Update)
  BY <1>1 DEF Cancel, Reject
<1>5. PICK w : w = Closed(v, s) OBVIOUS
<1>6. w \in Request /\ w.status = s /\ w.reservation = 0 /\ w.consumption = 0
  <2>1. s \in Statuses BY DEF Statuses
  <2> QED BY <1>2, <1>5, <2>1, RecordsTyped
<1>7. CASE Begin(h, r, v, Closed(v, s), {}, Releasing(v) \o Update)
  <2>1. PICK b : b = Releasing(v) OBVIOUS
  <2>2. PICK td : td = b \o Update OBVIOUS
  <2>3. /\ b = <<>> \/ b = <<"release">> \o Recount
        /\ v.reservation = 0 => b = <<>>
    BY <2>1, GivingBack
  <2>4. /\ Shape(td)
        /\ b = <<>> => Range(td) = {"check", "save"}
        /\ b = <<"release">> \o Recount => Range(td) = {"release", "sum", "store", "check", "save"}
    BY <2>2, <2>3, CloseList
  <2> HIDE DEF Recount
  <2>5. /\ Range(td) \cap RunOnly = {} /\ "reverse" \notin Range(td)
        /\ "reserve" \notin Range(td) /\ "consume" \notin Range(td)
        /\ "release" \in Range(td) => v.reservation # 0
    BY <2>3, <2>4 DEF RunOnly
  <2>6. SaneTask(td, r, v, w, {}) BY <1>1, <1>6, <2>4, <2>5, RequestTask
  <2>7. Begin(h, r, v, w, {}, td) BY <1>5, <1>7, <2>1, <2>2
  <2> QED BY <1>2, <1>3, <1>6, <2>6, <2>7, BeginKeeps
<1>8. CASE Begin(h, r, v, Closed(v, s), {}, Reversing(v) \o Update)
  <2>1. PICK b : b = Reversing(v) OBVIOUS
  <2>2. PICK td : td = b \o Update OBVIOUS
  <2>3. /\ b = <<>> \/ b = <<"reverse">> \o Recount
        /\ v.consumption = 0 => b = <<>>
    BY <2>1, GivingBack
  <2>4. /\ Shape(td)
        /\ b = <<>> => Range(td) = {"check", "save"}
        /\ b = <<"reverse">> \o Recount => Range(td) = {"reverse", "sum", "store", "check", "save"}
    BY <2>2, <2>3, CloseList
  <2> HIDE DEF Recount
  <2>5. /\ Range(td) \cap RunOnly = {} /\ "release" \notin Range(td)
        /\ "reserve" \notin Range(td) /\ "consume" \notin Range(td)
        /\ "reverse" \in Range(td) => v.consumption # 0
    BY <2>3, <2>4 DEF RunOnly
  <2>6. SaneTask(td, r, v, w, {}) BY <1>1, <1>6, <2>4, <2>5, RequestTask
  <2>7. Begin(h, r, v, w, {}, td) BY <1>5, <1>8, <2>1, <2>2
  <2> QED BY <1>2, <1>3, <1>6, <2>6, <2>7, BeginKeeps
<1> QED BY <1>4, <1>7, <1>8

\* The request as an amendment saves it, before it is submitted again.
Amended(v, n, start) ==
  [Prepared(v, n, start) EXCEPT !.status = "submitted", !.reservation = 0, !.consumption = 0]

\* That record has the new dates and days and no entries.
LEMMA AmendedTyped ==
  ASSUME NEW v \in Request, NEW n \in NewDays, NEW start \in Dates
  PROVE  /\ Amended(v, n, start) \in Request /\ Amended(v, n, start).status = "submitted"
         /\ Amended(v, n, start).reservation = 0 /\ Amended(v, n, start).consumption = 0
         /\ Amended(v, n, start).days = n /\ Amended(v, n, start).start = start
<1>1. PICK p \in Request : p = Prepared(v, n, start) BY RecordsTyped
<1>2. PICK x : x = [p EXCEPT !.status = "submitted", !.reservation = 0, !.consumption = 0]
  OBVIOUS
<1>3. /\ p.days \in Nat /\ p.start \in Nat /\ p.stage \in Nat /\ p.recorded \in SUBSET Users
      /\ p.by \in SUBSET (Nat \X Users) /\ p.version \in Nat
  BY DEF Request
<1>4. p.days = n /\ p.start = start
  <2>1. PICK y : y = [v EXCEPT !.days = n, !.start = start, !.stage = 0, !.by = {}] OBVIOUS
  <2>2. y.days = n /\ y.start = start BY <2>1 DEF Request
  <2> QED BY <1>1, <2>1, <2>2 DEF Prepared
<1>5. x = [status |-> "submitted", days |-> p.days, start |-> p.start, reservation |-> 0,
           consumption |-> 0, stage |-> p.stage, recorded |-> p.recorded, by |-> p.by,
           version |-> p.version]
  BY <1>2 DEF Request
<1>6. x \in Request BY <1>3, <1>5 DEF Request, Statuses
<1>7. Amended(v, n, start) = x BY <1>1, <1>2 DEF Amended
<1> QED BY <1>4, <1>5, <1>6, <1>7

\* Amend: what the request holds is given back before it is saved without it.
LEMMA AmendKeeps ==
  ASSUME Core, NEW h \in Handlers, NEW r \in Requests, NEW n \in NewDays, NEW start \in Dates,
         Amend(h, r, n, start)
  PROVE  Core'
<1>1. PICK v : v = request[r] OBVIOUS
<1>2. v \in Request BY <1>1, RequestRead
<1>3. {} \in SUBSET Runs OBVIOUS
<1>4. PICK w : w = Amended(v, n, start) OBVIOUS
<1>5. w \in Request /\ w.status = "submitted" /\ w.reservation = 0 /\ w.consumption = 0
  BY <1>2, <1>4, AmendedTyped
<1> DEFINE Given(x, b) == /\ x \in {"release", "reverse"}
                          /\ b = <<>> \/ b = <<x>> \o Recount
                          /\ x = "release" /\ v.reservation = 0 => b = <<>>
                          /\ x = "reverse" /\ v.consumption = 0 => b = <<>>
                          /\ b = IF v.status = "submitted" THEN Releasing(v) ELSE Reversing(v)
<1>6. PICK x, b : Given(x, b)
  <2>1. v.status = "submitted" => Given("release", Releasing(v)) BY GivingBack
  <2>2. v.status # "submitted" => Given("reverse", Reversing(v)) BY GivingBack
  <2> HIDE DEF Given
  <2> QED BY <2>1, <2>2
<1>7. PICK td : td = ((<<"preflight">> \o b) \o Update) \o Submitting OBVIOUS
<1>8. /\ Shape(td)
      /\ b = <<>> => Range(td) = {"preflight"} \cup Saved
      /\ b = <<x>> \o Recount => Range(td) = {"preflight", x} \cup Saved
  BY <1>6, <1>7, AmendList
<1>9. Begin(h, r, v, w, {}, td)
  BY <1>1, <1>4, <1>6, <1>7 DEF Amend, Amended
<1> HIDE DEF Recount
<1>10. /\ Range(td) \cap RunOnly = {} /\ "consume" \notin Range(td)
       /\ "release" \in Range(td) => v.reservation # 0
       /\ "reverse" \in Range(td) => v.consumption # 0
  BY <1>6, <1>8 DEF RunOnly, Saved
<1>11. SaneTask(td, r, v, w, {}) BY <1>1, <1>5, <1>8, <1>10, RequestTask
<1> QED BY <1>2, <1>3, <1>5, <1>9, <1>11, BeginKeeps

\* Approve: a final approval charges the days, another one only records it.
LEMMA ApproveKeeps ==
  ASSUME Core, NEW h \in Handlers, NEW r \in Requests, NEW u \in Users, Approve(h, r, u)
  PROVE  Core'
<1>1. PICK v : v = request[r] OBVIOUS
<1>2. v \in Request BY <1>1, RequestRead
<1>3. {} \in SUBSET Runs OBVIOUS
<1>4. PICK x : x = [v EXCEPT !.by = @ \cup {<<v.stage, u>>}] OBVIOUS
<1>5. PICK k : k = v.recorded \cup {u} OBVIOUS
<1>6. /\ v.status = "submitted" /\ v.consumption = 0 /\ v.stage \in Nat /\ k \in SUBSET Users
      /\ v.stage + 1 \in Nat
  <2>1. v.status = "submitted" BY <1>1 DEF Approve
  <2> QED BY <1>1, <1>2, <1>5, <2>1, RequestRead DEF Request
<1>7. x \in Request /\ x.status = "submitted" /\ x.consumption = 0 /\ x.days = v.days
      /\ x.reservation = v.reservation /\ x.stage = v.stage
  BY <1>2, <1>4, <1>6 DEF Request
<1>8. PICK m \in Nat : m = v.stage + 1 BY <1>6
<1>9. \/ Begin(h, r, v, Closed(x, "approved"), {}, Consuming(v) \o Update)
      \/ Begin(h, r, v, [x EXCEPT !.recorded = k], {}, Update)
      \/ Begin(h, r, v, [x EXCEPT !.stage = m, !.recorded = {}], {}, Update)
  <2>1. /\ Consuming(x) = Consuming(v)
        /\ [x EXCEPT !.stage = @ + 1, !.recorded = {}] = [x EXCEPT !.stage = m, !.recorded = {}]
    <3>1. Releasing(x) = Releasing(v) BY <1>7 DEF Releasing
    <3>2. Consuming(x) = Consuming(v) BY <3>1 DEF Consuming
    <3>3. [x EXCEPT !.stage = @ + 1, !.recorded = {}] = [x EXCEPT !.stage = m, !.recorded = {}]
      BY <1>7, <1>8
    <3> QED BY <3>2, <3>3
  <2>2. IF x.stage = 0 \/ (Cardinality(k) >= Required[x.stage] /\ x.stage >= Stages)
        THEN Begin(h, r, v, Closed(x, "approved"), {}, Consuming(x) \o Update)
        ELSE Begin(h, r, v, IF Cardinality(k) < Required[x.stage]
                            THEN [x EXCEPT !.recorded = k]
                            ELSE [x EXCEPT !.stage = @ + 1, !.recorded = {}], {}, Update)
    <3>1. x.recorded = v.recorded BY <1>2, <1>4 DEF Request
    <3> QED BY <1>1, <1>4, <1>5, <3>1, Zenon DEF Approve
  <2> QED BY <2>1, <2>2, Zenon
<1>10. CASE Begin(h, r, v, Closed(x, "approved"), {}, Consuming(v) \o Update)
  <2>1. PICK w : w = Closed(x, "approved") OBVIOUS
  <2>2. w \in Request /\ w.status = "approved" /\ w.reservation = 0 /\ w.consumption = 0
    <3>1. "approved" \in Statuses BY DEF Statuses
    <3> QED BY <1>7, <2>1, <3>1, RecordsTyped
  <2>3. PICK b : b = Releasing(v) OBVIOUS
  <2>4. PICK td : td = ((b \o <<"open", "cover", "consume">>) \o Recount) \o Update OBVIOUS
  <2>5. /\ b = <<>> \/ b = <<"release">> \o Recount
        /\ v.reservation = 0 => b = <<>>
    BY <2>3, GivingBack
  <2>6. /\ Shape(td)
        /\ b = <<>> =>
             Range(td) = {"open", "cover", "consume", "sum", "store", "check", "save"}
        /\ b = <<"release">> \o Recount =>
             Range(td) = {"release", "open", "cover", "consume", "sum", "store", "check", "save"}
    BY <2>4, <2>5, ApproveList
  <2>7. Begin(h, r, v, w, {}, td) BY <1>10, <2>1, <2>3, <2>4 DEF Consuming
  <2> HIDE DEF Recount
  <2>8. /\ Range(td) \cap RunOnly = {} /\ "reverse" \notin Range(td)
        /\ "reserve" \notin Range(td) /\ "consume" \in Range(td)
        /\ "release" \in Range(td) => v.reservation # 0
    BY <2>5, <2>6 DEF RunOnly
  <2>9. SaneTask(td, r, v, w, {}) BY <1>1, <2>2, <2>6, <2>8, RequestTask
  <2> QED BY <1>2, <1>3, <2>2, <2>7, <2>9, BeginKeeps
<1>11. ASSUME NEW w \in Request, w.status = "submitted", w.consumption = 0, w.days = v.days,
              w.reservation = v.reservation, Begin(h, r, v, w, {}, Update)
       PROVE  Core'
  <2>1. SaneTask(Update, r, v, w, {})
    BY <1>1, <1>11, UpdateOnly, RequestTask DEF RunOnly
  <2> QED BY <1>2, <1>3, <1>11, <2>1, BeginKeeps
<1>12. CASE Begin(h, r, v, [x EXCEPT !.recorded = k], {}, Update)
  <2>1. PICK w : w = [x EXCEPT !.recorded = k] OBVIOUS
  <2>2. w \in Request /\ w.status = "submitted" /\ w.consumption = 0 /\ w.days = v.days
        /\ w.reservation = v.reservation
    BY <1>6, <1>7, <2>1 DEF Request
  <2> QED BY <1>11, <1>12, <2>1, <2>2
<1>13. CASE Begin(h, r, v, [x EXCEPT !.stage = m, !.recorded = {}], {}, Update)
  <2>1. PICK w : w = [x EXCEPT !.stage = m, !.recorded = {}] OBVIOUS
  <2>2. w \in Request /\ w.status = "submitted" /\ w.consumption = 0 /\ w.days = v.days
        /\ w.reservation = v.reservation
    <3>1. {} \in SUBSET Users OBVIOUS
    <3> QED BY <1>8, <1>7, <2>1, <3>1 DEF Request
  <2> QED BY <1>11, <1>13, <2>1, <2>2
<1> QED BY <1>9, <1>10, <1>12, <1>13

\* ExecuteRun: an accrual run is about no request.
LEMMA RunKeeps ==
  ASSUME Core, NEW h \in Handlers, NEW g \in Runs, ExecuteRun(h, g)
  PROVE  Core'
<1>1. PICK t : t = IF RunMode[g] = "annual_grant" THEN <<"turn">> ELSE <<>> OBVIOUS
<1>2. PICK b : b = IF Grant > 0 THEN <<"grant">> \o Recount ELSE <<>> OBVIOUS
<1>3. PICK td : td = ((<<"open">> \o t) \o b) \o <<"complete">> OBVIOUS
<1>4. Begin(h, NoRequest, NoRecord, NoRecord, {g}, td)
  BY <1>1, <1>2, <1>3 DEF ExecuteRun
<1>5. t = <<>> \/ t = <<"turn">> BY <1>1
<1>6. b = <<>> \/ b = <<"grant">> \o Recount BY <1>2, Zenon
<1>7. Shape(td) /\ Range(td) \subseteq {"open", "turn", "grant", "sum", "store", "complete"}
  BY <1>3, <1>5, <1>6, RunList
<1>8. SaneTask(td, NoRequest, NoRecord, NoRecord, {g})
  BY <1>7 DEF SaneTask, RunSteps, NoRecord
<1>9. NoRecord \in Request /\ {g} \in SUBSET Runs /\ NoRequest \in Requests \cup {NoRequest}
  BY IdleSane
<1> QED BY <1>4, <1>8, <1>9, BeginKeeps

\* Initially nothing is asked for.
LEMMA CoreInit == Init => Core
<1> SUFFICES ASSUME Init PROVE Core OBVIOUS
<1>1. NoRecord \in Request /\ NoAccount \in Account
      /\ SaneTask(<<>>, NoRequest, NoRecord, NoRecord, {})
  BY IdleSane
<1>2. <<>> \in Seq(Steps) BY Phrases
<1>3. ledger \in Seq(Entry)
  <2>1. PICK e : e = [type |-> "opening", days |-> Opening, carry |-> 0, date |-> Today,
                      request |-> NoRequest]
    OBVIOUS
  <2>2. e \in Entry
    <3>1. Opening \in Int /\ Today \in Nat BY LeaveAssumption
    <3> QED BY <2>1, <3>1 DEF Entry, Types, Credits
  <2>3. <<e>> \in Seq(Entry) /\ <<>> \in Seq(Entry) BY <2>2, EmptySeq
  <2> QED BY <2>1, <2>3 DEF Init
<1>4. account \in Account
  <2>1. PICK n \in Nat : n = IF Opening > 0 THEN 2 ELSE 1 OBVIOUS
  <2>2. Opening \in Int BY LeaveAssumption
  <2> QED BY <1>1, <2>1, <2>2 DEF Init, Account
<1>5. TypeOK
  <2>1. MaxOps \in Nat /\ MaxUpsets \in Nat BY LeaveAssumption
  <2> QED BY <1>1, <1>2, <1>3, <1>4, <2>1 DEF Init, TypeOK
<1>6. Sane BY <1>1 DEF Init, Sane
<1>7. RequestsNameTheirEntries BY DEF Init, RequestsNameTheirEntries, NoRecord
<1> QED BY <1>5, <1>6, <1>7 DEF Core

\* Every step keeps the invariant.
LEMMA CoreNext == Core /\ [Next]_vars => Core'
<1> SUFFICES ASSUME Core, [Next]_vars PROVE Core' OBVIOUS
<1>1. CASE UNCHANGED vars
  BY <1>1 DEF vars, Core, TypeOK, Sane, SaneTask, Holds, Is, RequestsNameTheirEntries
<1>2. ASSUME NEW r \in Requests, NEW n \in Days, NEW start \in Dates, Create(r, n, start)
      PROVE  Core'
  BY <1>2, CreateKeeps
<1>3. ASSUME NEW h \in Handlers, NEW r \in Requests, Submit(h, r) PROVE Core'
  BY <1>3, DraftKeeps
<1>4. ASSUME NEW h \in Handlers, NEW r \in Requests, Cancel(h, r) PROVE Core'
  BY <1>4, CloseKeeps
<1>5. ASSUME NEW h \in Handlers, NEW r \in Requests, NEW n \in NewDays, NEW start \in Dates,
             Edit(h, r, n, start) \/ Amend(h, r, n, start)
      PROVE  Core'
  BY <1>5, DraftKeeps, AmendKeeps
<1>6. ASSUME NEW h \in Handlers, NEW r \in Requests, NEW u \in Users,
             Approve(h, r, u) \/ Reject(h, r, u)
      PROVE  Core'
  BY <1>6, ApproveKeeps, CloseKeeps
<1>7. ASSUME NEW h \in Handlers, NEW g \in Runs, ExecuteRun(h, g) PROVE Core'
  BY <1>7, RunKeeps
<1>8. ASSUME NEW h \in Handlers, Preflight(h) \/ Check(h) \/ Cover(h) \/ Reread(h) \/ Sum(h)
                                 \/ Store(h)
      PROVE  Core'
  BY <1>8, QuietActions
<1>9. ASSUME NEW h \in Handlers, StoreRefused(h) \/ Fail(h) PROVE Core'
  BY <1>9, StopKeeps DEF StoreRefused
<1>10. ASSUME NEW h \in Handlers, Open(h) \/ Insert(h) \/ Reserve(h) \/ Consume(h) \/ Turn(h)
                                  \/ Save(h) \/ Complete(h)
       PROVE  Core'
  BY <1>10, OpenKeeps, InsertKeeps, ReserveKeeps, ConsumeKeeps, TurnKeeps, SaveKeeps,
     CompleteKeeps
<1>11. CASE Next
  BY <1>11, <1>2, <1>3, <1>4, <1>5, <1>6, <1>7, <1>8, <1>9, <1>10 DEF Next
<1> QED BY <1>1, <1>11

\* What handlers still have to do agrees with what they work on, whatever
\* overlaps, is lost or fails.
THEOREM CoreInvariance == Spec => []Core
BY CoreInit, CoreNext, PTL DEF Spec

\* Types: a recomputed account is one, entries are appended and never removed.
THEOREM TypeCorrect == Spec => []TypeOK
<1>1. Core => TypeOK BY DEF Core
<1> QED BY <1>1, CoreInvariance, PTL

\* Every approved leave is charged by an entry for its days, and a reservation
\* that a request holds is its own, under every interleaving and failure.
THEOREM EntriesNamed == Spec => []RequestsNameTheirEntries
<1>1. Core => RequestsNameTheirEntries BY DEF Core
<1> QED BY <1>1, CoreInvariance, PTL

-----------------------------------------------------------------------------
(***************************************************************************)
(* The order in which a clean history is kept: what a request holds or is  *)
(* charged for is found among the entries, and the account says what the   *)
(* entries do, unless the statement that makes it so is still to come.     *)
(* It holds as long as operations run alone and to their end and all       *)
(* entries fit on the one page that a recomputation lists.                 *)
(***************************************************************************)

\* What is reserved, charged, left and carried forward, by all entries.
Reserved == Total({"reservation"}) - Total({"release"})
Consumed == Total({"consumption"}) - Total({"reversal"})
Balance  == Total(Credits) - Total(Debits)
Carry    == SumFunctionOnSet(EntryCarry, DOMAIN ledger)

\* The days that a request holds reserved, and those it is charged for.
Held(v) == IF v.reservation # 0 THEN v.days ELSE 0
Used(v) == IF v.consumption # 0 THEN v.days ELSE 0

\* The same for a request that is worked on: what is not given back yet, or what
\* the record says that will be saved.
HeldBy(td, v, w) == IF "release" \in Range(td) THEN v.days ELSE Held(w)
UsedBy(td, v, w) == IF "reverse" \in Range(td) THEN v.days ELSE Used(w)

\* What the requests in the table hold, and what they are charged for.
HeldRows == [q \in Requests |-> Held(request[q])]
UsedRows == [q \in Requests |-> Used(request[q])]

\* The sum of the rows, with n for the request that is worked on.
SumWith(f, r, n) == SumFunctionOnSet([q \in Requests |-> IF q = r THEN n ELSE f[q]], Requests)

\* The entries reserve and charge what the requests say.
Books(td, r, v, w) ==
  /\ Reserved = SumWith(HeldRows, r, HeldBy(td, v, w))
  /\ Consumed = SumWith(UsedRows, r, UsedBy(td, v, w))

\* The record in the table is the one that was read, or the one that was saved.
Read(td, r, v, w) ==
  /\ r # NoRequest => /\ request[r].version = w.version
                      /\ request[r].status # "none" /\ w.status # "none"
  /\ r # NoRequest /\ (\/ Range(td) \cap {"preflight", "release", "reverse"} # {}
                       \/ "reserve" \in Range(td) /\ v.status = "draft") => request[r] = v
  /\ "open" \in Range(td) /\ v.status = "draft" => Head(td) = "open"
  /\ "preflight" \in Range(td) =>
       /\ w.days > 0 /\ "reserve" \in Range(td) /\ v.status # "draft"
       /\ "release" \in Range(td) <=> v.reservation # 0
       /\ "reverse" \in Range(td) <=> v.consumption # 0
  /\ "release" \in Range(td) => w.reservation = 0
  /\ "reverse" \in Range(td) => w.consumption = 0
  /\ "consume" \in Range(td) => w.days = v.days /\ w.consumption = 0

\* What an account says of the entries.
Summed(a) == a.current = Balance /\ a.reserved = Positive(Reserved) /\ a.carry = Positive(Carry)

\* The account is behind the entries only between an entry and its recomputation.
Recounted(td, a) ==
  /\ td = <<>> \/ Head(td) \notin {"sum", "store"} => Summed(account)
  /\ td # <<>> /\ Head(td) = "store" =>
       /\ Summed(a) /\ a.version = account.version
       /\ "open" \in Range(td) => a.expiry \in {0, account.expiry}
  /\ td # <<>> /\ Head(td) \in {"reserve", "turn", "expire"} => a = account

\* The candidates of a stage who approved the request as it is, and the stages
\* that they have passed.
Approvers(v, s) == {u \in Candidates[s] : <<s, u>> \in v.by}
Passed(v, n) == \A s \in 1..n : Cardinality(Approvers(v, s)) >= Required[s]

\* A submitted request has its days reserved and is at the stage after those
\* that are passed, an approved one has passed all of them.
Proper(v) ==
  /\ v.status = "submitted" =>
       /\ v.reservation # 0
       /\ IF Stages = 0 THEN v.stage = 0
          ELSE /\ v.stage \in 1..Stages /\ Passed(v, v.stage - 1)
               /\ v.recorded \subseteq Approvers(v, v.stage)
  /\ v.status = "approved" => Passed(v, Stages)

\* All requests are proper but the one that an amendment has saved and is about
\* to submit again.
Rows(td, r, v, w) ==
  /\ \A q \in Requests : \/ Proper(request[q])
                         \/ /\ q = r /\ "preflight" \notin Range(td)
                            /\ request[q].status # "approved"
                            /\ "reserve" \in Range(td) => v.status # "draft"
  /\ r # NoRequest /\ "reserve" \notin Range(td) => Proper(w)

\* What an amendment will still give back, and what will expire before that.
Back(td, v)  == IF "reverse" \in Range(td) THEN v.days ELSE 0
Freed(td, v) == IF "release" \in Range(td) THEN v.days ELSE 0
Spent(td, v, w) ==
  IF \/ "expire" \in Range(td)
     \/ "open" \in Range(td) /\ account.expiry # 0 /\ w.start > account.expiry
  THEN Positive(Carry - (IF "reverse" \in Range(td) THEN ledger[v.consumption].carry ELSE 0))
  ELSE 0

\* An amendment that has passed its preflight finds the days it reserves.
Covered(td, v, w) ==
  "reserve" \in Range(td) /\ v.status # "draft" /\ "preflight" \notin Range(td) =>
    Balance + Back(td, v) - Spent(td, v, w) - Positive(Reserved - Freed(td, v)) >= w.days

\* As long as nothing expired, what is reserved is there, and what is released
\* to be consumed as well.
Solvent(td, w) ==
  (\A i \in DOMAIN ledger : ledger[i].type # "expiry") =>
    /\ Positive(Reserved) <= Balance
    /\ "consume" \in Range(td) /\ "release" \notin Range(td) =>
         Positive(Reserved) + w.days <= Balance

\* All of it, for one handler that works.
Fine(td, r, v, w, a) ==
  /\ Read(td, r, v, w) /\ Books(td, r, v, w) /\ Recounted(td, a) /\ Rows(td, r, v, w)
  /\ Covered(td, v, w) /\ Solvent(td, w)

\* Nobody is at work, or handler h alone is.
Calm == Fine(<<>>, NoRequest, NoRecord, NoRecord, NoAccount)
Works(h) ==
  /\ todo[h] # <<>> /\ \A k \in Handlers \ {h} : todo[k] = <<>>
  /\ Fine(todo[h], target[h], old[h], copy[h], acct[h])

\* The invariant: a clean history is in order.
Order ==
  clean /\ Len(ledger) <= PageSize => (Quiet /\ Calm) \/ \E h \in Handlers : Works(h)

-----------------------------------------------------------------------------
(* PROOFS: what entries add up to *)

\* A ledger that fits on one page is listed as a whole.
LEMMA OnePage ==
  ASSUME TypeOK, Len(ledger) <= PageSize
  PROVE  Listed = DOMAIN ledger
<1>1. ledger \in Seq(Entry) BY DEF TypeOK
<1>2. DOMAIN ledger = 1..Len(ledger) /\ Len(ledger) \in Nat BY <1>1, LenProperties
<1>3. IsFiniteSet(DOMAIN ledger) /\ Cardinality(DOMAIN ledger) = Len(ledger)
  <2>1. PICK n \in Nat : n = Len(ledger) BY <1>2
  <2>2. IsFiniteSet(1..n) /\ Cardinality(1..n) = IF 1 > n THEN 0 ELSE n - 1 + 1
    BY FS_Interval
  <2> QED BY <1>2, <2>1, <2>2
<1>4. ASSUME NEW j \in DOMAIN ledger
      PROVE  Cardinality({i \in DOMAIN ledger : Before(i, j)}) < PageSize
  <2> DEFINE B == {i \in DOMAIN ledger : Before(i, j)}  R == DOMAIN ledger \ {j}
  <2>1. ledger[j].date \in Nat /\ j \in Nat
    <3>1. ledger[j] \in Entry /\ j \in 1..Len(ledger) BY <1>1, <1>2, LenProperties
    <3> QED BY <3>1 DEF Entry
  <2>2. ~Before(j, j) BY <2>1 DEF Before
  <2>3. B \subseteq R BY <2>2
  <2>4. IsFiniteSet(R) /\ Cardinality(R) = Len(ledger) - 1 BY <1>3, FS_RemoveElement
  <2> HIDE DEF B, R
  <2>5. IsFiniteSet(B) /\ Cardinality(B) <= Cardinality(R) BY <2>3, <2>4, FS_Subset
  <2>6. Cardinality(B) \in Nat BY <2>5, FS_CardinalityType
  <2>7. PageSize \in Nat BY LeaveAssumption
  <2>8. Cardinality(B) < PageSize BY <1>2, <2>4, <2>5, <2>6, <2>7
  <2> QED BY <2>8 DEF B
<1> QED BY <1>4 DEF Listed

\* The sums are integers.
LEMMA TotalsTyped ==
  ASSUME TypeOK
  PROVE  /\ \A types : Total(types) \in Int
         /\ Reserved \in Int /\ Consumed \in Int /\ Balance \in Int /\ Carry \in Int
         /\ IsFiniteSet(DOMAIN ledger)
         /\ \A i \in DOMAIN ledger : EntryDays[i] \in Int /\ EntryCarry[i] \in Int
<1>1. IsFiniteSet(DOMAIN ledger) BY SumsTyped
<1>2. \A i \in DOMAIN ledger : EntryDays[i] \in Int /\ EntryCarry[i] \in Int
  <2>1. \A i \in DOMAIN ledger : ledger[i] \in Entry
    <3>1. ledger \in Seq(Entry) BY DEF TypeOK
    <3> QED BY <3>1, LenProperties
  <2> QED BY <2>1 DEF EntryDays, EntryCarry, Entry
<1>3. ASSUME NEW types PROVE Total(types) \in Int
  <2> DEFINE S == {i \in DOMAIN ledger : ledger[i].type \in types}
  <2>1. IsFiniteSet(S) BY <1>1, FS_Subset
  <2>2. \A i \in S : EntryDays[i] \in Int BY <1>2
  <2> HIDE DEF S
  <2>3. SumFunctionOnSet(EntryDays, S) \in Int BY <2>1, <2>2, SumTakeOut
  <2> QED BY <2>3 DEF Total, S
<1>4. SumFunctionOnSet(EntryCarry, DOMAIN ledger) \in Int BY <1>1, <1>2, SumTakeOut
<1>5. /\ Total({"reservation"}) \in Int /\ Total({"release"}) \in Int
      /\ Total({"consumption"}) \in Int /\ Total({"reversal"}) \in Int
      /\ Total(Credits) \in Int /\ Total(Debits) \in Int
  BY <1>3
<1>6. Reserved \in Int /\ Consumed \in Int /\ Balance \in Int
  BY <1>5 DEF Reserved, Consumed, Balance
<1> QED BY <1>1, <1>2, <1>3, <1>4, <1>6 DEF Carry

\* What one entry adds to a sum.
LEMMA TotalAdded ==
  ASSUME TypeOK, NEW e \in Entry, ledger' = Append(ledger, e)
  PROVE  /\ \A types : Total(types)' = Total(types) + (IF e.type \in types THEN e.days ELSE 0)
         /\ Carry' = Carry + e.carry
<1> DEFINE k == Len(ledger) + 1  D == DOMAIN ledger
<1>1. /\ k \in DOMAIN ledger' /\ ledger'[k] = e /\ DOMAIN ledger' = D \cup {k} /\ k \notin D
      /\ \A i \in D : ledger'[i] = ledger[i]
  BY EntryAdded DEF Keeps
<1>2. IsFiniteSet(D) /\ \A i \in D : EntryDays[i] \in Int /\ EntryCarry[i] \in Int
  BY TotalsTyped
<1>3. /\ \A i \in D : EntryDays'[i] = EntryDays[i] /\ EntryCarry'[i] = EntryCarry[i]
      /\ EntryDays'[k] = e.days /\ EntryCarry'[k] = e.carry
  BY <1>1 DEF EntryDays, EntryCarry
<1>4. e.days \in Int /\ e.carry \in Int BY DEF Entry
<1> HIDE DEF k, D
<1>5. PICK f, g, f2, g2 : f = EntryDays /\ g = EntryCarry /\ f2 = EntryDays' /\ g2 = EntryCarry'
  OBVIOUS
<1>6. ASSUME NEW S, S \subseteq D
      PROVE  /\ SumFunctionOnSet(f2, S) = SumFunctionOnSet(f, S)
             /\ SumFunctionOnSet(g2, S) = SumFunctionOnSet(g, S)
             /\ SumFunctionOnSet(f2, S \cup {k}) = SumFunctionOnSet(f, S) + e.days
             /\ SumFunctionOnSet(g2, S \cup {k}) = SumFunctionOnSet(g, S) + e.carry
  <2>1. IsFiniteSet(S) BY <1>2, <1>6, FS_Subset
  <2>2. \A i \in S : f2[i] = f[i] /\ g2[i] = g[i] /\ f2[i] \in Int /\ g2[i] \in Int
    BY <1>2, <1>3, <1>5, <1>6
  <2>3. /\ SumFunctionOnSet(f2, S) = SumFunctionOnSet(f, S)
        /\ SumFunctionOnSet(g2, S) = SumFunctionOnSet(g, S)
    BY <2>1, <2>2, SumSame
  <2>4. k \notin S /\ f2[k] = e.days /\ g2[k] = e.carry BY <1>1, <1>3, <1>5, <1>6
  <2>5. SumFunctionOnSet(f2, S \cup {k}) = SumFunctionOnSet(f2, S) + f2[k]
    BY <1>4, <2>1, <2>2, <2>4, SumAdd
  <2>6. SumFunctionOnSet(g2, S \cup {k}) = SumFunctionOnSet(g2, S) + g2[k]
    BY <1>4, <2>1, <2>2, <2>4, SumAdd
  <2> QED BY <2>3, <2>4, <2>5, <2>6
<1>7. ASSUME NEW types
      PROVE  Total(types)' = Total(types) + (IF e.type \in types THEN e.days ELSE 0)
  <2> DEFINE S == {i \in D : ledger[i].type \in types}
             S2 == {i \in DOMAIN ledger' : ledger'[i].type \in types}
  <2>1. S \subseteq D OBVIOUS
  <2>2. S2 = IF e.type \in types THEN S \cup {k} ELSE S BY <1>1
  <2>3. Total(types) = SumFunctionOnSet(f, S) /\ Total(types)' = SumFunctionOnSet(f2, S2)
    BY <1>5 DEF Total, D
  <2> HIDE DEF S, S2
  <2>4. /\ SumFunctionOnSet(f2, S) = SumFunctionOnSet(f, S)
        /\ SumFunctionOnSet(f2, S \cup {k}) = SumFunctionOnSet(f, S) + e.days
    BY <1>6, <2>1
  <2>5. SumFunctionOnSet(f, S) \in Int
    <3>1. Total(types) \in Int BY TotalsTyped
    <3> QED BY <2>3, <3>1
  <2> QED BY <1>4, <2>2, <2>3, <2>4, <2>5
<1>8. Carry' = Carry + e.carry
  <2>1. Carry = SumFunctionOnSet(g, D) /\ Carry' = SumFunctionOnSet(g2, D \cup {k})
    BY <1>1, <1>5 DEF Carry, D
  <2> QED BY <1>6, <2>1
<1> QED BY <1>7, <1>8

\* What one entry adds to what is reserved, charged and left.
LEMMA EntryCounts ==
  ASSUME TypeOK, NEW e \in Entry, ledger' = Append(ledger, e)
  PROVE  /\ Reserved' = Reserved + (IF e.type = "reservation" THEN e.days
                                    ELSE IF e.type = "release" THEN -e.days ELSE 0)
         /\ Consumed' = Consumed + (IF e.type = "consumption" THEN e.days
                                    ELSE IF e.type = "reversal" THEN -e.days ELSE 0)
         /\ Balance' = Balance + (IF e.type \in Credits THEN e.days
                                  ELSE IF e.type \in Debits THEN -e.days ELSE 0)
         /\ Carry' = Carry + e.carry
         /\ e.days \in Int /\ e.carry \in Int
<1>1. /\ \A types : Total(types)' = Total(types) + (IF e.type \in types THEN e.days ELSE 0)
      /\ Carry' = Carry + e.carry
  BY TotalAdded
<1>2. \A types : Total(types) \in Int BY TotalsTyped
<1>3. e.days \in Int /\ e.carry \in Int BY DEF Entry
<1>4. PICK n \in Int : n = e.days BY <1>3
<1>5. ASSUME NEW s, NEW t, e.type \in s => e.type \notin t
      PROVE  Total(s)' - Total(t)' = (Total(s) - Total(t)) + (IF e.type \in s THEN e.days
                                                   ELSE IF e.type \in t THEN -e.days ELSE 0)
  <2>1. PICK x \in Int, y \in Int : x = Total(s) /\ y = Total(t) BY <1>2
  <2>2. /\ Total(s)' = x + (IF e.type \in s THEN n ELSE 0)
        /\ Total(t)' = y + (IF e.type \in t THEN n ELSE 0)
    BY <1>1, <1>4, <2>1
  <2>3. PICK x2, y2 : x2 = Total(s)' /\ y2 = Total(t)' OBVIOUS
  <2>4. /\ x2 = x + (IF e.type \in s THEN n ELSE 0)
        /\ y2 = y + (IF e.type \in t THEN n ELSE 0)
    BY <2>2, <2>3
  <2>5. x2 - y2 = (x - y) + (IF e.type \in s THEN n ELSE IF e.type \in t THEN -n ELSE 0)
    BY <1>5, <2>4
  <2> QED BY <1>4, <2>1, <2>3, <2>5
<1>6. Reserved' = Reserved + (IF e.type = "reservation" THEN e.days
                              ELSE IF e.type = "release" THEN -e.days ELSE 0)
  <2>1. Total({"reservation"})' - Total({"release"})' =
          (Total({"reservation"}) - Total({"release"}))
            + (IF e.type \in {"reservation"} THEN e.days
               ELSE IF e.type \in {"release"} THEN -e.days ELSE 0)
    BY <1>5
  <2> QED BY <2>1 DEF Reserved
<1>7. Consumed' = Consumed + (IF e.type = "consumption" THEN e.days
                              ELSE IF e.type = "reversal" THEN -e.days ELSE 0)
  <2>1. Total({"consumption"})' - Total({"reversal"})' =
          (Total({"consumption"}) - Total({"reversal"}))
            + (IF e.type \in {"consumption"} THEN e.days
               ELSE IF e.type \in {"reversal"} THEN -e.days ELSE 0)
    BY <1>5
  <2> QED BY <2>1 DEF Consumed
<1>8. Balance' = Balance + (IF e.type \in Credits THEN e.days
                            ELSE IF e.type \in Debits THEN -e.days ELSE 0)
  <2>1. e.type \in Credits => e.type \notin Debits BY DEF Credits, Debits
  <2>2. Credits' = Credits /\ Debits' = Debits BY DEF Credits, Debits
  <2> QED BY <1>5, <2>1, <2>2 DEF Balance
<1> QED BY <1>1, <1>3, <1>6, <1>7, <1>8

\* On one page, an account that is recomputed says what the entries do.
LEMMA RecomputeSums ==
  ASSUME TypeOK, Len(ledger) <= PageSize, NEW a \in Account
  PROVE  /\ Summed(Recompute(a)) /\ Recompute(a).version = a.version
         /\ Recompute(a).expiry \in {0, a.expiry}
<1>1. Listed = DOMAIN ledger BY OnePage
<1>2. \A types : DaysOf(types) = Total(types) BY <1>1 DEF DaysOf, Total
<1>3. SumFunctionOnSet(EntryCarry, Listed) = Carry BY <1>1 DEF Carry
<1>4. PICK x, y, z, c : /\ x = DaysOf(Credits) - DaysOf(Debits)
                        /\ y = Positive(DaysOf({"reservation"}) - DaysOf({"release"}))
                        /\ z = Positive(Carry) /\ c = Carry
  OBVIOUS
<1>5. x = Balance /\ y = Positive(Reserved)
  BY <1>2, <1>4 DEF Balance, Reserved
<1>6. Recompute(a) = [a EXCEPT !.current = x, !.reserved = y, !.carry = z,
                               !.expiry = IF c <= 0 THEN 0 ELSE @]
  BY <1>3, <1>4 DEF Recompute
<1>7. PICK b : b = [a EXCEPT !.current = x, !.reserved = y, !.carry = z,
                             !.expiry = IF c <= 0 THEN 0 ELSE @]
  OBVIOUS
<1>8. /\ b.current = x /\ b.reserved = y /\ b.carry = z /\ b.version = a.version
      /\ b.expiry \in {0, a.expiry}
  BY <1>7 DEF Account
<1> QED BY <1>4, <1>5, <1>6, <1>7, <1>8 DEF Summed

-----------------------------------------------------------------------------
(* PROOFS: sums over the requests *)

\* The sum of the rows, and what the request that is worked on adds to it.
LEMMA SumWithAdds ==
  ASSUME NEW f \in [Requests -> Nat], NEW r \in Requests, NEW n \in Nat
  PROVE  /\ SumWith(f, r, 0) \in Nat /\ SumWith(f, r, n) = SumWith(f, r, 0) + n
         /\ SumWith(f, r, f[r]) = SumFunctionOnSet(f, Requests)
<1> DEFINE g(x) == [q \in Requests |-> IF q = r THEN x ELSE f[q]]
<1>1. IsFiniteSet(Requests) BY LeaveAssumption
<1>2. \A x : g(x)[r] = x /\ \A q \in Requests : q # r => g(x)[q] = f[q] OBVIOUS
<1>3. \A x \in Nat : \A q \in Requests : g(x)[q] \in Nat /\ g(x)[q] \in Int OBVIOUS
<1>4. g(f[r]) = f OBVIOUS
<1> HIDE DEF g
<1>5. PICK a, b : a = g(0) /\ b = g(n) OBVIOUS
<1>6. SumFunctionOnSet(a, Requests) \in Nat
  <2>1. \A q \in Requests : a[q] \in Nat BY <1>3, <1>5
  <2> QED BY <1>1, <2>1, SumNat
<1>7. SumFunctionOnSet(b, Requests) = SumFunctionOnSet(a, Requests) - a[r] + b[r]
  <2>1. /\ \A q \in Requests : a[q] \in Int
        /\ b[r] \in Int /\ \A q \in Requests : r # q => b[q] = a[q]
    BY <1>2, <1>3, <1>5
  <2> QED BY <1>1, <2>1, SumUpdate
<1>8. a[r] = 0 /\ b[r] = n BY <1>2, <1>5
<1>9. /\ SumWith(f, r, 0) = SumFunctionOnSet(a, Requests)
      /\ SumWith(f, r, n) = SumFunctionOnSet(b, Requests)
      /\ SumWith(f, r, f[r]) = SumFunctionOnSet(f, Requests)
  BY <1>4, <1>5 DEF SumWith, g
<1> QED BY <1>6, <1>7, <1>8, <1>9

\* No request is worked on.
LEMMA SumWithNone ==
  ASSUME NEW f \in [Requests -> Nat], NEW n
  PROVE  SumWith(f, NoRequest, n) = SumFunctionOnSet(f, Requests)
<1>1. \A q \in Requests : q # NoRequest BY LeaveAssumption
<1>2. [q \in Requests |-> IF q = NoRequest THEN n ELSE f[q]] = f BY <1>1
<1> QED BY <1>2 DEF SumWith

\* The row of the request that is worked on does not count.
LEMMA SumWithOthers ==
  ASSUME NEW f, NEW g, NEW r, NEW n, \A q \in Requests : q # r => g[q] = f[q]
  PROVE  SumWith(g, r, n) = SumWith(f, r, n)
<1>1. [q \in Requests |-> IF q = r THEN n ELSE g[q]] =
        [q \in Requests |-> IF q = r THEN n ELSE f[q]]
  OBVIOUS
<1> QED BY <1>1 DEF SumWith

\* What records hold and use are days.
LEMMA RowsTyped ==
  ASSUME TypeOK
  PROVE  /\ \A v \in Request : Held(v) \in Nat /\ Used(v) \in Nat /\ v.days \in Nat
         /\ HeldRows \in [Requests -> Nat] /\ UsedRows \in [Requests -> Nat]
         /\ \A q \in Requests : /\ request[q] \in Request /\ q # NoRequest
                                /\ HeldRows[q] = Held(request[q])
                                /\ UsedRows[q] = Used(request[q])
<1>1. \A v \in Request : Held(v) \in Nat /\ Used(v) \in Nat /\ v.days \in Nat
  BY DEF Request, Held, Used
<1>2. \A q \in Requests : request[q] \in Request /\ q # NoRequest
  BY LeaveAssumption DEF TypeOK
<1> QED BY <1>1, <1>2 DEF HeldRows, UsedRows

\* Sums of a ledger that is not changed.
LEMMA TotalsSame ==
  ASSUME ledger' = ledger
  PROVE  /\ Reserved' = Reserved /\ Consumed' = Consumed /\ Balance' = Balance
         /\ Carry' = Carry
         /\ \A types : Total(types)' = Total(types)
BY DEF Reserved, Consumed, Balance, Carry, Total, EntryDays, EntryCarry, Credits, Debits

\* Rows of requests that are not changed.
LEMMA RowsSame ==
  ASSUME request' = request
  PROVE  HeldRows' = HeldRows /\ UsedRows' = UsedRows
BY DEF HeldRows, UsedRows, Held, Used

\* Positive numbers.
LEMMA PositiveRules ==
  /\ \A n \in Int : Positive(n) \in Nat /\ Positive(n) >= n /\ (n >= 0 => Positive(n) = n)
  /\ \A m \in Int, n \in Int : m <= n => Positive(m) <= Positive(n)
  /\ \A m \in Int, n \in Nat : Positive(m + n) <= Positive(m) + n
  /\ Positive(0) = 0
BY DEF Positive

-----------------------------------------------------------------------------
(* PROOFS: what a step leaves in order *)

\* A state in which only other things differ.
LEMMA FineSame ==
  ASSUME UNCHANGED <<request, ledger, account>>, NEW td, NEW r, NEW v, NEW w, NEW a,
         Fine(td, r, v, w, a)
  PROVE  Fine(td, r, v, w, a)'
<1>1. request' = request /\ ledger' = ledger /\ account' = account OBVIOUS
<1>2. /\ Reserved' = Reserved /\ Consumed' = Consumed /\ Balance' = Balance
      /\ Carry' = Carry /\ HeldRows' = HeldRows /\ UsedRows' = UsedRows
  BY <1>1, TotalsSame, RowsSame
<1>3. Read(td, r, v, w)' BY <1>1 DEF Fine, Read
<1>4. Books(td, r, v, w)' BY <1>1, <1>2 DEF Fine, Books, SumWith, HeldBy, UsedBy, Held, Used
<1>5. Recounted(td, a)' BY <1>1, <1>2 DEF Fine, Recounted, Summed
<1>6. Rows(td, r, v, w)' BY <1>1 DEF Fine, Rows, Proper, Passed, Approvers
<1>7. Covered(td, v, w)' BY <1>1, <1>2 DEF Fine, Covered, Back, Spent, Freed
<1>8. Solvent(td, w)' BY <1>1, <1>2 DEF Fine, Solvent
<1> QED BY <1>3, <1>4, <1>5, <1>6, <1>7, <1>8 DEF Fine

\* Of the statements that give back, reserve and charge, the same are still to
\* be executed, and the preflight is not.
Passes(td, tl) ==
  /\ "preflight" \notin Range(tl)
  /\ "release" \in Range(tl) <=> "release" \in Range(td)
  /\ "reverse" \in Range(tl) <=> "reverse" \in Range(td)
  /\ "reserve" \in Range(tl) <=> "reserve" \in Range(td)
  /\ "consume" \in Range(tl) <=> "consume" \in Range(td)

\* A statement that writes no request.
LEMMA QuietRecords ==
  ASSUME request' = request, NEW td, NEW r, NEW v, NEW w, NEW a,
         Fine(td, r, v, w, a), NEW tl, Passes(td, tl),
         "open" \in Range(tl) => v.status # "draft"
  PROVE  Read(tl, r, v, w)' /\ Rows(tl, r, v, w)'
<1>1. Read(tl, r, v, w)' BY DEF Fine, Read, Passes
<1>2. Rows(tl, r, v, w)' BY DEF Fine, Rows, Proper, Passed, Approvers, Passes
<1> QED BY <1>1, <1>2

\* A statement that writes neither a request nor an entry.
LEMMA Quietly ==
  ASSUME request' = request, ledger' = ledger, NEW td, NEW r, NEW v, NEW w, NEW a,
         Fine(td, r, v, w, a), NEW tl, Passes(td, tl),
         "open" \in Range(tl) => v.status # "draft"
  PROVE  Read(tl, r, v, w)' /\ Books(tl, r, v, w)' /\ Rows(tl, r, v, w)' /\ Solvent(tl, w)'
<1>2. /\ Reserved' = Reserved /\ Consumed' = Consumed /\ Balance' = Balance
      /\ Carry' = Carry /\ HeldRows' = HeldRows /\ UsedRows' = UsedRows
  BY TotalsSame, RowsSame
<1>3. Read(tl, r, v, w)' /\ Rows(tl, r, v, w)' BY QuietRecords
<1>4. Books(tl, r, v, w)'
  <2>1. HeldBy(tl, v, w)' = HeldBy(td, v, w) /\ UsedBy(tl, v, w)' = UsedBy(td, v, w)
    BY DEF HeldBy, UsedBy, Held, Used, Passes
  <2> QED BY <1>2, <2>1 DEF Fine, Books, SumWith
<1>5. Solvent(tl, w)' BY <1>2 DEF Fine, Solvent, Passes
<1> QED BY <1>3, <1>4, <1>5

\* What was carried forward expires before the days are reserved again.
Drained(td, w, x) == "expire" \in Range(td) \/ ("open" \in Range(td) /\ x # 0 /\ w.start > x)

\* A statement that writes no entry leaves enough, unless more expires.
LEMMA CoveredStill ==
  ASSUME TypeOK, ledger' = ledger, NEW td, NEW v, NEW w \in Request, Covered(td, v, w),
         NEW tl, Passes(td, tl), "preflight" \notin Range(td),
         v.days \in Nat, "reverse" \in Range(td) => v.consumption \in DOMAIN ledger,
         "reserve" \in Range(td) /\ Drained(tl, w, account.expiry') => Drained(td, w, account.expiry)
  PROVE  Covered(tl, v, w)'
<1>1. Reserved' = Reserved /\ Balance' = Balance /\ Carry' = Carry BY TotalsSame
<1>2. /\ Back(tl, v)' = Back(td, v) /\ Freed(tl, v)' = Freed(td, v)
      /\ Back(td, v) \in Nat /\ Freed(td, v) \in Nat
  BY DEF Back, Freed, Passes
<1>3. PICK c : c = IF "reverse" \in Range(td) THEN ledger[v.consumption].carry ELSE 0 OBVIOUS
<1>4. c \in Int
  <2>1. "reverse" \in Range(td) => EntryCarry[v.consumption] \in Int BY TotalsTyped
  <2> QED BY <1>3, <2>1 DEF EntryCarry
<1>5. Carry \in Int /\ Balance \in Int /\ Reserved \in Int BY TotalsTyped
<1>6. PICK n : n = Positive(Carry - c) OBVIOUS
<1>7. n \in Nat BY <1>4, <1>5, <1>6, PositiveRules
<1>8. Spent(td, v, w) = (IF Drained(td, w, account.expiry) THEN n ELSE 0)
  BY <1>3, <1>6 DEF Spent, Drained
<1>9. Spent(tl, v, w)' = (IF Drained(tl, w, account.expiry') THEN n ELSE 0)
  BY <1>1, <1>3, <1>6 DEF Spent, Drained, Passes
<1>10. PICK s, t : s = Spent(td, v, w) /\ t = Spent(tl, v, w)' OBVIOUS
<1>12. PICK p : p = Positive(Reserved - Freed(td, v)) OBVIOUS
<1>13. p \in Nat BY <1>2, <1>5, <1>12, PositiveRules
<1>14. w.days \in Nat BY DEF Request
<1> SUFFICES ASSUME ("reserve" \in Range(tl) /\ v.status # "draft" /\ "preflight" \notin Range(tl))'
             PROVE  (Balance + Back(tl, v) - Spent(tl, v, w)
                       - Positive(Reserved - Freed(tl, v)) >= w.days)'
  BY DEF Covered
<1>11. s \in Nat /\ t \in Nat /\ t <= s
  <2>1. "reserve" \in Range(td) BY DEF Passes
  <2> QED BY <1>7, <1>8, <1>9, <1>10, <2>1
<1>15. PICK b, f : b = Balance /\ f = Back(td, v) OBVIOUS
<1>16. b \in Int /\ f \in Nat BY <1>2, <1>5, <1>15
<1>17. b + f - s - p >= w.days
  <2>1. "reserve" \in Range(td) /\ v.status # "draft" BY DEF Passes
  <2>2. Balance + Back(td, v) - Spent(td, v, w) - Positive(Reserved - Freed(td, v)) >= w.days
    BY <2>1 DEF Covered
  <2>3. Balance = b /\ Back(td, v) = f /\ Spent(td, v, w) = s BY <1>10, <1>15
  <2>4. Positive(Reserved - Freed(td, v)) = p BY <1>12
  <2>5. b + f - s - p >= w.days BY <2>2, <2>3, <2>4
  <2> QED BY <2>5
<1>18. b + f - t - p >= w.days
  <2>1. PICK d \in Nat : d = w.days BY <1>14
  <2> QED BY <1>11, <1>13, <1>16, <1>17, <2>1
<1> QED BY <1>1, <1>2, <1>10, <1>12, <1>15, <1>18

-----------------------------------------------------------------------------
(* PROOFS: handlers at work *)

\* All that is known of a handler that works alone, at statement s.
Task(h, s, td, tl, r, v, w, a, g) ==
  /\ td = todo[h] /\ tl = Tail(td) /\ r = target[h] /\ v = old[h] /\ w = copy[h]
  /\ a = acct[h] /\ g = run[h]
  /\ td # <<>> /\ Head(td) = s /\ Range(td) = Range(tl) \cup {s} /\ Shape(tl)
  /\ \A y \in Range(tl) : Precedes(s, y)
  /\ s \in Single => s \notin Range(tl)
  /\ tl # <<>> => Follows(s, Head(tl))
  /\ s \in Inner => tl # <<>>
  /\ "open" \in Range(tl) => v.status # "draft"
  /\ v \in Request /\ w \in Request /\ a \in Account /\ r \in Requests \cup {NoRequest}
  /\ SaneTask(td, r, v, w, g) /\ Fine(td, r, v, w, a)
  /\ s \notin RunSteps => r \in Requests /\ g = {}
  /\ s \in RunOnly => r = NoRequest

\* A handler at work has such a task.
LEMMA TaskKnown ==
  ASSUME Core, NEW h \in Handlers, Works(h), NEW s, At(h, s)
  PROVE  \E td, tl, r, v, w, a, g : Task(h, s, td, tl, r, v, w, a, g)
<1>1. PICK td, tl, r, v, w, a, g : /\ td = todo[h] /\ tl = Tail(td) /\ r = target[h] /\ v = old[h]
                                   /\ w = copy[h] /\ a = acct[h] /\ g = run[h]
  OBVIOUS
<1>2. /\ SaneTask(td, r, v, w, g) /\ td # <<>> /\ Head(td) = s /\ s \in Steps
      /\ Shape(tl) /\ Range(td) = Range(tl) \cup {s}
      /\ \A y \in Range(tl) : Precedes(s, y)
      /\ s \in Single => s \notin Range(tl)
      /\ tl # <<>> => Follows(s, Head(tl))
      /\ s \in Inner => tl # <<>>
      /\ s \notin RunSteps => r \in Requests /\ g = {}
      /\ s \in RunOnly => r = NoRequest
      /\ r \in Requests \cup {NoRequest} /\ v \in Request /\ w \in Request /\ a \in Account
  BY <1>1, AtStep
<1>3. Fine(td, r, v, w, a) BY <1>1 DEF Works
<1>4. "open" \in Range(tl) => v.status # "draft"
  <2> SUFFICES ASSUME "open" \in Range(tl), v.status = "draft" PROVE FALSE OBVIOUS
  <2>1. Head(td) = "open" BY <1>2, <1>3 DEF Fine, Read
  <2>2. "open" \in Single BY DEF Single, Steps
  <2> QED BY <1>2, <2>1, <2>2
<1> QED BY <1>1, <1>2, <1>3, <1>4 DEF Task

\* The statements that come before do not come after.
LEMMA TailPasses ==
  ASSUME NEW h, NEW s, NEW td, NEW tl, NEW r, NEW v, NEW w, NEW a, NEW g,
         Task(h, s, td, tl, r, v, w, a, g)
  PROVE  /\ "preflight" \notin Range(tl)
         /\ s \notin {"release", "reverse", "reserve", "consume"} => Passes(td, tl)
<1>1. "preflight" \notin Range(tl) BY DEF Task, Precedes, Counted, Opened, Saved
<1> QED BY <1>1 DEF Passes, Task

\* The handler goes on.
LEMMA WorksOn ==
  ASSUME NEW h \in Handlers, Works(h), Others(h), NEW td, NEW r, NEW v, NEW w, NEW a,
         todo'[h] = td, target'[h] = r, old'[h] = v, copy'[h] = w, acct'[h] = a,
         td # <<>>, Fine(td, r, v, w, a)'
  PROVE  Works(h)'
<1>1. Fine(todo[h], target[h], old[h], copy[h], acct[h])' OBVIOUS
<1> QED BY <1>1 DEF Works, Others

\* It is done, and nobody is at work.
LEMMA NobodyWorks ==
  ASSUME TypeOK, NEW h \in Handlers, Works(h), Done(h)
  PROVE  Quiet' /\ Others(h)
<1>1. todo'[h] = <<>> /\ Others(h) BY DEF Done, TypeOK, Others
<1> QED BY <1>1 DEF Quiet, Works, Others

\* A handler that continues with the rest of its statements.
LEMMA GoesOn ==
  ASSUME TypeOK, NEW h \in Handlers, Continue(h), target' = target, old' = old, run' = run,
         \A k \in Handlers : k # h => copy'[k] = copy[k]
  PROVE  todo'[h] = Tail(todo[h]) /\ Others(h)
BY DEF Continue, TypeOK, Others

\* What it means that everything is in order when nobody is at work.
Settled ==
  /\ Reserved = SumFunctionOnSet(HeldRows, Requests)
  /\ Consumed = SumFunctionOnSet(UsedRows, Requests)
  /\ Summed(account)
  /\ \A q \in Requests : Proper(request[q])
  /\ (\A i \in DOMAIN ledger : ledger[i].type # "expiry") => Positive(Reserved) <= Balance

\* It is the same, with no request that is worked on.
LEMMA CalmIsSettled ==
  ASSUME TypeOK
  PROVE  Calm <=> Settled
<1> DEFINE t == <<>>
<1>1. Range(t) = {} BY ShortLists
<1>2. HeldRows \in [Requests -> Nat] /\ UsedRows \in [Requests -> Nat]
      /\ \A q \in Requests : q # NoRequest
  BY RowsTyped
<1>3. PICK m, n : m = HeldBy(t, NoRecord, NoRecord) /\ n = UsedBy(t, NoRecord, NoRecord) OBVIOUS
<1>4. /\ SumWith(HeldRows, NoRequest, m) = SumFunctionOnSet(HeldRows, Requests)
      /\ SumWith(UsedRows, NoRequest, n) = SumFunctionOnSet(UsedRows, Requests)
  BY <1>2, SumWithNone
<1>5. Books(t, NoRequest, NoRecord, NoRecord) <=>
        /\ Reserved = SumFunctionOnSet(HeldRows, Requests)
        /\ Consumed = SumFunctionOnSet(UsedRows, Requests)
  BY <1>3, <1>4 DEF Books
<1>6. Read(t, NoRequest, NoRecord, NoRecord) BY <1>1 DEF Read
<1>7. Recounted(t, NoAccount) <=> Summed(account) BY DEF Recounted
<1>8. Rows(t, NoRequest, NoRecord, NoRecord) <=> \A q \in Requests : Proper(request[q])
  BY <1>2 DEF Rows
<1>9. Covered(t, NoRecord, NoRecord) BY <1>1 DEF Covered
<1>10. Solvent(t, NoRecord) <=>
         ((\A i \in DOMAIN ledger : ledger[i].type # "expiry") => Positive(Reserved) <= Balance)
  BY <1>1 DEF Solvent
<1>11. Calm <=> Fine(t, NoRequest, NoRecord, NoRecord, NoAccount) BY DEF Calm
<1> HIDE DEF t
<1> QED BY <1>5, <1>6, <1>7, <1>8, <1>9, <1>10, <1>11 DEF Fine, Settled

\* The account says what the entries do, except between an entry and its sum.
LEMMA SummedNow ==
  ASSUME NEW h, NEW s, NEW td, NEW tl, NEW r, NEW v, NEW w, NEW a, NEW g,
         Task(h, s, td, tl, r, v, w, a, g), s \notin {"sum", "store"}
  PROVE  Summed(account) /\ (s \in {"reserve", "turn", "expire"} => a = account)
BY DEF Task, Fine, Recounted

\* An operation that ends: nothing was changed, or all was given back.
LEMMA CalmDown ==
  ASSUME TypeOK, NEW h \in Handlers, Works(h), Done(h), UNCHANGED <<request, ledger, account>>,
         NEW td, NEW r \in Requests \cup {NoRequest}, NEW v, NEW w, NEW a, Fine(td, r, v, w, a),
         Summed(account), \A q \in Requests : Proper(request[q]),
         r \in Requests => /\ HeldBy(td, v, w) = Held(request[r])
                           /\ UsedBy(td, v, w) = Used(request[r])
  PROVE  Quiet' /\ Calm'
<1>1. /\ HeldRows \in [Requests -> Nat] /\ UsedRows \in [Requests -> Nat]
      /\ \A q \in Requests : HeldRows[q] = Held(request[q]) /\ UsedRows[q] = Used(request[q])
      /\ \A q \in Requests : request[q] \in Request
      /\ \A x \in Request : Held(x) \in Nat /\ Used(x) \in Nat
  BY RowsTyped
<1>2. PICK m, n : m = HeldBy(td, v, w) /\ n = UsedBy(td, v, w) OBVIOUS
<1>3. /\ SumWith(HeldRows, r, m) = SumFunctionOnSet(HeldRows, Requests)
      /\ SumWith(UsedRows, r, n) = SumFunctionOnSet(UsedRows, Requests)
  <2>1. CASE r \in Requests
    <3>1. m = HeldRows[r] /\ n = UsedRows[r] BY <1>1, <1>2, <2>1
    <3>2. /\ SumWith(HeldRows, r, HeldRows[r]) = SumFunctionOnSet(HeldRows, Requests)
          /\ SumWith(UsedRows, r, UsedRows[r]) = SumFunctionOnSet(UsedRows, Requests)
      <4>1. 0 \in Nat OBVIOUS
      <4> QED BY <1>1, <2>1, <4>1, SumWithAdds
    <3> QED BY <3>1, <3>2
  <2>2. CASE r = NoRequest BY <1>1, <2>2, SumWithNone
  <2> QED BY <2>1, <2>2
<1>4. Settled BY <1>2, <1>3 DEF Settled, Fine, Books, Solvent
<1>5. Calm BY <1>4, CalmIsSettled
<1>6. Calm' BY <1>5, FineSame DEF Calm
<1> QED BY <1>6, NobodyWorks

\* Preflight: what it finds to be enough is enough when the days are reserved.
LEMMA PreflightOrder ==
  ASSUME Core, NEW h \in Handlers, Works(h), Preflight(h)
  PROVE  Works(h)' \/ (Quiet' /\ Calm')
<1>1. At(h, "preflight") BY DEF Preflight
<1>2. PICK td, tl, r, v, w, a, g : Task(h, "preflight", td, tl, r, v, w, a, g) BY <1>1, TaskKnown
<1>3. /\ v \in Request /\ w \in Request /\ r \in Requests /\ r # NoRequest
      /\ v = old[h] /\ w = copy[h] /\ request[r] = v
      /\ "preflight" \in Range(td) /\ Range(td) = Range(tl) \cup {"preflight"}
      /\ tl # <<>> /\ Follows("preflight", Head(tl))
  <2>1. "preflight" \notin RunSteps /\ "preflight" \in Inner BY DEF RunSteps, Inner, Steps
  <2>2. r \in Requests /\ r # NoRequest BY <1>2, <2>1, LeaveAssumption DEF Task
  <2>3. "preflight" \in Range(td) BY <1>2 DEF Task
  <2> QED BY <1>2, <2>1, <2>2, <2>3 DEF Task, Fine, Read
<1>4. /\ w.days > 0 /\ "reserve" \in Range(td) /\ v.status # "draft"
      /\ "release" \in Range(td) <=> v.reservation # 0
      /\ "reverse" \in Range(td) <=> v.consumption # 0
  BY <1>2, <1>3 DEF Task, Fine, Read
<1>5. /\ w.reservation = 0 /\ w.consumption = 0
      /\ v.reservation # 0 => Is(v.reservation, "reservation", r, v.days)
      /\ v.consumption # 0 => Is(v.consumption, "consumption", r, v.days)
  <2>1. w.reservation = 0 /\ w.status # "approved" BY <1>2, <1>4 DEF Task, SaneTask
  <2>2. w.consumption = 0 BY <1>2, <1>3, <2>1 DEF Task, SaneTask, Holds
  <2>3. /\ v.reservation # 0 => Is(v.reservation, "reservation", r, v.days)
        /\ v.consumption # 0 => Is(v.consumption, "consumption", r, v.days)
    BY <1>3, RequestRead
  <2> QED BY <2>1, <2>2, <2>3
<1>6. TypeOK /\ Fine(td, r, v, w, a) BY <1>2 DEF Core, Task
<1>7. Summed(account) BY <1>2, SummedNow
<1>8. CASE Refuse(h)
  <2>1. \A q \in Requests : Proper(request[q]) BY <1>3, <1>6 DEF Fine, Rows
  <2>2. HeldBy(td, v, w) = Held(request[r]) /\ UsedBy(td, v, w) = Used(request[r])
    BY <1>3, <1>4, <1>5 DEF HeldBy, UsedBy, Held, Used
  <2> QED BY <1>3, <1>6, <1>7, <1>8, <2>1, <2>2, CalmDown DEF Refuse
<1>9. CASE ~Refuse(h)
  <2>1. /\ ~(Projected(v, account, w.start) < w.days) /\ Continue(h)
        /\ UNCHANGED <<request, ledger, account, completed, target, old, copy, acct,
                       carried, run, rest>>
    BY <1>3, <1>9 DEF Preflight
  <2>2. todo'[h] = tl /\ Others(h)
    <3>1. todo'[h] = Tail(todo[h]) /\ Others(h) BY <1>6, <2>1, GoesOn
    <3> QED BY <1>2, <3>1 DEF Task
  <2>3. Passes(td, tl) BY <1>2, TailPasses
  <2>4. Read(tl, r, v, w)' /\ Books(tl, r, v, w)' /\ Rows(tl, r, v, w)' /\ Solvent(tl, w)'
    BY <1>4, <1>6, <2>1, <2>3, Quietly
  <2>5. Recounted(tl, a)'
    <3>1. Head(tl) \notin {"sum", "store", "reserve", "turn", "expire"} BY <1>3 DEF Follows, Inserts
    <3>2. Summed(account)' BY <1>7, <2>1, TotalsSame DEF Summed
    <3> QED BY <3>1, <3>2 DEF Recounted
  <2>6. Covered(tl, v, w)
    <3>1. PICK f : f = IF v.reservation = 0 THEN 0 ELSE ledger[v.reservation].days OBVIOUS
    <3>2. PICK b : b = IF v.consumption = 0 THEN 0 ELSE ledger[v.consumption].days OBVIOUS
    <3>3. PICK c : c = IF v.consumption = 0 THEN 0 ELSE ledger[v.consumption].carry OBVIOUS
    <3>4. f = Freed(tl, v) /\ b = Back(tl, v) /\ f \in Nat /\ b \in Nat
      <4>1. v.days \in Nat BY <1>3 DEF Request
      <4> QED BY <1>4, <1>5, <2>3, <3>1, <3>2, <4>1 DEF Freed, Back, Passes, Is
    <3>5. c \in Int /\ Carry \in Int /\ Balance \in Int /\ Reserved \in Int
      <4>1. v.consumption # 0 => ledger[v.consumption].carry \in Int
        <5>1. v.consumption # 0 => EntryCarry[v.consumption] \in Int /\ v.consumption \in DOMAIN ledger
          BY <1>5, <1>6, TotalsTyped DEF Is
        <5> QED BY <5>1 DEF EntryCarry
      <4> QED BY <1>6, <3>3, <4>1, TotalsTyped
    <3>6. c = IF "reverse" \in Range(tl) THEN ledger[v.consumption].carry ELSE 0
      BY <1>4, <2>3, <3>3 DEF Passes
    <3>7. PICK x : x = (account.expiry # 0 /\ w.start > account.expiry) OBVIOUS
    <3>8. Spent(tl, v, w) = IF "open" \in Range(tl) /\ x THEN Positive(Carry - c) ELSE 0
      <4>1. "expire" \notin Range(tl) BY <1>2 DEF Task, Precedes, Saved
      <4> QED BY <3>6, <3>7, <4>1 DEF Spent
    <3>9. Projected(v, account, w.start) =
            Positive(account.current + b - (IF x THEN Positive(account.carry - c) ELSE 0)
                       - Positive(account.reserved - f))
      BY <3>1, <3>2, <3>3, <3>7 DEF Projected
    <3>10. PICK m, n, k \in Int : m = Balance /\ n = Reserved /\ k = Carry BY <3>5
    <3>11. account.current = m /\ account.reserved = Positive(n) /\ account.carry = Positive(k)
      BY <1>7, <3>10 DEF Summed
    <3>12. PICK d \in Nat : d = w.days BY <1>3 DEF Request
    <3>13. Positive(m + b - (IF x THEN Positive(Positive(k) - c) ELSE 0)
                       - Positive(Positive(n) - f)) >= d
      <4>1. PICK p : p = Projected(v, account, w.start) OBVIOUS
      <4>2. p = Positive(m + b - (IF x THEN Positive(Positive(k) - c) ELSE 0)
                       - Positive(Positive(n) - f))
        BY <3>9, <3>11, <4>1
      <4>3. p \in Nat BY <3>4, <3>5, <4>2 DEF Positive
      <4>4. ~(p < d) BY <2>1, <3>12, <4>1
      <4>5. p >= d BY <3>12, <4>3, <4>4
      <4> QED BY <4>2, <4>5
    <3>14. m + b - (IF x THEN Positive(k - c) ELSE 0) - Positive(n - f) >= d
      BY <1>4, <3>4, <3>5, <3>10, <3>12, <3>13 DEF Positive
    <3>15. PICK s \in Nat : s = Spent(tl, v, w)
      <4>1. Positive(k - c) \in Nat BY <3>5, PositiveRules
      <4> QED BY <3>8, <3>10, <4>1
    <3>16. m + b - s - Positive(n - f) >= d
      <4>1. s = 0 \/ (x /\ s = Positive(k - c)) BY <3>8, <3>10, <3>15
      <4>2. Positive(k - c) \in Nat /\ Positive(n - f) \in Nat
        <5>1. k - c \in Int /\ n - f \in Int BY <3>4, <3>5
        <5> QED BY <5>1, PositiveRules
      <4>3. PICK y, z \in Nat : y = Positive(k - c) /\ z = Positive(n - f) BY <4>2
      <4> QED BY <3>4, <3>14, <4>1, <4>3
    <3>17. Balance + Back(tl, v) - Spent(tl, v, w) - Positive(Reserved - Freed(tl, v)) >= w.days
      BY <3>4, <3>10, <3>12, <3>15, <3>16
    <3> QED BY <3>17 DEF Covered
  <2>7. Covered(tl, v, w)'
    <3>1. Reserved' = Reserved /\ Balance' = Balance /\ Carry' = Carry BY <2>1, TotalsSame
    <3> QED BY <2>1, <2>6, <3>1 DEF Covered, Back, Freed, Spent
  <2>8. Fine(tl, r, v, w, a)' BY <2>4, <2>5, <2>7 DEF Fine
  <2>9. target'[h] = r /\ old'[h] = v /\ copy'[h] = w /\ acct'[h] = a
    BY <1>2, <2>1 DEF Task
  <2> QED BY <1>3, <2>2, <2>8, <2>9, WorksOn
<1> QED BY <1>8, <1>9

\* A statement that writes neither a request nor an entry, and what is left of
\* the statements.
LEMMA QuietWork ==
  ASSUME Core, NEW h \in Handlers, Works(h), NEW s,
         NEW td, NEW tl, NEW r, NEW v, NEW w, NEW a, NEW g,
         Task(h, s, td, tl, r, v, w, a, g), s # "preflight",
         UNCHANGED <<request, ledger, target, old, copy, run>>, Others(h),
         NEW nl, todo'[h] = nl, nl # <<>>, Passes(td, nl),
         "open" \in Range(nl) => "open" \in Range(tl),
         NEW b, acct'[h] = b, Recounted(nl, b)',
         "reserve" \in Range(td) /\ Drained(nl, w, account.expiry') => Drained(td, w, account.expiry)
  PROVE  Works(h)'
<1>1. TypeOK BY DEF Core
<1>2. /\ Fine(td, r, v, w, a) /\ v.days \in Nat /\ w \in Request
      /\ target'[h] = r /\ old'[h] = v /\ copy'[h] = w
      /\ "reverse" \in Range(td) => v.consumption \in DOMAIN ledger
      /\ "open" \in Range(nl) => v.status # "draft"
  BY DEF Task, SaneTask, Request
<1>3. "preflight" \notin Range(td)
  <2>1. "preflight" \notin Range(tl) BY TailPasses
  <2> QED BY <2>1 DEF Task
<1>4. Read(nl, r, v, w)' /\ Books(nl, r, v, w)' /\ Rows(nl, r, v, w)' /\ Solvent(nl, w)'
  BY <1>2, Quietly
<1>5. Covered(td, v, w) BY <1>2 DEF Fine
<1>6. Covered(nl, v, w)' BY <1>1, <1>2, <1>3, <1>5, CoveredStill
<1>7. Fine(nl, r, v, w, b)' BY <1>4, <1>6 DEF Fine
<1> QED BY <1>2, <1>7, WorksOn

\* The same for the rest of the statements; most leave the account alone.
LEMMA QuietRest ==
  ASSUME Core, NEW h \in Handlers, Works(h), NEW s \in Inner,
         NEW td, NEW tl, NEW r, NEW v, NEW w, NEW a, NEW g,
         Task(h, s, td, tl, r, v, w, a, g),
         s \notin {"preflight", "release", "reverse", "reserve", "consume"},
         UNCHANGED <<request, ledger, target, old, copy, run>>, Continue(h),
         NEW b, acct'[h] = b, Recounted(tl, b)',
         Drained(tl, w, account.expiry') => Drained(td, w, account.expiry)
  PROVE  Works(h)'
<1>1. TypeOK BY DEF Core
<1>2. todo'[h] = tl /\ Others(h)
  <2>1. todo'[h] = Tail(todo[h]) /\ Others(h) BY <1>1, GoesOn
  <2> QED BY <2>1 DEF Task
<1>3. tl # <<>> BY DEF Task
<1>4. Passes(td, tl) BY TailPasses
<1> QED BY <1>2, <1>3, <1>4, QuietWork

\* Less expires with fewer statements left.
LEMMA DrainedLess ==
  ASSUME NEW h, NEW s, NEW td, NEW tl, NEW r, NEW v, NEW w, NEW a, NEW g,
         Task(h, s, td, tl, r, v, w, a, g), NEW x
  PROVE  /\ Drained(tl, w, x) => Drained(td, w, x)
         /\ Drained(tl, w, 0) => Drained(td, w, x)
BY DEF Task, Drained

\* Cover: how much is carried forward changes nothing that is kept.
LEMMA CoverOrder ==
  ASSUME Core, NEW h \in Handlers, Works(h), Cover(h)
  PROVE  Works(h)'
<1>1. At(h, "cover") /\ "cover" \in Inner BY DEF Cover, Inner, Steps
<1>2. PICK td, tl, r, v, w, a, g : Task(h, "cover", td, tl, r, v, w, a, g) BY <1>1, TaskKnown
<1>3. UNCHANGED <<request, ledger, account, target, old, copy, acct, run>> /\ Continue(h)
  BY DEF Cover, rest
<1>4. acct'[h] = a BY <1>2, <1>3 DEF Task
<1>5. Recounted(tl, a)'
  <2>1. Summed(account)' BY <1>2, <1>3, SummedNow, TotalsSame DEF Summed
  <2>2. Head(tl) = "consume" BY <1>1, <1>2 DEF Task, Follows, Inserts
  <2> QED BY <2>1, <2>2 DEF Recounted
<1>6. Drained(tl, w, account.expiry') => Drained(td, w, account.expiry)
  BY <1>2, <1>3, DrainedLess
<1> QED BY <1>1, <1>2, <1>3, <1>4, <1>5, <1>6, QuietRest

\* Check: the version is still the one that was read.
LEMMA CheckOrder ==
  ASSUME Core, NEW h \in Handlers, Works(h), Check(h)
  PROVE  Works(h)'
<1>1. At(h, "check") /\ "check" \in Inner /\ "check" \notin RunSteps
  BY DEF Check, Inner, Steps, RunSteps
<1>2. PICK td, tl, r, v, w, a, g : Task(h, "check", td, tl, r, v, w, a, g) BY <1>1, TaskKnown
<1>a. request[r].version = w.version
  <2>1. r # NoRequest BY <1>1, <1>2, LeaveAssumption DEF Task
  <2> QED BY <1>2, <2>1 DEF Task, Fine, Read
<1>3. UNCHANGED <<request, ledger, account, target, old, copy, acct, run>> /\ Continue(h)
  BY <1>2, <1>a DEF Check, Task, rest
<1>4. acct'[h] = a BY <1>2, <1>3 DEF Task
<1>5. Recounted(tl, a)'
  <2>1. Summed(account)' BY <1>2, <1>3, SummedNow, TotalsSame DEF Summed
  <2>2. Head(tl) = "save" BY <1>1, <1>2 DEF Task, Follows, Inserts
  <2> QED BY <2>1, <2>2 DEF Recounted
<1>6. Drained(tl, w, account.expiry') => Drained(td, w, account.expiry)
  BY <1>2, <1>3, DrainedLess
<1> QED BY <1>1, <1>2, <1>3, <1>4, <1>5, <1>6, QuietRest

\* Sum: on one page all entries are summed up.
LEMMA SumOrder ==
  ASSUME Core, NEW h \in Handlers, Works(h), Len(ledger) <= PageSize, Sum(h)
  PROVE  Works(h)'
<1>1. At(h, "sum") /\ "sum" \in Inner BY DEF Sum, Inner, Steps
<1>2. PICK td, tl, r, v, w, a, g : Task(h, "sum", td, tl, r, v, w, a, g) BY <1>1, TaskKnown
<1>a. TypeOK /\ account \in Account BY DEF Core, TypeOK
<1>3. PICK b : b = Recompute(account) OBVIOUS
<1>4. /\ UNCHANGED <<request, ledger, account, target, old, copy, run>> /\ Continue(h)
      /\ acct' = [acct EXCEPT ![h] = b]
  BY <1>3 DEF Sum, rest
<1>5. acct'[h] = b BY <1>a, <1>4 DEF TypeOK
<1>6. Summed(b) /\ b.version = account.version /\ b.expiry \in {0, account.expiry}
  BY <1>3, <1>a, RecomputeSums
<1>7. Recounted(tl, b)'
  <2>1. tl # <<>> /\ Head(tl) = "store" BY <1>1, <1>2 DEF Task, Follows, Inserts
  <2>2. Summed(b)' BY <1>4, <1>6, TotalsSame DEF Summed
  <2> QED BY <1>4, <1>6, <2>1, <2>2 DEF Recounted
<1>8. Drained(tl, w, account.expiry') => Drained(td, w, account.expiry)
  BY <1>2, <1>4, DrainedLess
<1> QED BY <1>1, <1>2, <1>4, <1>5, <1>7, <1>8, QuietRest

\* Reread: only the expiry date will differ.
LEMMA RereadOrder ==
  ASSUME Core, NEW h \in Handlers, Works(h), Reread(h)
  PROVE  Works(h)'
<1>1. At(h, "reread") /\ "reread" \in Inner BY DEF Reread, Inner, Steps
<1>2. PICK td, tl, r, v, w, a, g : Task(h, "reread", td, tl, r, v, w, a, g) BY <1>1, TaskKnown
<1>a. TypeOK /\ account \in Account BY DEF Core, TypeOK
<1>3. PICK b, x : /\ b = [account EXCEPT !.expiry = x]
                  /\ acct' = [acct EXCEPT ![h] = b]
  BY Zenon DEF Reread
<1>4. UNCHANGED <<request, ledger, account, target, old, copy, run>> /\ Continue(h)
  BY DEF Reread, rest
<1>5. acct'[h] = b BY <1>a, <1>3 DEF TypeOK
<1>6. Recounted(tl, b)'
  <2>1. tl # <<>> /\ Head(tl) = "store" /\ "open" \notin Range(tl)
    BY <1>1, <1>2 DEF Task, Follows, Inserts, Precedes, Opened
  <2>2. /\ b.current = account.current /\ b.reserved = account.reserved
        /\ b.carry = account.carry /\ b.version = account.version
    BY <1>a, <1>3 DEF Account
  <2>3. Summed(b) BY <1>2, <2>2, SummedNow DEF Summed
  <2>4. Summed(b)' BY <1>4, <2>3, TotalsSame DEF Summed
  <2>5. account' = account BY <1>4
  <2>6. b.version = account'.version BY <2>2, <2>5
  <2> QED BY <2>1, <2>4, <2>6 DEF Recounted
<1>7. Drained(tl, w, account.expiry') => Drained(td, w, account.expiry)
  BY <1>2, <1>4, DrainedLess
<1> QED BY <1>1, <1>2, <1>4, <1>5, <1>6, <1>7, QuietRest

\* Store: the account that was summed up is written.
LEMMA StoreOrder ==
  ASSUME Core, NEW h \in Handlers, Works(h), Store(h)
  PROVE  Works(h)'
<1>1. At(h, "store") /\ "store" \in Inner BY DEF Store, Inner, Steps
<1>2. PICK td, tl, r, v, w, a, g : Task(h, "store", td, tl, r, v, w, a, g) BY <1>1, TaskKnown
<1>a. TypeOK /\ account \in Account /\ a \in Account /\ acct[h] = a BY <1>2 DEF Core, TypeOK, Task
<1>3. PICK b : b = [a EXCEPT !.version = @ + 1] OBVIOUS
<1>4. /\ UNCHANGED <<request, ledger, target, old, copy, run>> /\ Continue(h)
      /\ account' = b
  BY <1>3, <1>a DEF Store, rest
<1>5. acct'[h] = b BY <1>a, <1>3 DEF TypeOK, Store
<1>6. /\ b.current = a.current /\ b.reserved = a.reserved /\ b.carry = a.carry
      /\ b.expiry = a.expiry
  BY <1>a, <1>3 DEF Account
<1>7. /\ Summed(a)
      /\ "open" \in Range(td) => a.expiry \in {0, account.expiry}
  BY <1>2 DEF Task, Fine, Recounted
<1>8. Recounted(tl, b)'
  <2>1. Head(tl) \notin {"sum", "store"} BY <1>1, <1>2 DEF Task, Follows, Inserts
  <2>2. Summed(account)' BY <1>4, <1>6, <1>7, TotalsSame DEF Summed
  <2>3. b = account' BY <1>4
  <2> QED BY <2>1, <2>2, <2>3 DEF Recounted
<1>9. Drained(tl, w, account.expiry') => Drained(td, w, account.expiry)
  <2>1. "expire" \notin Range(tl)
    BY <1>2 DEF Task, Precedes, Counted, Opened
  <2>2. "open" \in Range(tl) => "open" \in Range(td) BY <1>2 DEF Task
  <2> QED BY <1>4, <1>6, <1>7, <2>1, <2>2 DEF Drained
<1> QED BY <1>1, <1>2, <1>4, <1>5, <1>8, <1>9, QuietRest

\* Open: what was carried forward expires before a leave that starts later.
LEMMA OpenOrder ==
  ASSUME Core, NEW h \in Handlers, Works(h), Open(h)
  PROVE  Works(h)'
<1>1. At(h, "open") /\ "open" \in Inner BY DEF Open, Inner, Steps
<1>2. PICK td, tl, r, v, w, a, g : Task(h, "open", td, tl, r, v, w, a, g) BY <1>1, TaskKnown
<1>3. TypeOK /\ account \in Account BY DEF Core, TypeOK
<1>4. /\ Shape(tl) /\ tl # <<>> /\ Follows("open", Head(tl)) /\ tl = Tail(todo[h])
      /\ Range(tl) \subseteq Opened
  BY <1>1, <1>2 DEF Task, Precedes
<1>5. PICK due, x, k : /\ due = (account.expiry # 0 /\ EffectiveDate(h) > account.expiry)
                       /\ x = [account EXCEPT !.expiry = 0]
                       /\ k = (<<"expire">> \o Recount) \o <<"reread", "store">>
  OBVIOUS
<1>6. PICK b : b = IF due /\ account.carry = 0 THEN x ELSE account OBVIOUS
<1>7. PICK p : p = IF ~due THEN <<>> ELSE IF account.carry = 0 THEN <<"store">> ELSE k OBVIOUS
<1>8. PICK nl : nl = p \o tl OBVIOUS
<1>9. /\ UNCHANGED <<request, ledger, account, target, old, copy, run>>
      /\ acct'[h] = b /\ todo'[h] = nl /\ Others(h)
  <2>1. /\ acct' = [acct EXCEPT ![h] = b]
        /\ todo' = [todo EXCEPT ![h] = p \o Tail(@)]
        /\ UNCHANGED <<request, ledger, account, completed, target, old, copy, carried, run, rest>>
    BY <1>5, <1>6, <1>7 DEF Open
  <2> QED BY <1>3, <1>4, <1>8, <2>1 DEF TypeOK, Others
<1>10. /\ nl # <<>>
       /\ p = <<>> => nl = tl
       /\ p = <<"store">> => Head(nl) = "store" /\ Range(nl) = {"store"} \cup Range(tl)
       /\ p = k => /\ Head(nl) = "expire"
                   /\ Range(nl) = {"expire", "sum", "store", "reread"} \cup Range(tl)
  <2>1. p \in {<<>>, <<"store">>, (<<"expire">> \o Recount) \o <<"reread", "store">>}
    BY <1>5, <1>7, Zenon
  <2> QED BY <1>4, <1>5, <1>8, <2>1, OpenList
<1>11. Range(tl) \cap {"open", "expire", "preflight"} = {} BY <1>4 DEF Opened
<1>12. Passes(td, tl) BY <1>2, TailPasses
<1>13. Passes(td, nl) /\ ("open" \in Range(nl) => "open" \in Range(tl))
  BY <1>7, <1>10, <1>12 DEF Passes
<1>14. Summed(account) BY <1>2, SummedNow
<1>15. Summed(account)' /\ account' = account BY <1>9, <1>14, TotalsSame DEF Summed
<1>16. Recounted(nl, b)'
  <2>1. CASE ~due
    <3>1. nl = tl /\ b = account BY <1>6, <1>7, <1>10, <2>1
    <3>2. Head(tl) \notin {"sum", "store"} BY <1>4 DEF Follows, Inserts
    <3> QED BY <1>15, <3>1, <3>2 DEF Recounted
  <2>2. CASE due /\ account.carry = 0
    <3>1. Head(nl) = "store" /\ "open" \notin Range(nl) BY <1>7, <1>10, <1>11, <2>2
    <3>2. b.current = account.current /\ b.reserved = account.reserved
          /\ b.carry = account.carry /\ b.version = account.version
      BY <1>3, <1>5, <1>6, <2>2 DEF Account
    <3>3. Summed(b)' BY <1>15, <3>2 DEF Summed
    <3>4. b.version = account'.version BY <1>15, <3>2
    <3> QED BY <1>10, <3>1, <3>3, <3>4 DEF Recounted
  <2>3. CASE due /\ account.carry # 0
    <3>1. Head(nl) = "expire" /\ b = account BY <1>6, <1>7, <1>10, <2>3
    <3> QED BY <1>15, <3>1 DEF Recounted
  <2> QED BY <2>1, <2>2, <2>3
<1>17. "reserve" \in Range(td) /\ Drained(nl, w, account.expiry') => Drained(td, w, account.expiry)
  <2> SUFFICES ASSUME "reserve" \in Range(td), Drained(nl, w, account.expiry')
               PROVE  Drained(td, w, account.expiry)
    OBVIOUS
  <2>1. r # NoRequest BY <1>2 DEF Task, SaneTask, RunSteps
  <2>2. EffectiveDate(h) = w.start BY <1>2, <2>1 DEF Task, SaneTask, EffectiveDate
  <2>3. due BY <1>7, <1>10, <1>11 DEF Drained
  <2>4. "open" \in Range(td) BY <1>2 DEF Task
  <2> QED BY <1>5, <2>2, <2>3, <2>4 DEF Drained
<1> QED BY <1>2, <1>9, <1>10, <1>13, <1>16, <1>17, QuietWork

\* An entry of the employee's own: what expired, was carried forward or granted.
LEMMA EntryWork ==
  ASSUME Core, NEW h \in Handlers, Works(h), NEW s,
         NEW td, NEW tl, NEW r, NEW v, NEW w, NEW a, NEW g,
         Task(h, s, td, tl, r, v, w, a, g),
         UNCHANGED <<request, account, target, old, copy, run>>, Others(h),
         NEW e \in Entry, ledger' = Append(ledger, e),
         e.type \in {"annual_grant", "monthly_accrual", "carry_forward", "expiry"},
         e.type # "expiry" => e.days >= 0,
         NEW nl, todo'[h] = nl, nl # <<>>, Head(nl) = "sum", Passes(td, nl),
         "open" \in Range(nl) => "open" \in Range(tl),
         NEW b, acct'[h] = b, Covered(nl, v, w)'
  PROVE  Works(h)'
<1>1. TypeOK BY DEF Core
<1>2. /\ Fine(td, r, v, w, a) /\ target'[h] = r /\ old'[h] = v /\ copy'[h] = w
      /\ "open" \in Range(nl) => v.status # "draft"
  BY DEF Task
<1>3. Read(nl, r, v, w)' /\ Rows(nl, r, v, w)' BY <1>2, QuietRecords
<1>4. /\ Reserved' = Reserved /\ Consumed' = Consumed
      /\ Balance' = Balance + (IF e.type = "expiry" THEN -e.days ELSE e.days)
      /\ Reserved \in Int /\ Consumed \in Int /\ Balance \in Int /\ e.days \in Int
  <2>1. /\ Reserved' = Reserved + 0 /\ Consumed' = Consumed + 0
        /\ Balance' = Balance + (IF e.type = "expiry" THEN -e.days ELSE e.days)
        /\ e.days \in Int
    BY <1>1, EntryCounts DEF Credits, Debits
  <2>2. Reserved \in Int /\ Consumed \in Int /\ Balance \in Int BY <1>1, TotalsTyped
  <2> QED BY <2>1, <2>2
<1>5. HeldRows' = HeldRows /\ UsedRows' = UsedRows BY RowsSame
<1>6. Books(nl, r, v, w)'
  <2>1. HeldBy(nl, v, w)' = HeldBy(td, v, w) /\ UsedBy(nl, v, w)' = UsedBy(td, v, w)
    BY DEF HeldBy, UsedBy, Held, Used, Passes
  <2> QED BY <1>2, <1>4, <1>5, <2>1 DEF Fine, Books, SumWith
<1>7. Recounted(nl, b)' BY DEF Recounted
<1>8. Solvent(nl, w)'
  <2> SUFFICES ASSUME (\A i \in DOMAIN ledger : ledger[i].type # "expiry")'
               PROVE  (/\ Positive(Reserved) <= Balance
                       /\ "consume" \in Range(nl) /\ "release" \notin Range(nl) =>
                            Positive(Reserved) + w.days <= Balance)'
    BY DEF Solvent
  <2>1. /\ Len(ledger) + 1 \in DOMAIN ledger' /\ ledger'[Len(ledger) + 1] = e
        /\ DOMAIN ledger \subseteq DOMAIN ledger'
        /\ \A i \in DOMAIN ledger : ledger'[i] = ledger[i]
    BY <1>1, EntryAdded DEF Keeps
  <2>2. e.type # "expiry" /\ \A i \in DOMAIN ledger : ledger[i].type # "expiry" BY <2>1
  <2>3. /\ Positive(Reserved) <= Balance
        /\ "consume" \in Range(td) /\ "release" \notin Range(td) =>
             Positive(Reserved) + w.days <= Balance
    BY <1>2, <2>2 DEF Fine, Solvent
  <2>4. Balance' = Balance + e.days /\ e.days >= 0 BY <1>4, <2>2
  <2>5. Positive(Reserved) \in Nat /\ w.days \in Nat
    BY <1>4, PositiveRules DEF Task, Request
  <2>6. PICK m, n, d : m = Positive(Reserved) /\ n = Balance /\ d = e.days OBVIOUS
  <2>7. m <= n + d /\ (m + w.days <= n => m + w.days <= n + d)
    BY <1>4, <2>3, <2>4, <2>5, <2>6
  <2>8. Positive(Reserved)' = m /\ Balance' = n + d BY <1>4, <2>4, <2>6
  <2> QED BY <2>3, <2>6, <2>7, <2>8 DEF Passes
<1>9. Fine(nl, r, v, w, b)' BY <1>3, <1>6, <1>7, <1>8 DEF Fine
<1> QED BY <1>2, <1>9, WorksOn

\* Turn: all that is left expires.
LEMMA TurnOrder ==
  ASSUME Core, NEW h \in Handlers, Works(h), Turn(h)
  PROVE  Works(h)'
<1>1. At(h, "turn") /\ "turn" \in Inner BY DEF Turn, Inner, Steps
<1>2. PICK td, tl, r, v, w, a, g : Task(h, "turn", td, tl, r, v, w, a, g) BY <1>1, TaskKnown
<1>3. TypeOK /\ account \in Account /\ a \in Account /\ acct[h] = a BY <1>2 DEF Core, TypeOK, Task
<1>4. /\ Shape(tl) /\ tl # <<>> /\ Follows("turn", Head(tl)) /\ tl = Tail(todo[h])
      /\ \A y \in Range(tl) : Precedes("turn", y)
      /\ Range(tl) \subseteq {"grant", "sum", "store", "complete"}
      /\ Range(td) = Range(tl) \cup {"turn"}
  BY <1>1, <1>2 DEF Task, Precedes
<1>5. "reserve" \notin Range(td) /\ "release" \notin Range(td) /\ "reverse" \notin Range(td)
      /\ "consume" \notin Range(td) /\ "open" \notin Range(td)
  BY <1>4
<1>6. a = account /\ Summed(account) BY <1>2, SummedNow
<1>7. UNCHANGED <<request, account, completed, target, old, copy, run, rest>>
  BY DEF Turn
<1>8. CASE a.current <= 0
  <2>1. PICK b : b = [a EXCEPT !.expiry = 0] OBVIOUS
  <2>2. PICK nl : nl = <<"store">> \o tl OBVIOUS
  <2>3. /\ acct' = [acct EXCEPT ![h] = b] /\ todo' = [todo EXCEPT ![h] = nl]
        /\ ledger' = ledger
    <3>1. /\ acct' = [acct EXCEPT ![h].expiry = 0]
          /\ todo' = [todo EXCEPT ![h] = <<"store">> \o Tail(@)]
          /\ ledger' = ledger
      BY <1>3, <1>8 DEF Turn
    <3> QED BY <1>3, <1>4, <2>1, <2>2, <3>1 DEF TypeOK
  <2>4. acct'[h] = b /\ todo'[h] = nl /\ Others(h) BY <1>3, <1>7, <2>3 DEF TypeOK, Others
  <2>5. nl # <<>> /\ Head(nl) = "store" /\ Range(nl) = {"store"} \cup Range(tl)
    <3>1. "store" \in Steps /\ Follows("store", Head(tl)) BY <1>4 DEF Steps, Follows, Inserts
    <3>2. \A y \in Range(tl) : Precedes("store", y)
      BY <1>4 DEF Precedes, Counted, Opened, Saved
    <3>3. /\ Range(<<"store">> \o tl) = Range(tl) \cup {"store"}
          /\ <<"store">> \o tl # <<>> /\ Head(<<"store">> \o tl) = "store"
      BY <3>1, <3>2, <1>4, FrontShape
    <3> QED BY <2>2, <3>3
  <2>6. Passes(td, nl) /\ "open" \notin Range(nl) BY <1>4, <1>5, <2>5 DEF Passes
  <2>7. Recounted(nl, b)'
    <3>1. /\ b.current = account.current /\ b.reserved = account.reserved
          /\ b.carry = account.carry /\ b.version = account.version
      BY <1>3, <1>6, <2>1 DEF Account
    <3>2. Summed(b) BY <1>6, <3>1 DEF Summed
    <3>3. Summed(b)' /\ b.version = account'.version BY <1>7, <2>3, <3>1, <3>2, TotalsSame DEF Summed
    <3> QED BY <2>5, <2>6, <3>3 DEF Recounted
  <2> QED BY <1>2, <1>5, <1>7, <2>3, <2>4, <2>5, <2>6, <2>7, QuietWork
<1>9. CASE ~(a.current <= 0)
  <2>1. PICK left, c, d, t : /\ left = a.current /\ c = -Least(a.carry, left)
                             /\ d = RunDate[CHOOSE x \in run[h] : TRUE]
                             /\ t = IF CarryCap > 0 THEN Least(left, CarryCap)
                                    ELSE IF RunExpiry[CHOOSE x \in run[h] : TRUE] # 0
                                         THEN left ELSE 0
    OBVIOUS
  <2>2. PICK b : b = IF t > 0 THEN <<"carry">> \o Recount ELSE <<>> OBVIOUS
  <2>3. PICK nl : nl = ((Recount \o b) \o <<"reread", "store">>) \o tl OBVIOUS
  <2>4. /\ NewEntry(h, "expiry", left, c, d) /\ acct' = acct
        /\ todo' = [todo EXCEPT ![h] =
                      ((Recount \o b) \o <<"reread", "store">>) \o Tail(@)]
    BY <1>3, <1>9, <2>1, <2>2 DEF Turn
  <2>5. acct'[h] = a /\ todo'[h] = nl /\ Others(h)
    BY <1>3, <1>4, <1>7, <2>3, <2>4 DEF TypeOK, Others
  <2>6. b = <<>> \/ b = <<"carry">> \o Recount BY <2>2, Zenon
  <2>7. /\ nl # <<>> /\ Head(nl) = "sum"
        /\ Range(nl) \subseteq {"carry", "sum", "store", "reread"} \cup Range(tl)
    BY <1>4, <2>3, <2>6, TurnList
  <2>8. Passes(td, nl) /\ "open" \notin Range(nl) /\ "reserve" \notin Range(nl)
    BY <1>4, <1>5, <2>7 DEF Passes
  <2>9. Covered(nl, v, w)' BY <2>8 DEF Covered
  <2>10. left \in Int /\ c \in Int /\ d \in Nat
    <3>1. left \in Int /\ a.carry \in Nat BY <1>3, <2>1 DEF Account
    <3>2. c \in Int BY <2>1, <3>1 DEF Least
    <3>3. d \in Nat
      <4>1. run[h] # {}
        <5>1. "turn" \in RunOnly BY DEF RunOnly
        <5> QED BY <1>1, <5>1, AtStep
      <4> QED BY <2>1, <4>1, DateTyped
    <3> QED BY <3>1, <3>2, <3>3
  <2>11. PICK e : e = [type |-> "expiry", days |-> left, carry |-> c, date |-> d,
                       request |-> target[h]]
    OBVIOUS
  <2>12. e \in Entry /\ e.type = "expiry"
    BY <1>3, <2>10, <2>11 DEF Entry, Types, Debits, TypeOK
  <2>13. ledger' = Append(ledger, e) BY <2>4, <2>11 DEF NewEntry
  <2> QED BY <1>2, <1>7, <2>5, <2>7, <2>8, <2>9, <2>12, <2>13, EntryWork
<1> QED BY <1>8, <1>9

\* Insert, an entry of the employee's own.
LEMMA OwnEntryOrder ==
  ASSUME Core, NEW h \in Handlers, Works(h), Insert(h), NEW s \in {"expire", "carry", "grant"},
         At(h, s)
  PROVE  Works(h)'
<1>1. PICK td, tl, r, v, w, a, g : Task(h, s, td, tl, r, v, w, a, g) BY TaskKnown
<1>2. TypeOK /\ account \in Account /\ a \in Account /\ acct[h] = a BY <1>1 DEF Core, TypeOK, Task
<1>3. UNCHANGED <<request, account, target, old, copy, acct, run>> /\ Continue(h)
  BY DEF Insert, rest
<1>4. todo'[h] = tl /\ Others(h) /\ acct'[h] = a
  <2>1. todo'[h] = Tail(todo[h]) /\ Others(h) BY <1>2, <1>3, GoesOn
  <2> QED BY <1>1, <1>3, <2>1 DEF Task
<1>5. tl # <<>> /\ Head(tl) = "sum" /\ Passes(td, tl)
  <2>1. s \in Inner BY DEF Inner, Steps
  <2>2. tl # <<>> /\ Follows(s, Head(tl)) BY <1>1, <2>1 DEF Task
  <2>3. Head(tl) = "sum" BY <2>2 DEF Follows, Inserts
  <2> QED BY <1>1, <2>2, <2>3, TailPasses
<1>6. EffectiveDate(h) \in Nat /\ target[h] \in Requests \cup {NoRequest} /\ carried[h] \in Nat
  BY <1>2, DateTyped DEF TypeOK
<1>7. CASE s = "expire"
  <2>1. PICK n : n = a.carry OBVIOUS
  <2>2. n \in Nat BY <1>2, <2>1 DEF Account
  <2>3. PICK e : e = [type |-> "expiry", days |-> n, carry |-> -n, date |-> EffectiveDate(h),
                      request |-> target[h]]
    OBVIOUS
  <2>4. ledger' = Append(ledger, e)
    <3>1. NewEntry(h, "expiry", acct[h].carry, -acct[h].carry, EffectiveDate(h))
      BY <1>7 DEF Insert, At
    <3> QED BY <1>2, <2>1, <2>3, <3>1 DEF NewEntry
  <2>5. e \in Entry /\ e.type = "expiry" /\ e.days = n
    <3>1. n \in Int /\ -n \in Int BY <2>2
    <3> QED BY <1>6, <2>3, <3>1 DEF Entry, Types, Debits
  <2>6. n = Positive(Carry) BY <1>1, <1>7, <2>1, SummedNow DEF Summed
  <2>7. Range(tl) \subseteq Opened \cup {"reread"} /\ Range(td) = Range(tl) \cup {"expire"}
    BY <1>1, <1>7 DEF Task, Precedes
  <2>8. Covered(tl, v, w)'
    <3> SUFFICES ASSUME "reserve" \in Range(tl), v.status # "draft"
                 PROVE  (Balance + Back(tl, v) - Spent(tl, v, w)
                           - Positive(Reserved - Freed(tl, v)) >= w.days)'
      BY DEF Covered
    <3>1. "reserve" \in Range(td) /\ "preflight" \notin Range(td)
      BY <2>7 DEF Opened
    <3>2. Covered(td, v, w) BY <1>1 DEF Task, Fine
    <3>3. Balance + Back(td, v) - Spent(td, v, w) - Positive(Reserved - Freed(td, v)) >= w.days
      BY <3>1, <3>2 DEF Covered
    <3>4. Back(td, v) = 0 /\ Freed(td, v) = 0 /\ (Back(tl, v) = 0)' /\ (Freed(tl, v) = 0)'
      BY <2>7 DEF Back, Freed, Opened
    <3>5. Spent(td, v, w) = Positive(Carry - 0) BY <2>7 DEF Spent, Opened
    <3>6. Spent(tl, v, w)' = 0 BY <2>7 DEF Spent, Opened
    <3>7. Reserved' = Reserved + 0 /\ Balance' = Balance + (-n)
      BY <1>2, <2>4, <2>5, EntryCounts DEF Credits, Debits
    <3>8. Carry \in Int /\ Balance \in Int /\ Reserved \in Int BY <1>2, TotalsTyped
    <3>9. PICK b, m, p : b = Balance /\ m = Reserved /\ p = Positive(Reserved) OBVIOUS
    <3>10. Reserved' = m /\ Balance' = b + (-n) /\ p \in Nat /\ m \in Int /\ b \in Int
      BY <3>7, <3>8, <3>9, PositiveRules
    <3>11. Spent(td, v, w) = n BY <2>6, <3>5, <3>8
    <3>12. m - 0 = m /\ p = Positive(m) BY <3>9, <3>10
    <3>13. b + 0 - n - p >= w.days BY <3>3, <3>4, <3>9, <3>11, <3>12
    <3>14. (b + (-n)) + 0 - 0 - p >= w.days
      <4>1. w.days \in Nat BY <1>1 DEF Task, Request
      <4> QED BY <2>2, <3>10, <3>13, <4>1
    <3> QED BY <3>4, <3>6, <3>10, <3>12, <3>14
  <2> QED BY <1>1, <1>3, <1>4, <1>5, <2>4, <2>5, <2>8, EntryWork
<1>8. CASE s \in {"carry", "grant"}
  <2>1. "reserve" \notin Range(tl) BY <1>1, <1>8 DEF Task, Precedes
  <2>2. Covered(tl, v, w)' BY <2>1 DEF Covered
  <2>3. \E type, n, c : /\ type \in {"annual_grant", "monthly_accrual", "carry_forward"}
                        /\ n \in Nat /\ c \in Nat
                        /\ NewEntry(h, type, n, c, EffectiveDate(h))
    <3>1. CASE s = "carry"
      <4>1. NewEntry(h, "carry_forward", carried[h], carried[h], EffectiveDate(h))
        BY <3>1 DEF Insert, At
      <4> QED BY <1>6, <4>1
    <3>2. CASE s = "grant"
      <4>1. NewEntry(h, RunMode[CHOOSE x \in run[h] : TRUE], Grant, 0, EffectiveDate(h))
        BY <3>2 DEF Insert, At
      <4>2. (CHOOSE x \in run[h] : TRUE) \in Runs
        <5>1. run[h] # {} BY <3>2, AtStep DEF RunOnly
        <5> QED BY <5>1, DateTyped
      <4>3. RunMode[CHOOSE x \in run[h] : TRUE] \in {"annual_grant", "monthly_accrual"}
        BY <4>2, LeaveAssumption
      <4>4. Grant \in Nat /\ 0 \in Nat BY LeaveAssumption
      <4> QED BY <4>1, <4>3, <4>4
    <3> QED BY <1>8, <3>1, <3>2
  <2>4. PICK type, n, c : /\ type \in {"annual_grant", "monthly_accrual", "carry_forward"}
                          /\ n \in Nat /\ c \in Nat
                          /\ NewEntry(h, type, n, c, EffectiveDate(h))
    BY <2>3
  <2>5. PICK e : e = [type |-> type, days |-> n, carry |-> c, date |-> EffectiveDate(h),
                      request |-> target[h]]
    OBVIOUS
  <2>6. ledger' = Append(ledger, e) BY <2>4, <2>5 DEF NewEntry
  <2>7. e \in Entry /\ e.type = type /\ e.days >= 0
    <3>1. n \in Int /\ c \in Int /\ type \in Types BY <2>4 DEF Types, Credits
    <3>2. e \in Entry BY <1>6, <2>5, <3>1 DEF Entry
    <3> QED BY <2>4, <2>5, <3>2
  <2>8. e.type \in {"annual_grant", "monthly_accrual", "carry_forward", "expiry"} BY <2>4, <2>7
  <2> QED BY <1>1, <1>3, <1>4, <1>5, <2>2, <2>6, <2>7, <2>8, EntryWork
<1> QED BY <1>7, <1>8

\* What is given back is what the request that was read holds.
LEMMA GivenRecords ==
  ASSUME Core, NEW h \in Handlers, NEW s \in {"release", "reverse"}, At(h, s),
         NEW td, NEW tl, NEW r, NEW v, NEW w, NEW a, NEW g,
         Task(h, s, td, tl, r, v, w, a, g), request' = request
  PROVE  /\ Read(tl, r, v, w)' /\ Rows(tl, r, v, w)'
         /\ Range(tl) \subseteq Saved \cup {"cover", "consume"}
         /\ Range(td) = Range(tl) \cup {s} /\ tl # <<>> /\ Head(tl) = "sum"
         /\ r \in Requests /\ r # NoRequest /\ request[r] = v /\ v.days \in Nat /\ w.days \in Nat
<1>1. /\ Range(tl) \subseteq Saved \cup {"cover", "consume"} /\ Range(td) = Range(tl) \cup {s}
      /\ tl # <<>> /\ Head(tl) = "sum"
  <2>1. s \in Inner BY DEF Inner, Steps
  <2>2. tl # <<>> /\ Follows(s, Head(tl)) BY <2>1 DEF Task
  <2>3. Head(tl) = "sum" BY <2>2 DEF Follows, Inserts
  <2>4. Range(tl) \subseteq Saved \cup {"cover", "consume"} BY DEF Task, Precedes
  <2> QED BY <2>2, <2>3, <2>4 DEF Task
<1>2. r \in Requests /\ r # NoRequest
  <2>1. s \notin RunSteps BY DEF RunSteps
  <2> QED BY <2>1, LeaveAssumption DEF Task
<1>3. Read(td, r, v, w) /\ Rows(td, r, v, w) /\ v \in Request /\ w \in Request
      /\ ("open" \in Range(tl) => v.status # "draft")
  BY DEF Task, Fine
<1>4. request[r] = v BY <1>1, <1>2, <1>3 DEF Read
<1>5. "release" \notin Range(tl) /\ "reverse" \notin Range(tl) /\ "preflight" \notin Range(tl)
  BY <1>1 DEF Saved
<1>6. Read(tl, r, v, w)' BY <1>1, <1>3, <1>4, <1>5 DEF Read
<1>7. Rows(tl, r, v, w)' BY <1>1, <1>3, <1>5 DEF Rows, Proper, Passed, Approvers
<1> QED BY <1>1, <1>2, <1>3, <1>4, <1>6, <1>7 DEF Request

\* Insert, a release: what is reserved falls by what the request holds.
LEMMA ReleaseOrder ==
  ASSUME Core, NEW h \in Handlers, Works(h), Insert(h), At(h, "release")
  PROVE  Works(h)'
<1>1. PICK td, tl, r, v, w, a, g : Task(h, "release", td, tl, r, v, w, a, g) BY TaskKnown
<1>2. TypeOK BY DEF Core
<1>3. UNCHANGED <<request, account, target, old, copy, acct, run>> /\ Continue(h)
  BY DEF Insert, rest
<1>4. /\ todo'[h] = tl /\ Others(h) /\ acct'[h] = a /\ target'[h] = r /\ old'[h] = v
      /\ copy'[h] = w /\ old[h] = v
  <2>1. todo'[h] = Tail(todo[h]) /\ Others(h) BY <1>2, <1>3, GoesOn
  <2> QED BY <1>1, <1>3, <2>1 DEF Task
<1>5. /\ Read(tl, r, v, w)' /\ Rows(tl, r, v, w)'
      /\ Range(tl) \subseteq Saved \cup {"cover", "consume"}
      /\ Range(td) = Range(tl) \cup {"release"} /\ tl # <<>> /\ Head(tl) = "sum"
      /\ r \in Requests /\ r # NoRequest /\ request[r] = v /\ v.days \in Nat /\ w.days \in Nat
  BY <1>1, <1>3, GivenRecords
<1>6. /\ "release" \notin Range(tl) /\ "reverse" \notin Range(tl) /\ "expire" \notin Range(tl)
      /\ "preflight" \notin Range(td) /\ "reverse" \notin Range(td) /\ "expire" \notin Range(td)
      /\ "release" \in Range(td)
      /\ \A y \in {"open", "reserve", "consume"} : y \in Range(tl) <=> y \in Range(td)
  BY <1>5 DEF Saved
<1>7. Fine(td, r, v, w, a) /\ v.reservation \in DOMAIN ledger /\ w.reservation = 0
  BY <1>1, <1>5, <1>6 DEF Task, SaneTask, Fine, Read
<1>8. ledger[v.reservation].days = v.days
  <2>1. v.reservation # 0
    <3>1. ledger \in Seq(Entry) BY <1>2 DEF TypeOK
    <3>2. DOMAIN ledger = 1..Len(ledger) BY <3>1, LenProperties
    <3> QED BY <1>7, <3>2
  <2> QED BY <1>5, <2>1, RequestRead DEF Is
<1>9. PICK n \in Nat, d \in Nat : n = v.days /\ d = v.start
  <2>1. v.start \in Nat BY <1>1, <1>2 DEF Task, Request, TypeOK
  <2> QED BY <1>5, <2>1
<1>10. PICK e : e = [type |-> "release", days |-> n, carry |-> 0, date |-> d,
                     request |-> target[h]]
  OBVIOUS
<1>11. ledger' = Append(ledger, e)
  <2>1. NewEntry(h, "release", ledger[old[h].reservation].days, 0, old[h].start)
    BY DEF Insert, At
  <2> QED BY <1>4, <1>8, <1>9, <1>10, <2>1 DEF NewEntry
<1>12. e \in Entry /\ e.type = "release" /\ e.days = n /\ e.carry = 0
  <2>1. d \in Nat /\ n \in Int /\ 0 \in Int /\ target[h] \in Requests \cup {NoRequest}
    BY <1>1, <1>2, <1>9 DEF Task, Request, TypeOK
  <2> QED BY <1>10, <2>1 DEF Entry, Types
<1>13. /\ Reserved' = Reserved + (-n) /\ Consumed' = Consumed + 0 /\ Balance' = Balance + 0
       /\ Carry' = Carry + 0
  BY <1>2, <1>11, <1>12, EntryCounts DEF Credits, Debits
<1>14. PICK x, y, z, c : x = Reserved /\ y = Consumed /\ z = Balance /\ c = Carry OBVIOUS
<1>15. x \in Int /\ y \in Int /\ z \in Int /\ c \in Int BY <1>2, <1>14, TotalsTyped
<1>16. Reserved' = x - n /\ Consumed' = y /\ Balance' = z /\ Carry' = c
  BY <1>13, <1>14, <1>15
<1>17. HeldRows' = HeldRows /\ UsedRows' = UsedRows BY <1>3, RowsSame
<1>18. PICK k \in Nat : k = SumWith(HeldRows, r, 0) /\ SumWith(HeldRows, r, n) = k + n
  BY <1>2, <1>5, RowsTyped, SumWithAdds
<1>19. x = k + n
  <2>1. HeldBy(td, v, w) = n BY <1>6, <1>9 DEF HeldBy
  <2> QED BY <1>7, <1>14, <1>18, <2>1 DEF Fine, Books
<1>20. Books(tl, r, v, w)'
  <2>1. (HeldBy(tl, v, w) = 0)' BY <1>6, <1>7 DEF HeldBy, Held
  <2>2. UsedBy(tl, v, w)' = UsedBy(td, v, w) BY <1>6 DEF UsedBy, Used
  <2>3. Reserved' = k BY <1>16, <1>18, <1>19
  <2>4. Consumed = SumWith(UsedRows, r, UsedBy(td, v, w)) BY <1>7 DEF Fine, Books
  <2>5. \A m : SumWith(HeldRows, r, m)' = SumWith(HeldRows, r, m)
               /\ SumWith(UsedRows, r, m)' = SumWith(UsedRows, r, m)
    BY <1>17 DEF SumWith
  <2> QED BY <1>14, <1>16, <1>17, <1>18, <2>1, <2>2, <2>3, <2>4 DEF Books, SumWith
<1>21. Recounted(tl, a)' BY <1>5 DEF Recounted
<1>22. Covered(tl, v, w)'
  <2>1. /\ Back(tl, v)' = Back(td, v) /\ (Freed(tl, v) = 0)' /\ Freed(td, v) = n
    BY <1>6, <1>9 DEF Back, Freed
  <2>2. Spent(tl, v, w)' = Spent(td, v, w)
    BY <1>3, <1>6, <1>14, <1>16 DEF Spent
  <2>3. Covered(td, v, w) BY <1>7 DEF Fine
  <2>4. Positive((x - n) - 0) = Positive(x - n) BY <1>15
  <2> QED BY <1>6, <1>14, <1>16, <2>1, <2>2, <2>3, <2>4 DEF Covered
<1>23. Solvent(tl, w)'
  <2> SUFFICES ASSUME (\A i \in DOMAIN ledger : ledger[i].type # "expiry")'
               PROVE  (/\ Positive(Reserved) <= Balance
                       /\ "consume" \in Range(tl) /\ "release" \notin Range(tl) =>
                            Positive(Reserved) + w.days <= Balance)'
    BY DEF Solvent
  <2>1. \A i \in DOMAIN ledger : ledger[i].type # "expiry"
    BY <1>2, <1>11, <1>12, EntryAdded DEF Keeps
  <2>2. Positive(x) <= z BY <1>7, <1>14, <2>1 DEF Fine, Solvent
  <2>3. Positive(x) = k + n /\ Positive(x - n) = k BY <1>15, <1>19 DEF Positive
  <2>4. "consume" \in Range(tl) => w.days = n BY <1>6, <1>7, <1>9 DEF Fine, Read
  <2>5. k <= z /\ ("consume" \in Range(tl) => k + w.days <= z) BY <1>15, <2>2, <2>3, <2>4
  <2>6. Positive(Reserved)' = k /\ Balance' = z BY <1>16, <2>3
  <2> QED BY <2>5, <2>6
<1>24. Fine(tl, r, v, w, a)' BY <1>5, <1>20, <1>21, <1>22, <1>23 DEF Fine
<1> QED BY <1>4, <1>5, <1>24, WorksOn

\* Insert, a reversal: the charge and what it took from the carry-forward are
\* given back.
LEMMA ReverseOrder ==
  ASSUME Core, NEW h \in Handlers, Works(h), Insert(h), At(h, "reverse")
  PROVE  Works(h)'
<1>1. PICK td, tl, r, v, w, a, g : Task(h, "reverse", td, tl, r, v, w, a, g) BY TaskKnown
<1>2. TypeOK BY DEF Core
<1>3. UNCHANGED <<request, account, target, old, copy, acct, run>> /\ Continue(h)
  BY DEF Insert, rest
<1>4. /\ todo'[h] = tl /\ Others(h) /\ acct'[h] = a /\ target'[h] = r /\ old'[h] = v
      /\ copy'[h] = w /\ old[h] = v
  <2>1. todo'[h] = Tail(todo[h]) /\ Others(h) BY <1>2, <1>3, GoesOn
  <2> QED BY <1>1, <1>3, <2>1 DEF Task
<1>5. /\ Read(tl, r, v, w)' /\ Rows(tl, r, v, w)'
      /\ Range(tl) \subseteq Saved \cup {"cover", "consume"}
      /\ Range(td) = Range(tl) \cup {"reverse"} /\ tl # <<>> /\ Head(tl) = "sum"
      /\ r \in Requests /\ r # NoRequest /\ request[r] = v /\ v.days \in Nat /\ w.days \in Nat
  BY <1>1, <1>3, GivenRecords
<1>6. /\ "release" \notin Range(tl) /\ "reverse" \notin Range(tl) /\ "expire" \notin Range(tl)
      /\ "preflight" \notin Range(td) /\ "release" \notin Range(td) /\ "expire" \notin Range(td)
      /\ "reverse" \in Range(td)
      /\ \A y \in {"open", "reserve", "consume"} : y \in Range(tl) <=> y \in Range(td)
  BY <1>5 DEF Saved
<1>7. Fine(td, r, v, w, a) /\ v.consumption \in DOMAIN ledger /\ w.consumption = 0
  BY <1>1, <1>5, <1>6 DEF Task, SaneTask, Fine, Read
<1>8. ledger[v.consumption].days = v.days
  <2>1. v.consumption # 0
    <3>1. ledger \in Seq(Entry) BY <1>2 DEF TypeOK
    <3>2. DOMAIN ledger = 1..Len(ledger) BY <3>1, LenProperties
    <3> QED BY <1>7, <3>2
  <2> QED BY <1>5, <2>1, RequestRead DEF Is
<1>9. PICK n \in Nat, cc \in Int : n = v.days /\ cc = ledger[v.consumption].carry
  <2>1. EntryCarry[v.consumption] \in Int BY <1>2, <1>7, TotalsTyped
  <2> QED BY <1>5, <1>7, <2>1 DEF EntryCarry
<1>10. PICK e : e = [type |-> "reversal", days |-> n, carry |-> -cc, date |-> Today,
                     request |-> target[h]]
  OBVIOUS
<1>11. ledger' = Append(ledger, e)
  <2>1. NewEntry(h, "reversal", ledger[old[h].consumption].days,
                 -ledger[old[h].consumption].carry, Today)
    BY DEF Insert, At
  <2> QED BY <1>4, <1>8, <1>9, <1>10, <2>1 DEF NewEntry
<1>12. e \in Entry /\ e.type = "reversal" /\ e.days = n /\ e.carry = -cc
  <2>1. Today \in Nat /\ n \in Int /\ -cc \in Int /\ target[h] \in Requests \cup {NoRequest}
    BY <1>2, <1>9, LeaveAssumption DEF TypeOK
  <2> QED BY <1>10, <2>1 DEF Entry, Types, Credits
<1>13. /\ Reserved' = Reserved + 0 /\ Consumed' = Consumed + (-n) /\ Balance' = Balance + n
       /\ Carry' = Carry + (-cc)
  BY <1>2, <1>11, <1>12, EntryCounts DEF Credits, Debits
<1>14. PICK x, y, z, c : x = Reserved /\ y = Consumed /\ z = Balance /\ c = Carry OBVIOUS
<1>15. x \in Int /\ y \in Int /\ z \in Int /\ c \in Int BY <1>2, <1>14, TotalsTyped
<1>16. Reserved' = x /\ Consumed' = y - n /\ Balance' = z + n /\ Carry' = c - cc
  BY <1>13, <1>14, <1>15
<1>17. HeldRows' = HeldRows /\ UsedRows' = UsedRows BY <1>3, RowsSame
<1>18. PICK k \in Nat : k = SumWith(UsedRows, r, 0) /\ SumWith(UsedRows, r, n) = k + n
  BY <1>2, <1>5, RowsTyped, SumWithAdds
<1>19. y = k + n
  <2>1. UsedBy(td, v, w) = n BY <1>6, <1>9 DEF UsedBy
  <2> QED BY <1>7, <1>14, <1>18, <2>1 DEF Fine, Books
<1>20. Books(tl, r, v, w)'
  <2>1. (UsedBy(tl, v, w) = 0)' BY <1>6, <1>7 DEF UsedBy, Used
  <2>2. HeldBy(tl, v, w)' = HeldBy(td, v, w) BY <1>6 DEF HeldBy, Held
  <2>3. Consumed' = k BY <1>16, <1>18, <1>19
  <2>4. Reserved = SumWith(HeldRows, r, HeldBy(td, v, w)) BY <1>7 DEF Fine, Books
  <2> QED BY <1>14, <1>16, <1>17, <1>18, <2>1, <2>2, <2>3, <2>4 DEF Books, SumWith
<1>21. Recounted(tl, a)' BY <1>5 DEF Recounted
<1>22. Covered(tl, v, w)'
  <2> SUFFICES ASSUME "reserve" \in Range(tl), v.status # "draft"
               PROVE  (Balance + Back(tl, v) - Spent(tl, v, w)
                         - Positive(Reserved - Freed(tl, v)) >= w.days)'
    BY DEF Covered
  <2>1. /\ Back(td, v) = n /\ (Back(tl, v) = 0)' /\ (Freed(tl, v) = 0)' /\ Freed(td, v) = 0
    BY <1>6, <1>9 DEF Back, Freed
  <2>2. Covered(td, v, w) BY <1>7 DEF Fine
  <2>3. Balance + Back(td, v) - Spent(td, v, w) - Positive(Reserved - Freed(td, v)) >= w.days
    BY <1>6, <2>2 DEF Covered
  <2>4. Spent(tl, v, w)' = Spent(td, v, w)
    <3>1. PICK m : m = (account.expiry # 0 /\ w.start > account.expiry) OBVIOUS
    <3>2. Spent(td, v, w) = IF "open" \in Range(td) /\ m THEN Positive(c - cc) ELSE 0
      BY <1>6, <1>9, <1>14, <3>1 DEF Spent
    <3>3. (c - cc) - 0 = c - cc BY <1>15
    <3>4. Spent(tl, v, w)' = IF "open" \in Range(tl) /\ m THEN Positive(c - cc) ELSE 0
      BY <1>3, <1>6, <1>16, <3>1, <3>3 DEF Spent
    <3> QED BY <1>6, <3>2, <3>4
  <2>5. PICK s, p : s = Spent(td, v, w) /\ p = Positive(x - 0) OBVIOUS
  <2>6. s \in Nat /\ p \in Nat
    <3>1. Positive(c - cc) \in Nat /\ Positive(x - 0) \in Nat
      <4>1. c - cc \in Int /\ x - 0 \in Int BY <1>15
      <4> QED BY <4>1, PositiveRules
    <3> QED BY <1>6, <1>9, <1>14, <2>5, <3>1 DEF Spent
  <2>7. z + n - s - p >= w.days BY <1>14, <2>1, <2>3, <2>5
  <2>8. (z + n) + 0 - s - p >= w.days BY <1>5, <1>15, <2>6, <2>7
  <2> QED BY <1>16, <2>1, <2>4, <2>5, <2>8
<1>23. Solvent(tl, w)'
  <2> SUFFICES ASSUME (\A i \in DOMAIN ledger : ledger[i].type # "expiry")'
               PROVE  (/\ Positive(Reserved) <= Balance
                       /\ "consume" \in Range(tl) /\ "release" \notin Range(tl) =>
                            Positive(Reserved) + w.days <= Balance)'
    BY DEF Solvent
  <2>1. \A i \in DOMAIN ledger : ledger[i].type # "expiry"
    BY <1>2, <1>11, <1>12, EntryAdded DEF Keeps
  <2>2. /\ Positive(x) <= z
        /\ "consume" \in Range(td) => Positive(x) + w.days <= z
    BY <1>6, <1>7, <1>14, <2>1 DEF Fine, Solvent
  <2>3. PICK p \in Nat : p = Positive(x) BY <1>15, PositiveRules
  <2>4. p <= z + n /\ ("consume" \in Range(tl) => p + w.days <= z + n)
    BY <1>5, <1>6, <1>15, <2>2, <2>3
  <2>5. Positive(Reserved)' = p /\ Balance' = z + n BY <1>16, <2>3
  <2> QED BY <2>4, <2>5
<1>24. Fine(tl, r, v, w, a)' BY <1>5, <1>20, <1>21, <1>22, <1>23 DEF Fine
<1> QED BY <1>4, <1>5, <1>24, WorksOn

\* Insert: whatever the entry.
LEMMA InsertOrder ==
  ASSUME Core, NEW h \in Handlers, Works(h), Insert(h)
  PROVE  Works(h)'
<1>1. \/ \E s \in {"expire", "carry", "grant"} : At(h, s)
      \/ At(h, "release") \/ At(h, "reverse")
  BY DEF Insert
<1> QED BY <1>1, OwnEntryOrder, ReleaseOrder, ReverseOrder

\* Reserve: a draft that asks for too much stays one; days that were found to be
\* available in the preflight still are.
LEMMA ReserveOrder ==
  ASSUME Core, NEW h \in Handlers, Works(h), Reserve(h)
  PROVE  Works(h)' \/ (Quiet' /\ Calm')
<1>1. At(h, "reserve") BY DEF Reserve
<1>2. PICK td, tl, r, v, w, a, g : Task(h, "reserve", td, tl, r, v, w, a, g) BY <1>1, TaskKnown
<1>3. TypeOK BY DEF Core
<1>4. /\ r \in Requests /\ r # NoRequest /\ Fine(td, r, v, w, a) /\ w \in Request /\ v \in Request
      /\ Range(td) = Range(tl) \cup {"reserve"}
      /\ Range(tl) \subseteq {"sum", "store", "check", "save"}
      /\ tl # <<>> /\ Head(tl) = "sum"
      /\ w = copy[h] /\ a = acct[h] /\ v = old[h] /\ r = target[h]
  <2>1. "reserve" \notin RunSteps /\ "reserve" \in Inner BY DEF RunSteps, Inner, Steps
  <2>2. r \in Requests /\ r # NoRequest BY <1>2, <2>1, LeaveAssumption DEF Task
  <2>3. tl # <<>> /\ Follows("reserve", Head(tl)) BY <1>2, <2>1 DEF Task
  <2>4. Head(tl) = "sum" BY <2>3 DEF Follows, Inserts
  <2>5. Range(tl) \subseteq {"sum", "store", "check", "save"} BY <1>2 DEF Task, Precedes
  <2> QED BY <1>2, <2>2, <2>3, <2>4, <2>5 DEF Task
<1>5. w.status # "approved" /\ w.reservation = 0 /\ w.consumption = 0 /\ w.days \in Nat
  <2>1. w.status # "approved" /\ w.reservation = 0 BY <1>2, <1>4 DEF Task, SaneTask
  <2>2. w.consumption = 0 BY <1>2, <1>4, <2>1 DEF Task, SaneTask, Holds
  <2> QED BY <1>4, <2>1, <2>2 DEF Request
<1>6. Summed(account) /\ a = account BY <1>2, SummedNow
<1>7. PICK x, z, p : x = Reserved /\ z = Balance /\ p = Positive(Reserved) OBVIOUS
<1>8. x \in Int /\ z \in Int /\ p \in Nat BY <1>3, <1>7, TotalsTyped, PositiveRules
<1>9. a.current = z /\ a.reserved = p BY <1>6, <1>7 DEF Summed
<1>10. CASE z - p < w.days
  <2>1. Refuse(h) BY <1>4, <1>9, <1>10 DEF Reserve
  <2>2. v.status = "draft"
    <3> SUFFICES ASSUME v.status # "draft" PROVE FALSE OBVIOUS
    <3>1. Balance + Back(td, v) - Spent(td, v, w) - Positive(Reserved - Freed(td, v)) >= w.days
      BY <1>4 DEF Fine, Covered
    <3>2. Back(td, v) = 0 /\ Freed(td, v) = 0 /\ Spent(td, v, w) = 0
      BY <1>4 DEF Back, Freed, Spent
    <3>3. x - 0 = x BY <1>8
    <3>4. z + 0 - 0 - p >= w.days BY <1>7, <3>1, <3>2, <3>3
    <3> QED BY <1>5, <1>8, <1>10, <3>4
  <2>3. request[r] = v BY <1>4, <2>2 DEF Fine, Read
  <2>4. v.reservation = 0 /\ v.consumption = 0 BY <1>4, <2>2, <2>3, RequestRead
  <2>5. HeldBy(td, v, w) = Held(request[r]) /\ UsedBy(td, v, w) = Used(request[r])
    BY <1>4, <1>5, <2>3, <2>4 DEF HeldBy, UsedBy, Held, Used
  <2>6. \A q \in Requests : Proper(request[q]) BY <1>4, <2>2 DEF Fine, Rows
  <2> QED BY <1>3, <1>4, <1>6, <2>1, <2>5, <2>6, CalmDown DEF Refuse
<1>11. CASE ~(z - p < w.days)
  <2>1. PICK k, m : k = Len(ledger) + 1 /\ m = Least(1, Stages) OBVIOUS
  <2>2. PICK n \in Nat, d \in Nat : n = w.days /\ d = w.start
    <3>1. w.start \in Nat BY <1>4 DEF Request
    <3> QED BY <1>5, <3>1
  <2>3. /\ NewEntry(h, "reservation", n, 0, d)
        /\ copy' = [copy EXCEPT ![h].status = "submitted", ![h].reservation = k,
                                ![h].stage = m, ![h].recorded = {}]
        /\ Continue(h)
        /\ UNCHANGED <<request, account, target, old, acct, run>>
    BY <1>4, <1>9, <1>11, <2>1, <2>2 DEF Reserve, rest
  <2>4. PICK w2 : w2 = [w EXCEPT !.status = "submitted", !.reservation = k, !.stage = m,
                                 !.recorded = {}]
    OBVIOUS
  <2>5. copy' = [copy EXCEPT ![h] = w2] BY <1>3, <1>4, <2>3, <2>4 DEF TypeOK
  <2>6. copy'[h] = w2 /\ acct'[h] = a /\ old'[h] = v /\ target'[h] = r
    BY <1>3, <1>4, <2>3, <2>5 DEF TypeOK
  <2>7. todo'[h] = tl /\ Others(h)
    <3>1. todo'[h] = Tail(todo[h]) /\ Others(h) BY <1>3, <2>3, <2>5, GoesOn DEF TypeOK
    <3> QED BY <1>2, <3>1 DEF Task
  <2>8. PICK e : e = [type |-> "reservation", days |-> n, carry |-> 0, date |-> d,
                      request |-> target[h]]
    OBVIOUS
  <2>9. ledger' = Append(ledger, e) BY <2>3, <2>8 DEF NewEntry
  <2>10. e \in Entry /\ e.type = "reservation" /\ e.days = n /\ e.carry = 0
    <3>1. d \in Nat /\ n \in Int /\ 0 \in Int /\ target[h] \in Requests \cup {NoRequest}
      BY <1>3, <1>4, <2>2 DEF Request, TypeOK
    <3> QED BY <2>8, <3>1 DEF Entry, Types
  <2>11. Reserved' = x + n /\ Consumed' = Consumed /\ Balance' = z
    <3>1. Reserved' = x + n /\ Consumed' = Consumed + 0 /\ Balance' = z + 0
      BY <1>3, <1>7, <2>9, <2>10, EntryCounts DEF Credits, Debits
    <3>2. Consumed \in Int BY <1>3, TotalsTyped
    <3> QED BY <1>8, <3>1, <3>2
  <2>12. /\ w2.status = "submitted" /\ w2.reservation = k /\ w2.stage = m /\ w2.recorded = {}
         /\ w2.days = n /\ w2.consumption = 0 /\ w2.version = w.version
    BY <1>4, <1>5, <2>2, <2>4 DEF Request
  <2>13. k # 0
    <3>1. ledger \in Seq(Entry) BY <1>3 DEF TypeOK
    <3>2. Len(ledger) \in Nat BY <3>1, LenProperties
    <3> QED BY <2>1, <3>2
  <2>14. HeldRows' = HeldRows /\ UsedRows' = UsedRows BY <2>3, RowsSame
  <2>15. Read(tl, r, v, w2)' BY <1>4, <2>3, <2>12 DEF Fine, Read
  <2>16. Books(tl, r, v, w2)'
    <3>1. (HeldBy(tl, v, w2) = n)' /\ (UsedBy(tl, v, w2) = 0)'
      BY <1>4, <2>12, <2>13 DEF HeldBy, UsedBy, Held, Used
    <3>2. HeldBy(td, v, w) = 0 /\ UsedBy(td, v, w) = 0
      BY <1>4, <1>5 DEF HeldBy, UsedBy, Held, Used
    <3>3. x = SumWith(HeldRows, r, 0) /\ Consumed = SumWith(UsedRows, r, 0)
      BY <1>4, <1>7, <3>2 DEF Fine, Books
    <3>4. SumWith(HeldRows, r, n) = SumWith(HeldRows, r, 0) + n
      BY <1>3, <1>4, RowsTyped, SumWithAdds
    <3> QED BY <2>11, <2>14, <3>1, <3>3, <3>4 DEF Books, SumWith
  <2>17. Recounted(tl, a)' BY <1>4 DEF Recounted
  <2>18. Rows(tl, r, v, w2)'
    <3>1. Proper(w2)'
      <4>1. w2.status = "submitted" /\ w2.reservation # 0 BY <2>12, <2>13
      <4>2. CASE Stages = 0
        <5>1. w2.stage = 0 BY <2>1, <2>12, <4>2 DEF Least
        <5> QED BY <4>1, <4>2, <5>1 DEF Proper
      <4>3. CASE Stages # 0
        <5>1. Stages \in Nat BY LeaveAssumption
        <5>2. w2.stage = 1 /\ 1 \in 1..Stages BY <2>1, <2>12, <4>3, <5>1 DEF Least
        <5>3. 1..(w2.stage - 1) = {} BY <5>2
        <5>4. Passed(w2, w2.stage - 1)' BY <5>3 DEF Passed
        <5> QED BY <2>12, <4>1, <4>3, <5>2, <5>4 DEF Proper
      <4> QED BY <4>2, <4>3
    <3>2. Rows(td, r, v, w) BY <1>4 DEF Fine
    <3> QED BY <1>4, <2>3, <3>1, <3>2 DEF Rows, Proper, Passed, Approvers
  <2>19. Covered(tl, v, w2)' BY <1>4 DEF Covered
  <2>20. Solvent(tl, w2)'
    <3>1. Positive(x + n) <= z BY <1>7, <1>8, <1>11, <2>2 DEF Positive
    <3> QED BY <1>4, <2>11, <3>1 DEF Solvent
  <2>21. Fine(tl, r, v, w2, a)' BY <2>15, <2>16, <2>17, <2>18, <2>19, <2>20 DEF Fine
  <2> QED BY <1>4, <2>6, <2>7, <2>21, WorksOn
<1> QED BY <1>10, <1>11

\* Consume: the days that were reserved, and released before, are charged.
LEMMA ConsumeOrder ==
  ASSUME Core, NEW h \in Handlers, Works(h), Consume(h)
  PROVE  Works(h)'
<1>1. At(h, "consume") BY DEF Consume
<1>2. PICK td, tl, r, v, w, a, g : Task(h, "consume", td, tl, r, v, w, a, g) BY <1>1, TaskKnown
<1>3. TypeOK BY DEF Core
<1>4. /\ r \in Requests /\ r # NoRequest /\ Fine(td, r, v, w, a) /\ w \in Request /\ v \in Request
      /\ Range(td) = Range(tl) \cup {"consume"}
      /\ Range(tl) \subseteq {"sum", "store", "check", "save"}
      /\ tl # <<>> /\ Head(tl) = "sum"
      /\ w = copy[h] /\ a = acct[h] /\ v = old[h] /\ r = target[h]
  <2>1. "consume" \notin RunSteps /\ "consume" \in Inner BY DEF RunSteps, Inner, Steps
  <2>2. r \in Requests /\ r # NoRequest BY <1>2, <2>1, LeaveAssumption DEF Task
  <2>3. tl # <<>> /\ Follows("consume", Head(tl)) BY <1>2, <2>1 DEF Task
  <2>4. Head(tl) = "sum" BY <2>3 DEF Follows, Inserts
  <2>5. Range(tl) \subseteq {"sum", "store", "check", "save"} BY <1>2 DEF Task, Precedes
  <2> QED BY <1>2, <2>2, <2>3, <2>4, <2>5 DEF Task
<1>5. w.status = "approved" /\ w.consumption = 0 /\ w.days \in Nat /\ Proper(w)
  <2>1. w.status = "approved" BY <1>2, <1>4 DEF Task, SaneTask
  <2>2. w.consumption = 0 BY <1>4 DEF Fine, Read
  <2>3. Proper(w) BY <1>4 DEF Fine, Rows
  <2> QED BY <1>4, <2>1, <2>2, <2>3 DEF Request
<1>6. PICK x, z, p : x = Consumed /\ z = Balance /\ p = Positive(Reserved) OBVIOUS
<1>7. x \in Int /\ z \in Int /\ p \in Nat /\ Reserved \in Int
  BY <1>3, <1>6, TotalsTyped, PositiveRules
<1>8. PICK k, n, d, c : k = Len(ledger) + 1 /\ n = w.days /\ d = w.start /\ c = -carried[h]
  OBVIOUS
<1>9. n \in Nat /\ d \in Nat /\ c \in Int
  <2>1. carried[h] \in Nat BY <1>3 DEF TypeOK
  <2> QED BY <1>4, <1>5, <1>8, <2>1 DEF Request
<1>10. /\ NewEntry(h, "consumption", n, c, d)
       /\ copy' = [copy EXCEPT ![h].consumption = k] /\ Continue(h)
       /\ UNCHANGED <<request, account, target, old, acct, run>>
  BY <1>4, <1>8 DEF Consume, rest
<1>11. PICK w2 : w2 = [w EXCEPT !.consumption = k] OBVIOUS
<1>12. copy' = [copy EXCEPT ![h] = w2] BY <1>3, <1>4, <1>10, <1>11 DEF TypeOK
<1>13. copy'[h] = w2 /\ acct'[h] = a /\ old'[h] = v /\ target'[h] = r
  BY <1>3, <1>4, <1>10, <1>12 DEF TypeOK
<1>14. todo'[h] = tl /\ Others(h)
  <2>1. todo'[h] = Tail(todo[h]) /\ Others(h) BY <1>3, <1>10, <1>12, GoesOn DEF TypeOK
  <2> QED BY <1>2, <2>1 DEF Task
<1>15. PICK e : e = [type |-> "consumption", days |-> n, carry |-> c, date |-> d,
                     request |-> target[h]]
  OBVIOUS
<1>16. ledger' = Append(ledger, e) BY <1>10, <1>15 DEF NewEntry
<1>17. e \in Entry /\ e.type = "consumption" /\ e.days = n
  <2>1. n \in Int /\ target[h] \in Requests \cup {NoRequest} BY <1>3, <1>9 DEF TypeOK
  <2> QED BY <1>9, <1>15, <2>1 DEF Entry, Types, Debits
<1>18. Reserved' = Reserved /\ Consumed' = x + n /\ Balance' = z - n
  <2>1. Reserved' = Reserved + 0 /\ Consumed' = x + n /\ Balance' = z + (-n)
    BY <1>3, <1>6, <1>16, <1>17, EntryCounts DEF Credits, Debits
  <2> QED BY <1>7, <1>9, <2>1
<1>19. /\ w2.status = "approved" /\ w2.consumption = k /\ w2.reservation = w.reservation
       /\ w2.days = n /\ w2.version = w.version /\ w2.by = w.by
  BY <1>4, <1>5, <1>8, <1>11 DEF Request
<1>20. k # 0
  <2>1. ledger \in Seq(Entry) BY <1>3 DEF TypeOK
  <2>2. Len(ledger) \in Nat BY <2>1, LenProperties
  <2> QED BY <1>8, <2>2
<1>21. HeldRows' = HeldRows /\ UsedRows' = UsedRows BY <1>10, RowsSame
<1>22. Read(tl, r, v, w2)' BY <1>4, <1>10, <1>19 DEF Fine, Read
<1>23. Books(tl, r, v, w2)'
  <2>1. (UsedBy(tl, v, w2) = n)' BY <1>4, <1>19, <1>20 DEF UsedBy, Used
  <2>2. HeldBy(tl, v, w2)' = HeldBy(td, v, w)
    BY <1>4, <1>8, <1>19 DEF HeldBy, Held
  <2>3. UsedBy(td, v, w) = 0 BY <1>4, <1>5 DEF UsedBy, Used
  <2>4. x = SumWith(UsedRows, r, 0) /\ Reserved = SumWith(HeldRows, r, HeldBy(td, v, w))
    BY <1>4, <1>6, <2>3 DEF Fine, Books
  <2>5. SumWith(UsedRows, r, n) = SumWith(UsedRows, r, 0) + n
    BY <1>3, <1>4, <1>9, RowsTyped, SumWithAdds
  <2> QED BY <1>18, <1>21, <2>1, <2>2, <2>4, <2>5 DEF Books, SumWith
<1>24. Recounted(tl, a)' BY <1>4 DEF Recounted
<1>25. Rows(tl, r, v, w2)'
  <2>1. Proper(w2)' BY <1>5, <1>19 DEF Proper, Passed, Approvers
  <2>2. Rows(td, r, v, w) BY <1>4 DEF Fine
  <2> QED BY <1>4, <1>10, <2>1, <2>2 DEF Rows, Proper, Passed, Approvers
<1>26. Covered(tl, v, w2)' BY <1>4 DEF Covered
<1>27. Solvent(tl, w2)'
  <2> SUFFICES ASSUME (\A i \in DOMAIN ledger : ledger[i].type # "expiry")'
               PROVE  (Positive(Reserved) <= Balance)'
    BY <1>4 DEF Solvent
  <2>1. \A i \in DOMAIN ledger : ledger[i].type # "expiry"
    BY <1>3, <1>16, <1>17, EntryAdded DEF Keeps
  <2>2. p + n <= z BY <1>4, <1>6, <1>8, <2>1 DEF Fine, Solvent
  <2>3. p <= z - n BY <1>7, <1>9, <2>2
  <2> QED BY <1>6, <1>18, <2>3
<1>28. Fine(tl, r, v, w2, a)' BY <1>22, <1>23, <1>24, <1>25, <1>26, <1>27 DEF Fine
<1> QED BY <1>4, <1>13, <1>14, <1>28, WorksOn

\* Save: the request as it was prepared, with what was made for it.
LEMMA SaveOrder ==
  ASSUME Core, NEW h \in Handlers, Works(h), Save(h)
  PROVE  Works(h)' \/ (Quiet' /\ Calm')
<1>1. At(h, "save") BY DEF Save
<1>2. PICK td, tl, r, v, w, a, g : Task(h, "save", td, tl, r, v, w, a, g) BY <1>1, TaskKnown
<1>3. TypeOK BY DEF Core
<1>4. /\ r \in Requests /\ r # NoRequest /\ Fine(td, r, v, w, a) /\ w \in Request /\ v \in Request
      /\ Range(td) = Range(tl) \cup {"save"} /\ Range(tl) \subseteq Saved
      /\ w = copy[h] /\ a = acct[h] /\ v = old[h] /\ r = target[h]
      /\ tl # <<>> => Head(tl) = "open"
      /\ "open" \in Range(tl) => v.status # "draft"
      /\ "reserve" \in Range(td) => w.status # "approved"
      /\ todo[h] = td /\ tl = Tail(td) /\ td # <<>> /\ Shape(td)
  <2>1. "save" \notin RunSteps BY DEF RunSteps
  <2>2. r \in Requests /\ r # NoRequest BY <1>2, <2>1, LeaveAssumption DEF Task
  <2>3. tl # <<>> => Head(tl) = "open" BY <1>2 DEF Task, Follows, Inserts
  <2>4. Range(tl) \subseteq Saved BY <1>2 DEF Task, Precedes
  <2>5. "reserve" \in Range(td) => w.status # "approved" BY <1>2 DEF Task, SaneTask
  <2>6. Shape(td) BY <1>2 DEF Task, SaneTask
  <2> QED BY <1>2, <2>2, <2>3, <2>4, <2>5, <2>6 DEF Task
<1>5. /\ "release" \notin Range(td) /\ "reverse" \notin Range(td) /\ "preflight" \notin Range(td)
      /\ "expire" \notin Range(td) /\ "consume" \notin Range(td)
  BY <1>4 DEF Saved
<1>6. Summed(account) BY <1>2, SummedNow
<1>7. PICK x : x = [w EXCEPT !.version = @ + 1] OBVIOUS
<1>8. /\ request' = [request EXCEPT ![r] = x] /\ UNCHANGED <<ledger, account>>
      /\ IF Len(td) = 1 THEN Done(h)
         ELSE /\ Continue(h) /\ copy' = [copy EXCEPT ![h] = x]
              /\ UNCHANGED <<target, old, acct, run>>
  BY <1>4, <1>7 DEF Save
<1>9. /\ x.status = w.status /\ x.days = w.days /\ x.start = w.start
      /\ x.reservation = w.reservation /\ x.consumption = w.consumption
      /\ x.stage = w.stage /\ x.recorded = w.recorded /\ x.by = w.by /\ x \in Request
  <2>1. w.version \in Nat BY <1>4 DEF Request
  <2>2. PICK i \in Nat : i = w.version + 1 BY <2>1
  <2>3. x = [w EXCEPT !.version = i] BY <1>7, <2>2
  <2> QED BY <1>4, <2>3 DEF Request
<1>10. request'[r] = x /\ \A q \in Requests : q # r => request'[q] = request[q]
  BY <1>3, <1>4, <1>8 DEF TypeOK
<1>11. PICK m, n : m = Held(x) /\ n = Used(x) OBVIOUS
<1>12. /\ m = Held(w) /\ n = Used(w) /\ m \in Nat /\ n \in Nat
       /\ (Held(x) = m)' /\ (Used(x) = n)'
  <2>1. m \in Nat /\ n \in Nat BY <1>3, <1>9, <1>11, RowsTyped
  <2> QED BY <1>9, <1>11, <2>1 DEF Held, Used
<1>13. PICK f, g1, f2, g2 : f = HeldRows /\ g1 = UsedRows /\ f2 = HeldRows' /\ g2 = UsedRows'
  OBVIOUS
<1>14. /\ f \in [Requests -> Nat] /\ g1 \in [Requests -> Nat]
       /\ f2 \in [Requests -> Nat] /\ g2 \in [Requests -> Nat]
       /\ f2[r] = m /\ g2[r] = n
       /\ \A q \in Requests : q # r => f2[q] = f[q] /\ g2[q] = g1[q]
  <2>1. f \in [Requests -> Nat] /\ g1 \in [Requests -> Nat] BY <1>3, <1>13, RowsTyped
  <2>2. f2 = [q \in Requests |-> f2[q]] /\ g2 = [q \in Requests |-> g2[q]]
    BY <1>13 DEF HeldRows, UsedRows
  <2>3. \A q \in Requests : q # r => f2[q] = f[q] /\ g2[q] = g1[q]
    BY <1>10, <1>13 DEF HeldRows, UsedRows, Held, Used
  <2>4. f2[r] = m /\ g2[r] = n
    BY <1>4, <1>10, <1>11, <1>13 DEF HeldRows, UsedRows, Held, Used
  <2>5. \A q \in Requests : f2[q] \in Nat /\ g2[q] \in Nat BY <1>12, <2>1, <2>3, <2>4
  <2> QED BY <2>1, <2>2, <2>3, <2>4, <2>5
<1>15. Reserved = SumWith(f, r, m) /\ Consumed = SumWith(g1, r, n)
  <2>1. HeldBy(td, v, w) = m /\ UsedBy(td, v, w) = n BY <1>5, <1>12 DEF HeldBy, UsedBy
  <2> QED BY <1>4, <1>13, <2>1 DEF Fine, Books
<1>16. Reserved = SumWith(f2, r, m) /\ Consumed = SumWith(g2, r, n)
  BY <1>14, <1>15, SumWithOthers
<1>17. /\ Reserved' = Reserved /\ Consumed' = Consumed /\ Balance' = Balance /\ Carry' = Carry
  BY <1>8, TotalsSame
<1>18. Summed(account)' BY <1>6, <1>8, <1>17 DEF Summed
<1>19. /\ \A q \in Requests : q # r => Proper(request[q])'
       /\ "reserve" \notin Range(td) => Proper(x)'
  <2>1. /\ \A q \in Requests : q # r => Proper(request[q])
        /\ "reserve" \notin Range(td) => Proper(w)
    BY <1>4 DEF Fine, Rows
  <2> QED BY <1>9, <1>10, <2>1 DEF Proper, Passed, Approvers
<1>20. CASE Len(td) = 1
  <2>1. Done(h) /\ Range(td) = {"save"}
    <3>1. tl = <<>>
      <4>1. Shape(tl) /\ Len(tl) = Len(td) - 1 BY <1>4, TailShape
      <4>2. Len(tl) = 0 BY <1>20, <4>1
      <4> QED BY <4>1, <4>2, EmptySeq DEF Shape
    <3>2. Range(tl) = {} BY <3>1, ShortLists
    <3> QED BY <1>4, <1>8, <1>20, <3>2
  <2>2. Quiet' BY <1>3, <2>1, NobodyWorks
  <2>3. Proper(x)' BY <1>19, <2>1
  <2>4. \A q \in Requests : Proper(request[q])' BY <1>10, <1>19, <2>3
  <2>5. Reserved = SumFunctionOnSet(f2, Requests) /\ Consumed = SumFunctionOnSet(g2, Requests)
    <3>1. 0 \in Nat OBVIOUS
    <3> QED BY <1>4, <1>14, <1>16, <3>1, SumWithAdds
  <2> DEFINE t == <<>>
  <2>6. Range(t) = {} BY ShortLists
  <2>7. PICK i, j : i = HeldBy(t, NoRecord, NoRecord)' /\ j = UsedBy(t, NoRecord, NoRecord)'
    OBVIOUS
  <2>8. Reserved = SumWith(f2, NoRequest, i) /\ Consumed = SumWith(g2, NoRequest, j)
    BY <1>14, <2>5, SumWithNone
  <2>9. Books(t, NoRequest, NoRecord, NoRecord)'
    BY <1>13, <1>17, <2>7, <2>8 DEF Books, SumWith
  <2>10. Read(t, NoRequest, NoRecord, NoRecord)' BY <2>6 DEF Read
  <2>11. Recounted(t, NoAccount)' BY <1>18 DEF Recounted
  <2>12. Rows(t, NoRequest, NoRecord, NoRecord)' BY <2>4 DEF Rows
  <2>13. Covered(t, NoRecord, NoRecord)' BY <2>6 DEF Covered
  <2>14. Solvent(t, NoRecord)' BY <1>4, <1>8, <1>17, <2>6 DEF Fine, Solvent
  <2>15. Calm'
    <3> HIDE DEF t
    <3>1. Fine(t, NoRequest, NoRecord, NoRecord, NoAccount)'
      BY <2>9, <2>10, <2>11, <2>12, <2>13, <2>14 DEF Fine
    <3> QED BY <3>1 DEF Calm, t
  <2> QED BY <2>2, <2>15
<1>21. CASE Len(td) # 1
  <2>1. tl # <<>>
    <3>1. Shape(tl) /\ Len(tl) = Len(td) - 1 /\ Len(td) \in Nat \ {0} BY <1>4, TailShape
    <3>2. Len(tl) # 0 BY <1>21, <3>1
    <3>3. Len(<<>>) = 0 OBVIOUS
    <3> QED BY <3>2, <3>3
  <2>2. Head(tl) = "open" /\ v.status # "draft"
    <3>1. Head(tl) = "open" BY <1>4, <2>1
    <3>2. tl \in Seq(Steps)
      <4>1. Shape(tl) BY <1>4, TailShape
      <4> QED BY <4>1 DEF Shape
    <3>3. "open" \in Range(tl) BY <2>1, <3>1, <3>2, RangeSeq
    <3> QED BY <1>4, <3>1, <3>3
  <2>3. copy'[h] = x /\ acct'[h] = a /\ old'[h] = v /\ target'[h] = r
    BY <1>3, <1>4, <1>8, <1>21 DEF TypeOK
  <2>4. todo'[h] = tl /\ Others(h)
    <3>1. todo'[h] = Tail(todo[h]) /\ Others(h) BY <1>3, <1>8, <1>21, GoesOn DEF TypeOK
    <3> QED BY <1>4, <3>1
  <2>5. /\ "release" \notin Range(tl) /\ "reverse" \notin Range(tl)
        /\ "preflight" \notin Range(tl) /\ "expire" \notin Range(tl) /\ "consume" \notin Range(tl)
        /\ "open" \in Range(tl) <=> "open" \in Range(td)
        /\ "reserve" \in Range(tl) <=> "reserve" \in Range(td)
    BY <1>4, <1>5
  <2>6. Read(tl, r, v, x)' BY <1>4, <1>9, <1>10, <2>2, <2>5 DEF Fine, Read
  <2>7. Books(tl, r, v, x)'
    <3>1. (HeldBy(tl, v, x) = m)' /\ (UsedBy(tl, v, x) = n)'
      BY <1>12, <2>5 DEF HeldBy, UsedBy
    <3> QED BY <1>13, <1>16, <1>17, <3>1 DEF Books, SumWith
  <2>8. Recounted(tl, a)' BY <1>18, <2>2 DEF Recounted
  <2>9. Rows(tl, r, v, x)'
    <3>1. \A q \in Requests : \/ Proper(request[q])'
                              \/ q = r /\ request'[q].status # "approved"
      BY <1>4, <1>9, <1>10, <1>19
    <3> QED BY <1>19, <2>2, <2>5, <3>1 DEF Rows
  <2>10. Covered(tl, v, x)'
    <3>1. Covered(td, v, w) BY <1>4 DEF Fine
    <3>2. /\ Back(tl, v)' = Back(td, v) /\ Freed(tl, v)' = Freed(td, v)
          /\ Spent(tl, v, x)' = Spent(td, v, w)
      BY <1>5, <1>8, <1>9, <1>17, <2>5 DEF Back, Freed, Spent
    <3> QED BY <1>5, <1>9, <1>17, <2>5, <3>1, <3>2 DEF Covered
  <2>11. Solvent(tl, x)' BY <1>4, <1>8, <1>17, <2>5 DEF Fine, Solvent
  <2>12. Fine(tl, r, v, x, a)' BY <2>6, <2>7, <2>8, <2>9, <2>10, <2>11 DEF Fine
  <2> QED BY <2>1, <2>3, <2>4, <2>12, WorksOn
<1> QED BY <1>20, <1>21

\* Complete: a run is about no request.
LEMMA CompleteOrder ==
  ASSUME Core, NEW h \in Handlers, Works(h), Complete(h)
  PROVE  Quiet' /\ Calm'
<1>1. At(h, "complete") BY DEF Complete
<1>2. PICK td, tl, r, v, w, a, g : Task(h, "complete", td, tl, r, v, w, a, g)
  BY <1>1, TaskKnown
<1>3. TypeOK /\ r = NoRequest /\ Fine(td, r, v, w, a) BY <1>2 DEF Core, Task, RunOnly
<1>4. Done(h) /\ UNCHANGED <<request, ledger, account>> BY DEF Complete
<1>5. Summed(account) BY <1>2, SummedNow
<1>6. r \notin Requests BY <1>3, LeaveAssumption
<1>7. \A q \in Requests : Proper(request[q]) BY <1>3, <1>6 DEF Fine, Rows
<1> QED BY <1>3, <1>4, <1>5, <1>6, <1>7, CalmDown

\* StoreRefused: nobody else has saved the account.
LEMMA NotRefused ==
  ASSUME Core, NEW h \in Handlers, Works(h), StoreRefused(h)
  PROVE  FALSE
<1>1. At(h, "store") /\ account.version # acct[h].version BY DEF StoreRefused
<1>2. PICK td, tl, r, v, w, a, g : Task(h, "store", td, tl, r, v, w, a, g) BY <1>1, TaskKnown
<1>3. a = acct[h] /\ a.version = account.version BY <1>2 DEF Task, Fine, Recounted
<1> QED BY <1>1, <1>3

-----------------------------------------------------------------------------
(* PROOFS: operations that begin in order *)

\* An operation that reads what is in order, and agrees with it.
LEMMA BeginOrder ==
  ASSUME Core, Quiet, Calm, NEW h \in Handlers, NEW r \in Requests \cup {NoRequest},
         NEW v, NEW w, NEW g, NEW td, Begin(h, r, v, w, g, td), td # <<>>,
         Head(td) \in {"open", "preflight", "check", "release", "reverse"},
         Read(td, r, v, w),
         r \in Requests => /\ HeldBy(td, v, w) = Held(request[r])
                           /\ UsedBy(td, v, w) = Used(request[r]),
         "reserve" \in Range(td) => "preflight" \in Range(td) \/ v.status = "draft",
         "consume" \in Range(td) => "release" \in Range(td),
         r # NoRequest /\ "reserve" \notin Range(td) => Proper(w)
  PROVE  Works(h)'
<1>1. TypeOK BY DEF Core
<1>2. Settled BY <1>1, CalmIsSettled
<1>3. /\ HeldRows \in [Requests -> Nat] /\ UsedRows \in [Requests -> Nat]
      /\ \A q \in Requests : HeldRows[q] = Held(request[q]) /\ UsedRows[q] = Used(request[q])
  BY <1>1, RowsTyped
<1>4. PICK m, n : m = HeldBy(td, v, w) /\ n = UsedBy(td, v, w) OBVIOUS
<1>5. /\ SumWith(HeldRows, r, m) = SumFunctionOnSet(HeldRows, Requests)
      /\ SumWith(UsedRows, r, n) = SumFunctionOnSet(UsedRows, Requests)
  <2>1. CASE r \in Requests
    <3>1. m = HeldRows[r] /\ n = UsedRows[r] BY <1>3, <1>4, <2>1
    <3>2. /\ SumWith(HeldRows, r, HeldRows[r]) = SumFunctionOnSet(HeldRows, Requests)
          /\ SumWith(UsedRows, r, UsedRows[r]) = SumFunctionOnSet(UsedRows, Requests)
      <4>1. 0 \in Nat OBVIOUS
      <4> QED BY <1>3, <2>1, <4>1, SumWithAdds
    <3> QED BY <3>1, <3>2
  <2>2. CASE r = NoRequest BY <1>3, <2>2, SumWithNone
  <2> QED BY <2>1, <2>2
<1>6. Books(td, r, v, w) BY <1>2, <1>4, <1>5 DEF Settled, Books
<1>7. PICK a : a = acct[h] OBVIOUS
<1>8. Recounted(td, a) BY <1>2 DEF Settled, Recounted
<1>9. Rows(td, r, v, w) BY <1>2 DEF Settled, Rows
<1>10. Covered(td, v, w) BY DEF Covered
<1>11. Solvent(td, w) BY <1>2 DEF Settled, Solvent
<1>12. Fine(td, r, v, w, a) BY <1>6, <1>8, <1>9, <1>10, <1>11 DEF Fine
<1>13. UNCHANGED <<request, ledger, account, acct>> BY DEF Begin
<1>14. Fine(td, r, v, w, a)' BY <1>12, <1>13, FineSame
<1>15. /\ todo'[h] = td /\ target'[h] = r /\ old'[h] = v /\ copy'[h] = w /\ acct'[h] = a
       /\ \A k \in Handlers \ {h} : todo'[k] = <<>>
  BY <1>1, <1>7, <1>13 DEF Begin, TypeOK, Quiet
<1>16. Fine(todo[h], target[h], old[h], copy[h], acct[h])' BY <1>14, <1>15
<1> QED BY <1>15, <1>16 DEF Works

\* What prepared records keep of the request that was read.
LEMMA RecordsKeep ==
  ASSUME NEW v \in Request
  PROVE  /\ \A n \in NewDays, start \in Dates :
              /\ Prepared(v, n, start).version = v.version
              /\ Amended(v, n, start).version = v.version
         /\ \A s \in Statuses :
              /\ Closed(v, s).version = v.version /\ Closed(v, s).days = v.days
              /\ Closed(v, s).by = v.by
<1>1. ASSUME NEW n \in NewDays, NEW start \in Dates
      PROVE  Prepared(v, n, start).version = v.version /\ Amended(v, n, start).version = v.version
  <2>1. PICK x : x = [v EXCEPT !.days = n, !.start = start, !.stage = 0, !.by = {}] OBVIOUS
  <2>2. PICK y : y = [x EXCEPT !.status = "submitted", !.reservation = 0, !.consumption = 0]
    OBVIOUS
  <2>3. x.version = v.version /\ y.version = v.version BY <2>1, <2>2 DEF Request
  <2>4. Prepared(v, n, start) = x BY <2>1 DEF Prepared
  <2>5. Amended(v, n, start) = y BY <2>2, <2>4 DEF Amended
  <2> QED BY <2>3, <2>4, <2>5
<1>2. ASSUME NEW s \in Statuses
      PROVE  /\ Closed(v, s).version = v.version /\ Closed(v, s).days = v.days
             /\ Closed(v, s).by = v.by
  <2>1. PICK x : x = [v EXCEPT !.status = s, !.reservation = 0, !.consumption = 0, !.stage = 0]
    OBVIOUS
  <2>2. x.version = v.version /\ x.days = v.days /\ x.by = v.by BY <2>1 DEF Request
  <2> QED BY <2>1, <2>2 DEF Closed
<1> QED BY <1>1, <1>2

\* Edit and Submit.
LEMMA DraftOrder ==
  ASSUME Core, Quiet, Calm, NEW h \in Handlers, NEW r \in Requests,
         Submit(h, r) \/ \E n \in NewDays, start \in Dates : Edit(h, r, n, start)
  PROVE  Works(h)'
<1>1. PICK v : v = request[r] OBVIOUS
<1>2. v \in Request /\ v.status = "draft" /\ v.reservation = 0 /\ v.consumption = 0
      /\ r # NoRequest
  <2>1. v.status = "draft" BY <1>1 DEF Submit, Edit
  <2> QED BY <1>1, <2>1, RequestRead
<1>3. CASE Submit(h, r)
  <2>1. PICK td : td = Submitting OBVIOUS
  <2>2. Begin(h, r, v, v, {}, td) BY <1>1, <1>3, <2>1 DEF Submit
  <2>3. /\ td # <<>> /\ Head(td) = "open"
        /\ Range(td) = {"open", "reserve", "sum", "store", "check", "save"}
    BY <2>1, SubmitList
  <2>4. Read(td, r, v, v) BY <1>1, <1>2, <2>3 DEF Read
  <2>5. HeldBy(td, v, v) = Held(request[r]) /\ UsedBy(td, v, v) = Used(request[r])
    BY <1>1, <2>3 DEF HeldBy, UsedBy
  <2> QED BY <1>2, <2>2, <2>3, <2>4, <2>5, BeginOrder
<1>4. ASSUME NEW n \in NewDays, NEW start \in Dates, Edit(h, r, n, start) PROVE Works(h)'
  <2>1. PICK w : w = Prepared(v, n, start) OBVIOUS
  <2>2. w.status = "draft" /\ w.reservation = 0 /\ w.consumption = 0 /\ w.version = v.version
    BY <1>2, <2>1, RecordsTyped, RecordsKeep
  <2>3. PICK td : td = Update OBVIOUS
  <2>4. Begin(h, r, v, w, {}, td) BY <1>1, <1>4, <2>1, <2>3 DEF Edit
  <2>5. td # <<>> /\ Head(td) = "check" /\ Range(td) = {"check", "save"}
    BY <2>3, UpdateOnly
  <2>6. Read(td, r, v, w) BY <1>1, <1>2, <2>2, <2>5 DEF Read
  <2>7. HeldBy(td, v, w) = Held(request[r]) /\ UsedBy(td, v, w) = Used(request[r])
    BY <1>1, <1>2, <2>2, <2>5 DEF HeldBy, UsedBy, Held, Used
  <2>8. Proper(w) BY <2>2 DEF Proper
  <2> QED BY <2>4, <2>5, <2>6, <2>7, <2>8, BeginOrder
<1> QED BY <1>3, <1>4

\* A list of statements that begins with one and its recomputation is not empty.
LEMMA GivesBack ==
  ASSUME NEW x \in {"release", "reverse"}
  PROVE  <<x>> \o Recount # <<>>
<1>1. x \in Steps BY DEF Steps
<1>2. <<x>> \in Seq(Steps) /\ Recount \in Seq(Steps) BY <1>1, Phrases
<1>3. Len(<<x>> \o Recount) = Len(<<x>>) + Len(Recount) BY <1>2, ConcatProperties, Zenon
<1>4. Len(<<x>>) = 1 /\ Len(Recount) = 2 /\ Len(<<>>) = 0 BY DEF Recount
<1> QED BY <1>3, <1>4

\* Cancel and Reject: what the request holds is given back before it is closed.
LEMMA CloseOrder ==
  ASSUME Core, Quiet, Calm, NEW h \in Handlers, NEW r \in Requests,
         Cancel(h, r) \/ \E u \in Users : Reject(h, r, u)
  PROVE  Works(h)'
<1>1. PICK v : v = request[r] OBVIOUS
<1>2. /\ v \in Request /\ r # NoRequest
      /\ v.status # "approved" => v.consumption = 0
      /\ v.reservation # 0 => v.status = "submitted"
  BY <1>1, RequestRead
<1>3. PICK s \in {"cancelled", "rejected"} :
         \/ /\ v.status \in {"draft", "submitted"}
            /\ Begin(h, r, v, Closed(v, s), {}, Releasing(v) \o Update)
         \/ /\ v.status = "approved"
            /\ Begin(h, r, v, Closed(v, s), {}, Reversing(v) \o Update)
  BY <1>1 DEF Cancel, Reject
<1>4. PICK w : w = Closed(v, s) OBVIOUS
<1>5. w.status = s /\ w.reservation = 0 /\ w.consumption = 0 /\ w.version = v.version
  <2>1. s \in Statuses BY DEF Statuses
  <2> QED BY <1>2, <1>4, <2>1, RecordsTyped, RecordsKeep
<1>6. Proper(w) BY <1>5 DEF Proper
<1> DEFINE Given(x, b) == /\ x \in {"release", "reverse"}
                          /\ b = <<>> \/ b = <<x>> \o Recount
                          /\ x = "release" => /\ v.consumption = 0
                                              /\ v.reservation = 0 <=> b = <<>>
                          /\ x = "reverse" => /\ v.reservation = 0
                                              /\ v.consumption = 0 <=> b = <<>>
                          /\ v.status # "none"
                          /\ Begin(h, r, v, w, {}, b \o Update)
<1>7. PICK x, b : Given(x, b)
  <2> DEFINE e == Releasing(v)  f == Reversing(v)  k == <<"release">> \o Recount
             j == <<"reverse">> \o Recount
  <2>2. /\ v.reservation = 0 => e = <<>>
        /\ v.reservation # 0 => e = k
        /\ v.consumption = 0 => f = <<>>
        /\ v.consumption # 0 => f = j
    BY GivingBack
  <2>3. k # <<>> /\ j # <<>> BY GivesBack
  <2>4. \/ v.status \in {"draft", "submitted"} /\ Begin(h, r, v, w, {}, e \o Update)
        \/ v.status = "approved" /\ Begin(h, r, v, w, {}, f \o Update)
    BY <1>3, <1>4
  <2> HIDE DEF e, f
  <2>5. CASE v.status \in {"draft", "submitted"} /\ Begin(h, r, v, w, {}, e \o Update)
    <3> HIDE DEF k, j
    <3>1. /\ e = <<>> \/ e = k
          /\ v.consumption = 0 /\ (v.reservation = 0 <=> e = <<>>)
      BY <1>2, <2>2, <2>3, <2>5
    <3>2. Given("release", e)
      <4> USE DEF k
      <4> QED BY <2>5, <3>1
    <3> HIDE DEF Given
    <3> QED BY <3>2
  <2>6. CASE v.status = "approved" /\ Begin(h, r, v, w, {}, f \o Update)
    <3> HIDE DEF k, j
    <3>1. /\ f = <<>> \/ f = j
          /\ v.reservation = 0 /\ (v.consumption = 0 <=> f = <<>>)
      BY <1>2, <2>2, <2>3, <2>6
    <3>2. Given("reverse", f)
      <4> USE DEF j
      <4> QED BY <2>6, <3>1
    <3> HIDE DEF Given
    <3> QED BY <3>2
  <2> QED BY <2>4, <2>5, <2>6
<1>8. PICK td : td = b \o Update OBVIOUS
<1>9. /\ td # <<>> /\ Head(td) \in {"check", x}
      /\ b = <<>> => Range(td) = {"check", "save"}
      /\ b = <<x>> \o Recount => Range(td) = {x, "sum", "store", "check", "save"}
  BY <1>7, <1>8, CloseList
<1> HIDE DEF Recount
<1>10. /\ Begin(h, r, v, w, {}, td)
       /\ "reserve" \notin Range(td) /\ "consume" \notin Range(td)
       /\ "preflight" \notin Range(td) /\ "open" \notin Range(td)
       /\ "release" \in Range(td) <=> v.reservation # 0
       /\ "reverse" \in Range(td) <=> v.consumption # 0
       /\ Head(td) \in {"open", "preflight", "check", "release", "reverse"}
  BY <1>7, <1>8, <1>9
<1>11. Read(td, r, v, w) BY <1>1, <1>3, <1>5, <1>7, <1>10 DEF Read
<1>12. HeldBy(td, v, w) = Held(request[r]) /\ UsedBy(td, v, w) = Used(request[r])
  BY <1>1, <1>5, <1>10 DEF HeldBy, UsedBy, Held, Used
<1> QED BY <1>6, <1>9, <1>10, <1>11, <1>12, BeginOrder

\* Amend: what the request holds is given back before it is saved without it.
LEMMA AmendOrder ==
  ASSUME Core, Quiet, Calm, NEW h \in Handlers, NEW r \in Requests, NEW n \in NewDays,
         NEW start \in Dates, Amend(h, r, n, start)
  PROVE  Works(h)'
<1>1. PICK v : v = request[r] OBVIOUS
<1>2. /\ v \in Request /\ r # NoRequest /\ v.status \in {"submitted", "approved"}
      /\ v.status # "approved" => v.consumption = 0
      /\ v.reservation # 0 => v.status = "submitted"
  <2>1. v.status \in {"submitted", "approved"} BY <1>1 DEF Amend
  <2> QED BY <1>1, <2>1, RequestRead
<1>4. PICK w : w = Amended(v, n, start) OBVIOUS
<1>5. w.status = "submitted" /\ w.reservation = 0 /\ w.consumption = 0 /\ w.days = n
      /\ w.version = v.version /\ n \in Nat /\ n > 0
  <2>1. n \in Nat /\ n > 0 BY LeaveAssumption
  <2> QED BY <1>2, <1>4, <2>1, AmendedTyped, RecordsKeep
<1> DEFINE Given(x, b) == /\ x \in {"release", "reverse"}
                          /\ b = <<>> \/ b = <<x>> \o Recount
                          /\ x = "release" => /\ v.consumption = 0
                                              /\ v.reservation = 0 <=> b = <<>>
                          /\ x = "reverse" => /\ v.reservation = 0
                                              /\ v.consumption = 0 <=> b = <<>>
                          /\ Begin(h, r, v, w, {}, ((<<"preflight">> \o b) \o Update) \o Submitting)
<1>6. PICK x, b : Given(x, b)
  <2> DEFINE e == Releasing(v)  f == Reversing(v)  k == <<"release">> \o Recount
             j == <<"reverse">> \o Recount
  <2>1. /\ v.reservation = 0 => e = <<>>
        /\ v.reservation # 0 => e = k
        /\ v.consumption = 0 => f = <<>>
        /\ v.consumption # 0 => f = j
    BY GivingBack
  <2>2. k # <<>> /\ j # <<>> BY GivesBack
  <2>3. PICK c : c = (IF v.status = "submitted" THEN e ELSE f) OBVIOUS
  <2>4. Begin(h, r, v, w, {}, ((<<"preflight">> \o c) \o Update) \o Submitting)
    BY <1>1, <1>4, <2>3 DEF Amend, Amended
  <2> HIDE DEF e, f
  <2>5. CASE v.status = "submitted"
    <3> HIDE DEF k, j
    <3>1. /\ c = <<>> \/ c = k
          /\ v.consumption = 0 /\ (v.reservation = 0 <=> c = <<>>)
      BY <1>2, <2>1, <2>2, <2>3, <2>5
    <3>2. Given("release", c)
      <4> USE DEF k
      <4> QED BY <2>4, <3>1
    <3> HIDE DEF Given
    <3> QED BY <3>2
  <2>6. CASE v.status = "approved"
    <3> HIDE DEF k, j
    <3>1. /\ c = <<>> \/ c = j
          /\ v.reservation = 0 /\ (v.consumption = 0 <=> c = <<>>)
      BY <1>2, <2>1, <2>2, <2>3, <2>6
    <3>2. Given("reverse", c)
      <4> USE DEF j
      <4> QED BY <2>4, <3>1
    <3> HIDE DEF Given
    <3> QED BY <3>2
  <2> QED BY <1>2, <2>5, <2>6
<1>7. PICK td : td = ((<<"preflight">> \o b) \o Update) \o Submitting OBVIOUS
<1>8. /\ td # <<>> /\ Head(td) = "preflight"
      /\ b = <<>> => Range(td) = {"preflight"} \cup Saved
      /\ b = <<x>> \o Recount => Range(td) = {"preflight", x} \cup Saved
  BY <1>6, <1>7, AmendList
<1> HIDE DEF Recount
<1>9. /\ Begin(h, r, v, w, {}, td)
      /\ "preflight" \in Range(td) /\ "reserve" \in Range(td) /\ "consume" \notin Range(td)
      /\ "release" \in Range(td) <=> v.reservation # 0
      /\ "reverse" \in Range(td) <=> v.consumption # 0
  BY <1>6, <1>7, <1>8 DEF Saved
<1>10. Read(td, r, v, w) BY <1>1, <1>2, <1>5, <1>9 DEF Read
<1>11. HeldBy(td, v, w) = Held(request[r]) /\ UsedBy(td, v, w) = Used(request[r])
  BY <1>1, <1>5, <1>9 DEF HeldBy, UsedBy, Held, Used
<1> QED BY <1>8, <1>9, <1>10, <1>11, BeginOrder

\* An approval that was given stays given, and an approval more may pass a stage.
LEMMA ApprovalsStay ==
  ASSUME NEW v \in Request, NEW w \in Request, v.by \subseteq w.by
  PROVE  /\ \A s \in 1..Stages : Approvers(v, s) \subseteq Approvers(w, s)
         /\ \A n \in 0..Stages : Passed(v, n) => Passed(w, n)
         /\ \A s \in 1..Stages, k \in SUBSET Users :
              /\ k \subseteq Approvers(w, s) /\ Cardinality(k) >= Required[s] /\ Passed(v, s - 1)
              => Passed(w, s)
<1>1. IsFiniteSet(Users) /\ Stages \in Nat
      /\ \A s \in 1..Stages : Required[s] \in Nat /\ Candidates[s] \subseteq Users
  BY LeaveAssumption
<1>2. \A s \in 1..Stages : Approvers(v, s) \subseteq Approvers(w, s) BY DEF Approvers
<1>3. ASSUME NEW s \in 1..Stages, NEW k, k \subseteq Approvers(w, s)
      PROVE  Cardinality(k) <= Cardinality(Approvers(w, s)) /\ Cardinality(k) \in Nat
             /\ Cardinality(Approvers(w, s)) \in Nat
  <2>1. Approvers(w, s) \subseteq Users BY <1>1 DEF Approvers
  <2>2. IsFiniteSet(Approvers(w, s)) BY <1>1, <2>1, FS_Subset
  <2>3. IsFiniteSet(k) /\ Cardinality(k) <= Cardinality(Approvers(w, s))
    BY <1>3, <2>2, FS_Subset
  <2> QED BY <2>2, <2>3, FS_CardinalityType
<1>4. ASSUME NEW n \in 0..Stages, Passed(v, n) PROVE Passed(w, n)
  <2> SUFFICES ASSUME NEW s \in 1..n PROVE Cardinality(Approvers(w, s)) >= Required[s]
    BY DEF Passed
  <2>1. s \in 1..Stages BY <1>1
  <2>2. Cardinality(Approvers(v, s)) >= Required[s] BY <1>4 DEF Passed
  <2>3. /\ Cardinality(Approvers(v, s)) <= Cardinality(Approvers(w, s))
        /\ Cardinality(Approvers(v, s)) \in Nat /\ Cardinality(Approvers(w, s)) \in Nat
    BY <1>2, <1>3, <2>1
  <2>4. Required[s] \in Nat BY <1>1, <2>1
  <2> QED BY <2>2, <2>3, <2>4
<1>5. ASSUME NEW s \in 1..Stages, NEW k \in SUBSET Users, k \subseteq Approvers(w, s),
             Cardinality(k) >= Required[s], Passed(v, s - 1)
      PROVE  Passed(w, s)
  <2>1. s - 1 \in 0..Stages BY <1>1
  <2>2. Passed(w, s - 1) BY <1>4, <1>5, <2>1
  <2>3. Cardinality(Approvers(w, s)) >= Required[s]
    <3>1. /\ Cardinality(k) <= Cardinality(Approvers(w, s)) /\ Cardinality(k) \in Nat
          /\ Cardinality(Approvers(w, s)) \in Nat
      BY <1>3, <1>5
    <3>2. Required[s] \in Nat BY <1>1
    <3> QED BY <1>5, <3>1, <3>2
  <2>4. \A t \in 1..s : t = s \/ t \in 1..(s - 1) OBVIOUS
  <2> QED BY <2>2, <2>3, <2>4 DEF Passed
<1> QED BY <1>2, <1>4, <1>5

\* Approve: the last approval of the last stage closes the request.
LEMMA ApproveOrder ==
  ASSUME Core, Quiet, Calm, NEW h \in Handlers, NEW r \in Requests, NEW u \in Users,
         Approve(h, r, u)
  PROVE  Works(h)'
<1>1. PICK v : v = request[r] OBVIOUS
<1>2. v \in Request /\ r # NoRequest BY <1>1, RequestRead
<1>3. Stages \in Nat /\ Required \in [1..Stages -> Nat \ {0}] BY LeaveAssumption
<1>4. PICK x : x = [v EXCEPT !.by = @ \cup {<<v.stage, u>>}] OBVIOUS
<1>5. PICK k : k = v.recorded \cup {u} OBVIOUS
<1>6. /\ v.status = "submitted" /\ v.consumption = 0 /\ v.stage \in Nat /\ k \in SUBSET Users
      /\ v.stage + 1 \in Nat /\ Authorized(v, u)
  <2>1. v.status = "submitted" /\ Authorized(v, u) BY <1>1 DEF Approve
  <2> QED BY <1>1, <1>2, <1>5, <2>1, RequestRead DEF Request
<1>7. x \in Request /\ x.status = "submitted" /\ x.consumption = 0 /\ x.days = v.days
      /\ x.reservation = v.reservation /\ x.stage = v.stage /\ x.version = v.version
      /\ x.by = v.by \cup {<<v.stage, u>>} /\ x.recorded = v.recorded
  BY <1>2, <1>4, <1>6 DEF Request
<1>8. PICK m \in Nat : m = v.stage + 1 BY <1>6
<1>9. /\ v.reservation # 0
      /\ IF Stages = 0 THEN v.stage = 0
         ELSE /\ v.stage \in 1..Stages /\ Passed(v, v.stage - 1)
              /\ v.recorded \subseteq Approvers(v, v.stage)
  <2>1. Proper(v)
    <3>1. TypeOK BY DEF Core
    <3> QED BY <1>1, <3>1, CalmIsSettled DEF Settled
  <2> QED BY <1>6, <2>1 DEF Proper
<1>10. \/ /\ Begin(h, r, v, Closed(x, "approved"), {}, Consuming(v) \o Update)
          /\ v.stage = 0 \/ (Cardinality(k) >= Required[v.stage] /\ v.stage >= Stages)
       \/ /\ Begin(h, r, v, [x EXCEPT !.recorded = k], {}, Update) /\ v.stage # 0
       \/ /\ Begin(h, r, v, [x EXCEPT !.stage = m, !.recorded = {}], {}, Update) /\ v.stage # 0
          /\ ~(Cardinality(k) < Required[v.stage])
          /\ ~(Cardinality(k) >= Required[v.stage] /\ v.stage >= Stages)
  <2>1. /\ Consuming(x) = Consuming(v)
        /\ [x EXCEPT !.stage = @ + 1, !.recorded = {}] = [x EXCEPT !.stage = m, !.recorded = {}]
    <3>1. Releasing(x) = Releasing(v) BY <1>7 DEF Releasing
    <3>2. Consuming(x) = Consuming(v) BY <3>1 DEF Consuming
    <3>3. [x EXCEPT !.stage = @ + 1, !.recorded = {}] = [x EXCEPT !.stage = m, !.recorded = {}]
      BY <1>7, <1>8
    <3> QED BY <3>2, <3>3
  <2>2. IF x.stage = 0 \/ (Cardinality(k) >= Required[x.stage] /\ x.stage >= Stages)
        THEN Begin(h, r, v, Closed(x, "approved"), {}, Consuming(x) \o Update)
        ELSE Begin(h, r, v, IF Cardinality(k) < Required[x.stage]
                            THEN [x EXCEPT !.recorded = k]
                            ELSE [x EXCEPT !.stage = @ + 1, !.recorded = {}], {}, Update)
    <3>1. x.recorded = v.recorded BY <1>7
    <3> QED BY <1>1, <1>4, <1>5, <3>1, Zenon DEF Approve
  <2>3. x.stage = v.stage BY <1>7
  <2> QED BY <2>1, <2>2, <2>3, Zenon
<1>11. ASSUME NEW w \in Request, w.by = x.by, v.stage # 0
       PROVE  /\ v.stage \in 1..Stages /\ Stages # 0
              /\ k \subseteq Approvers(w, v.stage) /\ v.by \subseteq w.by
              /\ Passed(w, v.stage - 1)
              /\ Cardinality(k) >= Required[v.stage] => Passed(w, v.stage)
  <2>1. v.stage \in 1..Stages /\ Stages # 0 /\ Passed(v, v.stage - 1)
        /\ v.recorded \subseteq Approvers(v, v.stage)
    BY <1>9, <1>11
  <2>2. v.by \subseteq w.by BY <1>7, <1>11
  <2>3. u \in Approvers(w, v.stage)
    BY <1>6, <1>7, <1>11 DEF Authorized, Approvers
  <2>4. /\ Approvers(v, v.stage) \subseteq Approvers(w, v.stage)
        /\ v.stage - 1 \in 0..Stages
    BY <1>2, <1>3, <2>1, <2>2, ApprovalsStay
  <2>5. k \subseteq Approvers(w, v.stage) BY <1>5, <2>1, <2>3, <2>4
  <2> QED BY <1>2, <1>6, <2>1, <2>2, <2>4, <2>5, ApprovalsStay
<1>12. CASE /\ Begin(h, r, v, Closed(x, "approved"), {}, Consuming(v) \o Update)
            /\ v.stage = 0 \/ (Cardinality(k) >= Required[v.stage] /\ v.stage >= Stages)
  <2>1. PICK w : w = Closed(x, "approved") OBVIOUS
  <2>2. /\ w \in Request /\ w.status = "approved" /\ w.reservation = 0 /\ w.consumption = 0
        /\ w.version = v.version /\ w.days = v.days /\ w.by = x.by
    <3>1. "approved" \in Statuses BY DEF Statuses
    <3> QED BY <1>7, <2>1, <3>1, RecordsTyped, RecordsKeep
  <2>3. PICK b : b = Releasing(v) OBVIOUS
  <2>4. PICK td : td = ((b \o <<"open", "cover", "consume">>) \o Recount) \o Update OBVIOUS
  <2>5. b = <<"release">> \o Recount /\ b # <<>> BY <1>9, <2>3, GivingBack, GivesBack
  <2>6. /\ td # <<>> /\ Head(td) \in {"open", "release"}
        /\ Range(td) = {"release", "open", "cover", "consume", "sum", "store", "check", "save"}
    BY <2>4, <2>5, ApproveList
  <2>7. Begin(h, r, v, w, {}, td) BY <1>12, <2>1, <2>3, <2>4 DEF Consuming
  <2>8. Read(td, r, v, w) BY <1>1, <1>2, <1>6, <2>2, <2>6 DEF Read
  <2>9. HeldBy(td, v, w) = Held(request[r]) /\ UsedBy(td, v, w) = Used(request[r])
    BY <1>1, <1>6, <1>9, <2>2, <2>6 DEF HeldBy, UsedBy, Held, Used
  <2>10. Passed(w, Stages)
    <3>1. CASE Stages = 0 BY <3>1 DEF Passed
    <3>2. CASE Stages # 0
      <4>1. v.stage \in 1..Stages BY <1>9, <3>2
      <4>2. v.stage # 0 /\ v.stage = Stages /\ Cardinality(k) >= Required[v.stage]
        BY <1>3, <1>12, <4>1
      <4> QED BY <1>11, <2>2, <4>2
    <3> QED BY <3>1, <3>2
  <2>11. Proper(w) BY <2>2, <2>10 DEF Proper
  <2> QED BY <2>6, <2>7, <2>8, <2>9, <2>11, BeginOrder
<1>13. ASSUME NEW w \in Request, w.status = "submitted", w.consumption = 0, w.days = v.days,
              w.reservation = v.reservation, w.version = v.version, Proper(w),
              Begin(h, r, v, w, {}, Update)
       PROVE  Works(h)'
  <2>1. PICK td : td = Update OBVIOUS
  <2>2. td # <<>> /\ Head(td) = "check" /\ Range(td) = {"check", "save"}
    BY <2>1, UpdateOnly
  <2>3. Begin(h, r, v, w, {}, td) BY <1>13, <2>1
  <2>4. Read(td, r, v, w) BY <1>1, <1>6, <1>13, <2>2 DEF Read
  <2>5. HeldBy(td, v, w) = Held(request[r]) /\ UsedBy(td, v, w) = Used(request[r])
    BY <1>1, <1>6, <1>13, <2>2 DEF HeldBy, UsedBy, Held, Used
  <2> QED BY <1>13, <2>2, <2>3, <2>4, <2>5, BeginOrder
<1>14. CASE Begin(h, r, v, [x EXCEPT !.recorded = k], {}, Update) /\ v.stage # 0
  <2>1. PICK w : w = [x EXCEPT !.recorded = k] OBVIOUS
  <2>2. w \in Request /\ w.status = "submitted" /\ w.consumption = 0 /\ w.days = v.days
        /\ w.reservation = v.reservation /\ w.version = v.version /\ w.by = x.by
        /\ w.stage = v.stage /\ w.recorded = k
    BY <1>6, <1>7, <2>1 DEF Request
  <2>3. /\ v.stage \in 1..Stages /\ Stages # 0 /\ k \subseteq Approvers(w, v.stage)
        /\ Passed(w, v.stage - 1)
    BY <1>11, <1>14, <2>2
  <2>4. Proper(w) BY <1>9, <2>2, <2>3 DEF Proper
  <2> QED BY <1>13, <1>14, <2>1, <2>2, <2>4
<1>15. CASE /\ Begin(h, r, v, [x EXCEPT !.stage = m, !.recorded = {}], {}, Update) /\ v.stage # 0
            /\ ~(Cardinality(k) < Required[v.stage])
            /\ ~(Cardinality(k) >= Required[v.stage] /\ v.stage >= Stages)
  <2>1. PICK w : w = [x EXCEPT !.stage = m, !.recorded = {}] OBVIOUS
  <2>2. w \in Request /\ w.status = "submitted" /\ w.consumption = 0 /\ w.days = v.days
        /\ w.reservation = v.reservation /\ w.version = v.version /\ w.by = x.by
        /\ w.stage = m /\ w.recorded = {}
    <3>1. {} \in SUBSET Users OBVIOUS
    <3> QED BY <1>8, <1>7, <2>1, <3>1 DEF Request
  <2>3. /\ v.stage \in 1..Stages /\ Stages # 0
        /\ Cardinality(k) >= Required[v.stage] => Passed(w, v.stage)
    BY <1>11, <1>15, <2>2
  <2>4. Cardinality(k) \in Nat
    <3>1. IsFiniteSet(Users) BY LeaveAssumption
    <3>2. IsFiniteSet(k) BY <1>6, <3>1, FS_Subset
    <3> QED BY <3>2, FS_CardinalityType
  <2>5. Required[v.stage] \in Nat BY <1>3, <2>3
  <2>6. Cardinality(k) >= Required[v.stage] BY <1>15, <2>4, <2>5
  <2>7. m \in 1..Stages /\ m - 1 = v.stage BY <1>3, <1>6, <1>8, <1>15, <2>3, <2>6
  <2>8. Passed(w, w.stage - 1) BY <2>2, <2>3, <2>6, <2>7
  <2>9. Proper(w) BY <1>9, <2>2, <2>3, <2>7, <2>8 DEF Proper
  <2> QED BY <1>13, <1>15, <2>1, <2>2, <2>9
<1> QED BY <1>10, <1>12, <1>14, <1>15

\* ExecuteRun: an accrual run is about no request.
LEMMA RunOrder ==
  ASSUME Core, Quiet, Calm, NEW h \in Handlers, NEW g \in Runs, ExecuteRun(h, g)
  PROVE  Works(h)'
<1>1. PICK t : t = IF RunMode[g] = "annual_grant" THEN <<"turn">> ELSE <<>> OBVIOUS
<1>2. PICK b : b = IF Grant > 0 THEN <<"grant">> \o Recount ELSE <<>> OBVIOUS
<1>3. PICK td : td = ((<<"open">> \o t) \o b) \o <<"complete">> OBVIOUS
<1>4. Begin(h, NoRequest, NoRecord, NoRecord, {g}, td)
  BY <1>1, <1>2, <1>3 DEF ExecuteRun
<1>5. t = <<>> \/ t = <<"turn">> BY <1>1
<1>6. b = <<>> \/ b = <<"grant">> \o Recount BY <1>2, Zenon
<1>7. /\ td # <<>> /\ Head(td) = "open"
      /\ Range(td) \subseteq {"open", "turn", "grant", "sum", "store", "complete"}
  BY <1>3, <1>5, <1>6, RunList
<1>8. Read(td, NoRequest, NoRecord, NoRecord) BY <1>7 DEF Read, NoRecord
<1>9. NoRequest \notin Requests BY LeaveAssumption
<1>10. "reserve" \notin Range(td) /\ "consume" \notin Range(td) BY <1>7
<1>11. PICK q : q = NoRequest OBVIOUS
<1>12. /\ q \in Requests \cup {NoRequest} /\ q \notin Requests
       /\ Begin(h, q, NoRecord, NoRecord, {g}, td) /\ Read(td, q, NoRecord, NoRecord)
  BY <1>4, <1>8, <1>9, <1>11
<1> QED BY <1>7, <1>10, <1>11, <1>12, BeginOrder

\* Create: a draft holds nothing and is charged for nothing.
LEMMA CreateOrder ==
  ASSUME Core, NEW q \in Requests, NEW n \in Days, NEW start \in Dates, Create(q, n, start),
         NEW td, NEW r \in Requests \cup {NoRequest}, NEW v, NEW w, NEW a,
         Fine(td, r, v, w, a)
  PROVE  Fine(td, r, v, w, a)'
<1>1. PICK x : x = [NoRecord EXCEPT !.status = "draft", !.days = n, !.start = start,
                                    !.version = 1]
  OBVIOUS
<1>2. /\ request[q].status = "none" /\ ledger' = ledger /\ account' = account
      /\ request' = [request EXCEPT ![q] = x]
  BY <1>1 DEF Create
<1>3. x.status = "draft" /\ x.reservation = 0 /\ x.consumption = 0 BY <1>1 DEF NoRecord
<1>4. TypeOK BY DEF Core
<1>5. request[q].reservation = 0 /\ request[q].consumption = 0 BY <1>2, RequestRead
<1>6. /\ request'[q] = x /\ \A p \in Requests : p # q => request'[p] = request[p]
  BY <1>2, <1>4 DEF TypeOK
<1>7. r # NoRequest => r # q /\ request'[r] = request[r]
  <2>1. r # NoRequest => r # q BY <1>2 DEF Fine, Read
  <2> QED BY <1>6, <2>1
<1>8. HeldRows' = HeldRows /\ UsedRows' = UsedRows
  <2>1. \A p \in Requests : /\ Held(request'[p]) = Held(request[p])
                            /\ Used(request'[p]) = Used(request[p])
    BY <1>3, <1>5, <1>6 DEF Held, Used
  <2> QED BY <2>1 DEF HeldRows, UsedRows, Held, Used
<1>9. /\ Reserved' = Reserved /\ Consumed' = Consumed /\ Balance' = Balance /\ Carry' = Carry
  BY <1>2, TotalsSame
<1>10. Read(td, r, v, w)'
  <2>1. Read(td, r, v, w) BY DEF Fine
  <2> QED BY <1>7, <2>1 DEF Read
<1>11. Books(td, r, v, w)' BY <1>8, <1>9 DEF Fine, Books, SumWith, HeldBy, UsedBy, Held, Used
<1>12. Recounted(td, a)' BY <1>2, <1>9 DEF Fine, Recounted, Summed
<1>13. Rows(td, r, v, w)'
  <2>1. Rows(td, r, v, w) BY DEF Fine
  <2>2. Proper(x) BY <1>3 DEF Proper
  <2>3. \A p \in Requests : p # q =>
          (\/ Proper(request'[p])
           \/ /\ p = r /\ "preflight" \notin Range(td)
              /\ request'[p].status # "approved"
              /\ "reserve" \in Range(td) => v.status # "draft")
    BY <1>6, <2>1 DEF Rows
  <2>4. Proper(request'[q]) BY <1>6, <2>2
  <2>5. r # NoRequest /\ "reserve" \notin Range(td) => Proper(w) BY <2>1 DEF Rows
  <2> HIDE DEF Proper
  <2>6. \A p \in Requests :
          (\/ Proper(request'[p])
           \/ /\ p = r /\ "preflight" \notin Range(td)
              /\ request'[p].status # "approved"
              /\ "reserve" \in Range(td) => v.status # "draft")
    BY <2>3, <2>4
  <2>7. \A p : Proper(p)' <=> Proper(p) BY DEF Proper, Passed, Approvers
  <2> QED BY <2>5, <2>6, <2>7 DEF Rows, Proper, Passed, Approvers
<1>14. Covered(td, v, w)' BY <1>2, <1>9 DEF Fine, Covered, Back, Spent, Freed
<1>15. Solvent(td, w)' BY <1>2, <1>9 DEF Fine, Solvent
<1> QED BY <1>10, <1>11, <1>12, <1>13, <1>14, <1>15 DEF Fine

-----------------------------------------------------------------------------
(* PROOFS: every step leaves the order *)

\* The steps of a handler that works, except a failure.
Statement(h) ==
  \/ Preflight(h) \/ Open(h) \/ Insert(h) \/ Reserve(h) \/ Cover(h) \/ Consume(h)
  \/ Turn(h) \/ Reread(h) \/ Sum(h) \/ Store(h) \/ StoreRefused(h)
  \/ Check(h) \/ Save(h) \/ Complete(h)

\* A statement is one of a handler at work; the ledger only grows.
LEMMA StatementGrows ==
  ASSUME TypeOK, NEW h \in Handlers, Statement(h)
  PROVE  todo[h] # <<>> /\ clean' = clean /\ Len(ledger) <= Len(ledger')
<1>1. todo[h] # <<>>
  BY DEF Statement, Preflight, Open, Insert, Reserve, Cover, Consume, Turn, Reread, Sum, Store,
         StoreRefused, Check, Save, Complete, At
<1>2. clean' = clean /\ (ledger' = ledger \/ \E e : ledger' = Append(ledger, e))
  <2>1. CASE Preflight(h) \/ Open(h) \/ Cover(h) \/ Reread(h) \/ Sum(h) \/ Store(h) \/ Check(h)
    BY <2>1 DEF Preflight, Open, Cover, Reread, Sum, Store, Check, Refuse, rest
  <2>2. CASE StoreRefused(h) \/ Save(h) \/ Complete(h)
    BY <2>2 DEF StoreRefused, Save, Complete, Refuse, rest
  <2>3. CASE Insert(h) BY <2>3 DEF Insert, NewEntry, rest
  <2>4. CASE Reserve(h) BY <2>4, Zenon DEF Reserve, Refuse, NewEntry, rest
  <2>5. CASE Consume(h) BY <2>5 DEF Consume, NewEntry, rest
  <2>6. CASE Turn(h) BY <2>6, Zenon DEF Turn, NewEntry, rest
  <2> QED BY <2>1, <2>2, <2>3, <2>4, <2>5, <2>6 DEF Statement
<1>3. ledger \in Seq(Entry) BY DEF TypeOK
<1>4. Len(ledger) \in Nat BY <1>3, LenProperties
<1>5. ASSUME NEW e, ledger' = Append(ledger, e) PROVE Len(ledger') = Len(ledger) + 1
  BY <1>3, <1>5
<1> QED BY <1>1, <1>2, <1>4, <1>5

\* A handler that works alone leaves everything in order, statement by statement.
LEMMA StatementOrder ==
  ASSUME Core, NEW h \in Handlers, Works(h), Len(ledger) <= PageSize, Statement(h)
  PROVE  Works(h)' \/ (Quiet' /\ Calm')
<1>1. CASE Preflight(h) \/ Open(h) \/ Insert(h) \/ Reserve(h) \/ Cover(h)
  BY <1>1, PreflightOrder, OpenOrder, InsertOrder, ReserveOrder, CoverOrder
<1>2. CASE Consume(h) \/ Turn(h) \/ Reread(h) \/ Sum(h) \/ Store(h)
  BY <1>2, ConsumeOrder, TurnOrder, RereadOrder, SumOrder, StoreOrder
<1>3. CASE StoreRefused(h) \/ Check(h) \/ Save(h) \/ Complete(h)
  BY <1>3, NotRefused, CheckOrder, SaveOrder, CompleteOrder
<1> QED BY <1>1, <1>2, <1>3 DEF Statement

\* An operation that begins alone begins when nobody is at work.
LEMMA BeginsAlone ==
  ASSUME clean', NEW h \in Handlers, NEW r, NEW v, NEW w, NEW g, NEW td, Begin(h, r, v, w, g, td)
  PROVE  clean /\ Quiet /\ ledger' = ledger
BY DEF Begin, Quiet

\* The operations that a handler begins.
Operation(h) ==
  \/ \E r \in Requests :
       \/ Submit(h, r) \/ Cancel(h, r)
       \/ \E n \in NewDays, start \in Dates : Edit(h, r, n, start) \/ Amend(h, r, n, start)
       \/ \E u \in Users : Approve(h, r, u) \/ Reject(h, r, u)
  \/ \E g \in Runs : ExecuteRun(h, g)

\* In a clean history an operation begins when nobody is at work.
LEMMA OperationAlone ==
  ASSUME clean', NEW h \in Handlers, Operation(h)
  PROVE  clean /\ Quiet /\ ledger' = ledger
<1>1. \E r, v, w, g, td : Begin(h, r, v, w, g, td)
  <2>1. ASSUME NEW r \in Requests, Submit(h, r) \/ Cancel(h, r)
        PROVE  \E q, v, w, g, td : Begin(h, q, v, w, g, td)
    BY <2>1 DEF Submit, Cancel
  <2>2. ASSUME NEW r \in Requests, NEW n \in NewDays, NEW start \in Dates,
               Edit(h, r, n, start) \/ Amend(h, r, n, start)
        PROVE  \E q, v, w, g, td : Begin(h, q, v, w, g, td)
    BY <2>2 DEF Edit, Amend
  <2>3. ASSUME NEW r \in Requests, NEW u \in Users, Approve(h, r, u) \/ Reject(h, r, u)
        PROVE  \E q, v, w, g, td : Begin(h, q, v, w, g, td)
    BY <2>3, Zenon DEF Approve, Reject
  <2>4. ASSUME NEW g \in Runs, ExecuteRun(h, g)
        PROVE  \E q, v, w, x, td : Begin(h, q, v, w, x, td)
    BY <2>4 DEF ExecuteRun
  <2> QED BY <2>1, <2>2, <2>3, <2>4 DEF Operation
<1> QED BY <1>1, BeginsAlone

\* From a state in which all is in order, a handler begins to work.
LEMMA OperationOrder ==
  ASSUME Core, Quiet, Calm, NEW h \in Handlers, Operation(h)
  PROVE  Works(h)'
<1>1. ASSUME NEW r \in Requests, Submit(h, r) \/ Cancel(h, r) PROVE Works(h)'
  BY <1>1, DraftOrder, CloseOrder
<1>2. ASSUME NEW r \in Requests, NEW n \in NewDays, NEW start \in Dates,
             Edit(h, r, n, start) \/ Amend(h, r, n, start)
      PROVE  Works(h)'
  BY <1>2, DraftOrder, AmendOrder
<1>3. ASSUME NEW r \in Requests, NEW u \in Users, Approve(h, r, u) \/ Reject(h, r, u)
      PROVE  Works(h)'
  BY <1>3, ApproveOrder, CloseOrder
<1>4. ASSUME NEW g \in Runs, ExecuteRun(h, g) PROVE Works(h)'
  BY <1>4, RunOrder
<1> QED BY <1>1, <1>2, <1>3, <1>4 DEF Operation

\* A step that changes nothing, or only adds a draft, disturbs nobody.
LEMMA NobodyDisturbed ==
  ASSUME Core, UNCHANGED taskVars, (Quiet /\ Calm) \/ \E h \in Handlers : Works(h),
         \/ UNCHANGED <<request, ledger, account>>
         \/ \E r \in Requests, n \in Days, start \in Dates : Create(r, n, start)
  PROVE  (Quiet' /\ Calm') \/ \E h \in Handlers : Works(h)'
<1>1. ASSUME NEW td, NEW r \in Requests \cup {NoRequest}, NEW v, NEW w, NEW a,
             Fine(td, r, v, w, a)
      PROVE  Fine(td, r, v, w, a)'
  <2>1. CASE UNCHANGED <<request, ledger, account>> BY <1>1, <2>1, FineSame
  <2>2. CASE \E q \in Requests, n \in Days, start \in Dates : Create(q, n, start)
    BY <1>1, <2>2, CreateOrder
  <2> QED BY <2>1, <2>2
<1>2. CASE Quiet /\ Calm
  <2>1. Fine(<<>>, NoRequest, NoRecord, NoRecord, NoAccount) BY <1>2 DEF Calm
  <2>2. NoRequest \in Requests \cup {NoRequest} OBVIOUS
  <2>3. Fine(<<>>, NoRequest, NoRecord, NoRecord, NoAccount)' BY <1>1, <2>1, <2>2
  <2>4. Quiet' BY <1>2 DEF Quiet, taskVars
  <2> QED BY <2>3, <2>4 DEF Calm
<1>3. ASSUME NEW h \in Handlers, Works(h) PROVE Works(h)'
  <2>1. PICK td, r, v, w, a : td = todo[h] /\ r = target[h] /\ v = old[h] /\ w = copy[h]
                              /\ a = acct[h]
    OBVIOUS
  <2>2. r \in Requests \cup {NoRequest} BY <2>1 DEF Core, TypeOK
  <2>3. Fine(td, r, v, w, a) BY <1>3, <2>1 DEF Works
  <2>4. Fine(td, r, v, w, a)' BY <1>1, <2>2, <2>3
  <2>5. td = todo'[h] /\ r = target'[h] /\ v = old'[h] /\ w = copy'[h] /\ a = acct'[h]
    BY <2>1 DEF taskVars
  <2>6. Fine(todo[h], target[h], old[h], copy[h], acct[h])' BY <2>4, <2>5
  <2>7. todo'[h] # <<>> /\ \A k \in Handlers \ {h} : todo'[k] = <<>>
    BY <1>3 DEF Works, taskVars
  <2> QED BY <2>6, <2>7 DEF Works
<1> QED BY <1>2, <1>3

\* Every step keeps the order.
LEMMA OrderNext == Core /\ Order /\ [Next]_vars => Order'
<1> SUFFICES ASSUME Core, Order, [Next]_vars, clean', Len(ledger') <= PageSize
             PROVE  (Quiet' /\ Calm') \/ \E h \in Handlers : Works(h)'
  BY DEF Order
<1>0. TypeOK /\ PageSize \in Nat /\ Len(ledger) \in Nat
  <2>1. TypeOK BY DEF Core
  <2>2. ledger \in Seq(Entry) BY <2>1 DEF TypeOK
  <2> QED BY <2>1, <2>2, LenProperties, LeaveAssumption
<1>1. CASE UNCHANGED vars
  <2>1. clean /\ Len(ledger) <= PageSize /\ UNCHANGED taskVars
        /\ UNCHANGED <<request, ledger, account>>
    BY <1>1 DEF vars, taskVars
  <2> QED BY <2>1, NobodyDisturbed DEF Order
<1>2. ASSUME NEW r \in Requests, NEW n \in Days, NEW start \in Dates, Create(r, n, start)
      PROVE  (Quiet' /\ Calm') \/ \E h \in Handlers : Works(h)'
  <2>1. clean /\ Len(ledger) <= PageSize /\ UNCHANGED taskVars BY <1>2 DEF Create, rest
  <2> QED BY <1>2, <2>1, NobodyDisturbed DEF Order
<1>3. ASSUME NEW h \in Handlers, Operation(h) PROVE Works(h)'
  <2>1. clean /\ Quiet /\ ledger' = ledger BY <1>3, OperationAlone
  <2>2. Calm BY <2>1 DEF Order, Quiet, Works
  <2> QED BY <1>3, <2>1, <2>2, OperationOrder
<1>4. ASSUME NEW h \in Handlers, Statement(h)
      PROVE  (Quiet' /\ Calm') \/ \E k \in Handlers : Works(k)'
  <2>1. todo[h] # <<>> /\ clean' = clean /\ Len(ledger) <= Len(ledger')
    BY <1>0, <1>4, StatementGrows
  <2>2. Len(ledger') \in Nat
    <3>1. Core' BY CoreNext
    <3>2. ledger' \in Seq(Entry) BY <3>1 DEF Core, TypeOK
    <3> QED BY <3>2, LenProperties
  <2>3. clean /\ Len(ledger) <= PageSize BY <1>0, <2>1, <2>2
  <2>4. Works(h) BY <2>1, <2>3 DEF Order, Quiet, Works
  <2> QED BY <1>4, <2>3, <2>4, StatementOrder
<1>5. ASSUME NEW h \in Handlers, Fail(h) PROVE FALSE
  BY <1>5 DEF Fail
<1>6. CASE Next
  <2>1. \/ \E r \in Requests, n \in Days, start \in Dates : Create(r, n, start)
        \/ \E h \in Handlers : Operation(h) \/ Statement(h) \/ Fail(h)
    BY <1>6 DEF Next, Operation, Statement
  <2> QED BY <2>1, <1>2, <1>3, <1>4, <1>5
<1> QED BY <1>1, <1>6

-----------------------------------------------------------------------------
(* PROOFS: the account of a clean history *)

\* Initially there is at most the entry that opens the account.
LEMMA OrderInit == Init => Order
<1> SUFFICES ASSUME Init PROVE Quiet /\ Calm BY DEF Order
<1>1. TypeOK BY CoreInit DEF Core
<1>2. Quiet BY DEF Init, Quiet
<1>3. Opening \in Nat BY LeaveAssumption
<1>4. PICK f, g : f = EntryDays /\ g = EntryCarry OBVIOUS
<1>5. /\ \A types : Total(types) = IF "opening" \in types THEN Opening ELSE 0
      /\ Carry = 0
  <2>1. CASE Opening > 0
    <3>1. PICK e : e = [type |-> "opening", days |-> Opening, carry |-> 0, date |-> Today,
                        request |-> NoRequest]
      OBVIOUS
    <3>2. ledger = <<e>> BY <2>1, <3>1 DEF Init
    <3>3. DOMAIN ledger = {1} /\ ledger[1].type = "opening" /\ f[1] = Opening /\ g[1] = 0
      <4>1. DOMAIN ledger = 1..1 BY <3>2
      <4>2. DOMAIN ledger = {1} BY <4>1
      <4>3. ledger[1] = e BY <3>2
      <4> QED BY <1>4, <3>1, <4>2, <4>3 DEF EntryDays, EntryCarry
    <3>4. /\ SumFunctionOnSet(f, {}) = 0 /\ SumFunctionOnSet(g, {}) = 0
          /\ IsFiniteSet({})
      BY SumEmpty, FS_EmptySet
    <3>5. PICK t : t = {} OBVIOUS
    <3>6. /\ SumFunctionOnSet(f, t \cup {1}) = SumFunctionOnSet(f, t) + f[1]
          /\ SumFunctionOnSet(g, t \cup {1}) = SumFunctionOnSet(g, t) + g[1]
      <4>1. IsFiniteSet(t) /\ 1 \notin t /\ (\A x \in t : f[x] \in Int /\ g[x] \in Int)
            /\ f[1] \in Int /\ g[1] \in Int
        BY <1>3, <3>3, <3>4, <3>5
      <4> QED BY <4>1, SumAdd
    <3>7. SumFunctionOnSet(f, {1}) = Opening /\ SumFunctionOnSet(g, {1}) = 0
      <4>1. t \cup {1} = {1} BY <3>5
      <4> QED BY <1>3, <3>3, <3>4, <3>5, <3>6, <4>1
    <3>8. ASSUME NEW types
          PROVE  Total(types) = IF "opening" \in types THEN Opening ELSE 0
      <4>1. {i \in DOMAIN ledger : ledger[i].type \in types} =
              IF "opening" \in types THEN {1} ELSE {}
        BY <3>3
      <4> QED BY <1>4, <3>4, <3>7, <4>1 DEF Total
    <3>9. Carry = 0 BY <1>4, <3>3, <3>7 DEF Carry
    <3> QED BY <3>8, <3>9
  <2>2. CASE Opening = 0
    <3>1. ledger = <<>> BY <2>2 DEF Init
    <3>2. DOMAIN ledger = {} BY <3>1
    <3>3. SumFunctionOnSet(f, {}) = 0 /\ SumFunctionOnSet(g, {}) = 0 BY SumEmpty
    <3>4. ASSUME NEW types PROVE Total(types) = 0
      <4>1. {i \in DOMAIN ledger : ledger[i].type \in types} = {} BY <3>2
      <4> QED BY <1>4, <3>3, <4>1 DEF Total
    <3>5. Carry = 0 BY <1>4, <3>2, <3>3 DEF Carry
    <3> QED BY <2>2, <3>4, <3>5
  <2> QED BY <1>3, <2>1, <2>2
<1>6. Reserved = 0 /\ Consumed = 0 /\ Balance = Opening
  <2>1. "opening" \in Credits /\ "opening" \notin Debits BY DEF Credits, Debits
  <2> QED BY <1>3, <1>5, <2>1 DEF Reserved, Consumed, Balance
<1>7. /\ SumFunctionOnSet(HeldRows, Requests) = 0 /\ SumFunctionOnSet(UsedRows, Requests) = 0
  <2>1. PICK p, q : p = HeldRows /\ q = UsedRows OBVIOUS
  <2>2. \A r \in Requests : p[r] = 0 /\ q[r] = 0
    BY <2>1 DEF Init, HeldRows, UsedRows, Held, Used, NoRecord
  <2>3. IsFiniteSet(Requests) BY LeaveAssumption
  <2>4. /\ SumFunctionOnSet(p, Requests) = SumFunctionOnSet(p, {})
        /\ SumFunctionOnSet(q, Requests) = SumFunctionOnSet(q, {})
    BY <2>2, <2>3, SumSubset
  <2> QED BY <2>1, <2>4, SumEmpty
<1>8. Summed(account)
  <2>1. account.current = Opening /\ account.reserved = 0 /\ account.carry = 0
    BY DEF Init, NoAccount
  <2> QED BY <1>5, <1>6, <2>1 DEF Summed, Positive
<1>9. \A q \in Requests : Proper(request[q]) BY DEF Init, Proper, NoRecord
<1>10. Positive(Reserved) <= Balance BY <1>3, <1>6 DEF Positive
<1>11. Settled BY <1>6, <1>7, <1>8, <1>9, <1>10 DEF Settled
<1> QED BY <1>1, <1>2, <1>11, CalmIsSettled

\* As long as operations ran alone and to their end, and all entries fit on one
\* page, the account, the entries and the requests agree with the statement that
\* is to be executed next.
THEOREM OrderInvariance == Spec => []Order
BY CoreInvariance, OrderInit, OrderNext, PTL DEF Spec

\* Entries of two kinds add up to those of the one and those of the other.
LEMMA TotalUnion ==
  ASSUME TypeOK, NEW s, NEW t, s \cap t = {}
  PROVE  Total(s \cup t) = Total(s) + Total(t)
<1> DEFINE A(x) == {i \in DOMAIN ledger : ledger[i].type \in x}
<1>1. IsFiniteSet(DOMAIN ledger) /\ \A i \in DOMAIN ledger : EntryDays[i] \in Int
  BY TotalsTyped
<1>2. A(s) \subseteq DOMAIN ledger /\ A(t) \subseteq DOMAIN ledger OBVIOUS
<1>3. A(s \cup t) = A(s) \cup A(t) /\ A(s) \cap A(t) = {} OBVIOUS
<1>4. Total(s \cup t) = SumFunctionOnSet(EntryDays, A(s \cup t))
      /\ Total(s) = SumFunctionOnSet(EntryDays, A(s))
      /\ Total(t) = SumFunctionOnSet(EntryDays, A(t))
  BY DEF Total
<1> HIDE DEF A
<1>5. IsFiniteSet(A(s)) /\ IsFiniteSet(A(t)) BY <1>1, <1>2, FS_Subset
<1>6. \A i \in A(s) \cup A(t) : EntryDays[i] \in Int BY <1>1, <1>2
<1>7. SumFunctionOnSet(EntryDays, A(s) \cup A(t)) =
        SumFunctionOnSet(EntryDays, A(s)) + SumFunctionOnSet(EntryDays, A(t))
  BY <1>3, <1>5, <1>6, SumUnion
<1> QED BY <1>3, <1>4, <1>7

\* When nobody is at work, what is reserved is what the submitted requests ask
\* for, and what is charged is what the approved ones do.
LEMMA SettledSums ==
  ASSUME Core, Settled
  PROVE  /\ Reserved = SumFunctionOnSet(RequestDays, InStatus("submitted"))
         /\ Consumed = SumFunctionOnSet(RequestDays, InStatus("approved"))
         /\ Reserved \in Nat
<1>1. TypeOK BY DEF Core
<1>2. /\ HeldRows \in [Requests -> Nat] /\ UsedRows \in [Requests -> Nat]
      /\ \A q \in Requests : /\ request[q] \in Request /\ request[q].days \in Nat
                             /\ HeldRows[q] = Held(request[q])
                             /\ UsedRows[q] = Used(request[q])
                             /\ RequestDays[q] = request[q].days
  BY <1>1, RowsTyped DEF RequestDays
<1>3. IsFiniteSet(Requests) BY LeaveAssumption
<1>4. ASSUME NEW q \in Requests
      PROVE  /\ HeldRows[q] = IF request[q].status = "submitted" THEN RequestDays[q] ELSE 0
             /\ UsedRows[q] = IF request[q].status = "approved" THEN RequestDays[q] ELSE 0
  <2>1. request[q].reservation # 0 <=> request[q].status = "submitted"
    <3>1. Proper(request[q]) BY DEF Settled
    <3>2. request[q].reservation # 0 => request[q].status = "submitted" BY RequestRead
    <3> QED BY <3>1, <3>2 DEF Proper
  <2>2. request[q].consumption # 0 <=> request[q].status = "approved"
    <3>1. request[q].status = "approved" => request[q].consumption \in DOMAIN ledger
      BY RequestRead DEF Is
    <3>2. DOMAIN ledger = 1..Len(ledger)
      <4>1. ledger \in Seq(Entry) BY <1>1 DEF TypeOK
      <4> QED BY <4>1, LenProperties
    <3>3. 0 \notin DOMAIN ledger BY <3>2
    <3>4. request[q].status # "approved" => request[q].consumption = 0 BY RequestRead
    <3> QED BY <3>1, <3>3, <3>4
  <2> QED BY <1>2, <2>1, <2>2 DEF Held, Used
<1>5. PICK S, A : S = InStatus("submitted") /\ A = InStatus("approved") OBVIOUS
<1>6. /\ S \subseteq Requests /\ A \subseteq Requests
      /\ \A q \in Requests : q \in S <=> request[q].status = "submitted"
      /\ \A q \in Requests : q \in A <=> request[q].status = "approved"
  BY <1>5 DEF InStatus
<1>7. PICK f, g, d : f = HeldRows /\ g = UsedRows /\ d = RequestDays OBVIOUS
<1>8. /\ \A q \in S : d[q] \in Int /\ f[q] = d[q]
      /\ \A q \in Requests \ S : f[q] = 0
      /\ \A q \in A : d[q] \in Int /\ g[q] = d[q]
      /\ \A q \in Requests \ A : g[q] = 0
  BY <1>2, <1>4, <1>6, <1>7
<1>9. SumFunctionOnSet(f, Requests) = SumFunctionOnSet(d, S) BY <1>3, <1>6, <1>8, SumSubset
<1>10. SumFunctionOnSet(g, Requests) = SumFunctionOnSet(d, A) BY <1>3, <1>6, <1>8, SumSubset
<1>11. SumFunctionOnSet(f, Requests) \in Nat
  <2>1. \A q \in Requests : f[q] \in Nat BY <1>2, <1>7
  <2> QED BY <1>3, <2>1, SumNat
<1> QED BY <1>5, <1>7, <1>9, <1>10, <1>11 DEF Settled

\* What the order says when nobody is at work.
LEMMA QuietIsSettled ==
  ASSUME Core, Order, clean, Quiet, Len(ledger) <= PageSize
  PROVE  Settled
<1>1. TypeOK BY DEF Core
<1>2. Calm BY DEF Order, Quiet, Works
<1> QED BY <1>1, <1>2, CalmIsSettled

\* The account matches the requests whenever the order holds.
LEMMA MatchFromOrder ==
  ASSUME Core, Order, Len(ledger) <= PageSize
  PROVE  AccountMatchesRequests
<1> SUFFICES ASSUME clean, Quiet
             PROVE  /\ account.reserved = SumFunctionOnSet(RequestDays, InStatus("submitted"))
                    /\ account.current =
                         Total(Credits \ {"reversal"}) - Total({"expiry"})
                           - SumFunctionOnSet(RequestDays, InStatus("approved"))
  BY DEF AccountMatchesRequests
<1>1. TypeOK /\ Settled BY QuietIsSettled DEF Core
<1>2. /\ Reserved = SumFunctionOnSet(RequestDays, InStatus("submitted"))
      /\ Consumed = SumFunctionOnSet(RequestDays, InStatus("approved"))
      /\ Reserved \in Nat
  BY <1>1, SettledSums
<1>3. account.reserved = Reserved /\ account.current = Balance
  BY <1>1, <1>2 DEF Settled, Summed, Positive
<1>4. Total(Credits) = Total(Credits \ {"reversal"}) + Total({"reversal"})
  <2>1. Credits = (Credits \ {"reversal"}) \cup {"reversal"}
        /\ (Credits \ {"reversal"}) \cap {"reversal"} = {}
    BY DEF Credits
  <2>2. Total((Credits \ {"reversal"}) \cup {"reversal"}) =
          Total(Credits \ {"reversal"}) + Total({"reversal"})
    BY <1>1, <2>1, TotalUnion
  <2> QED BY <2>1, <2>2
<1>5. Total(Debits) = Total({"consumption"}) + Total({"expiry"})
  <2>1. Debits = {"consumption"} \cup {"expiry"} /\ {"consumption"} \cap {"expiry"} = {}
    BY DEF Debits
  <2>2. Total({"consumption"} \cup {"expiry"}) = Total({"consumption"}) + Total({"expiry"})
    BY <1>1, <2>1, TotalUnion
  <2> QED BY <2>1, <2>2
<1>6. PICK c \in Int, v \in Int, n \in Int, x \in Int :
         c = Total(Credits \ {"reversal"}) /\ v = Total({"reversal"})
         /\ n = Total({"consumption"}) /\ x = Total({"expiry"})
  BY <1>1, TotalsTyped
<1>7. Balance = (c + v) - (n + x) /\ Consumed = n - v
  BY <1>4, <1>5, <1>6 DEF Balance, Consumed
<1>8. (c + v) - (n + x) = c - x - (n - v) OBVIOUS
<1> QED BY <1>2, <1>3, <1>6, <1>7, <1>8

\* As long as nothing expired no more is reserved than there is.
LEMMA CoveredFromOrder ==
  ASSUME Core, Order, Len(ledger) <= PageSize
  PROVE  NotOverdrawn
<1> SUFFICES ASSUME clean, Quiet, \A i \in DOMAIN ledger : ledger[i].type # "expiry"
             PROVE  /\ account.reserved <= account.current
                    /\ \A r \in InStatus("submitted") : request[r].reservation # 0
  BY DEF NotOverdrawn
<1>1. Settled BY QuietIsSettled
<1>2. account.reserved = Positive(Reserved) /\ account.current = Balance
      /\ Positive(Reserved) <= Balance
  BY <1>1 DEF Settled, Summed
<1>3. \A r \in InStatus("submitted") : request[r].reservation # 0
  BY <1>1 DEF Settled, Proper, InStatus
<1> QED BY <1>2, <1>3

\* A request that is being worked on is not approved unless its stages are passed.
LEMMA PassedFromOrder ==
  ASSUME Core, Order, Len(ledger) <= PageSize
  PROVE  ApprovedByAll
<1> SUFFICES ASSUME clean, NEW r \in InStatus("approved"), NEW s \in 1..Stages
             PROVE  Cardinality({u \in Candidates[s] : <<s, u>> \in request[r].by}) >= Required[s]
  BY DEF ApprovedByAll
<1>1. r \in Requests /\ request[r].status = "approved" BY DEF InStatus
<1>2. CASE Quiet /\ Calm
  <2>1. TypeOK BY DEF Core
  <2>2. Settled BY <1>2, <2>1, CalmIsSettled
  <2> QED BY <1>1, <2>2 DEF Settled, Proper, Passed, Approvers
<1>3. ASSUME NEW h \in Handlers, Works(h)
      PROVE  Cardinality({u \in Candidates[s] : <<s, u>> \in request[r].by}) >= Required[s]
  <2>1. PICK td, q, v, w : Rows(td, q, v, w) BY <1>3 DEF Works, Fine
  <2>2. Proper(request[r]) BY <1>1, <2>1 DEF Rows
  <2> QED BY <1>1, <2>2 DEF Proper, Passed, Approvers
<1> QED BY <1>2, <1>3 DEF Order

\* Whatever was amended, cancelled, expired or granted, as long as all entries
\* fit on the one page that recomputeBalanceAccount lists: the account reserves
\* the days of the requests that wait, and has charged those of the approved ones.
THEOREM AccountsRight == Spec => [](Len(ledger) <= PageSize => AccountMatchesRequests)
<1>1. Core /\ Order => (Len(ledger) <= PageSize => AccountMatchesRequests)
  BY MatchFromOrder
<1> QED BY <1>1, CoreInvariance, OrderInvariance, PTL

\* Under the same condition, what the preflight of an amendment finds to be
\* enough is enough when the request is submitted again.
THEOREM EnoughLeft == Spec => [](Len(ledger) <= PageSize => NotOverdrawn)
<1>1. Core /\ Order => (Len(ledger) <= PageSize => NotOverdrawn) BY CoveredFromOrder
<1> QED BY <1>1, CoreInvariance, OrderInvariance, PTL

\* Under the same condition, no leave is approved before every stage has as many
\* approvals of its candidates as it requires, also while a handler works on it.
THEOREM StagesPassed == Spec => [](Len(ledger) <= PageSize => ApprovedByAll)
<1>1. Core /\ Order => (Len(ledger) <= PageSize => ApprovedByAll) BY PassedFromOrder
<1> QED BY <1>1, CoreInvariance, OrderInvariance, PTL
=============================================================================
