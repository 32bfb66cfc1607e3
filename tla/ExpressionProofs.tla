-------------------------- MODULE ExpressionProofs --------------------------
(***************************************************************************)
(* What the calculator makes of an expression.  Eval, FlattenSeq and the   *)
(* fold in replace are recursive functions: each is first shown to be what *)
(* its definition says, from the least input where it would not be, and    *)
(* then has the laws of the expressions (a number, parentheses, an         *)
(* operator between two operands; a variable replaced in a text put        *)
(* together of two).  The tree of an expression is climbed by these laws.  *)
(***************************************************************************)
EXTENDS MCMeasurement, MeasurementProofs, SequenceTheorems, WellFoundedInduction

LEMMA Least ==
    ASSUME NEW S \in SUBSET Nat, S # {}
    PROVE  \E x \in S : \A y \in S : x <= y
<1>1. PICK x \in S : \A y \in S : ~(<<y, x>> \in OpToRel(<, Nat))
  BY NatLessThanWellFounded, WFMin
<1>2. ASSUME NEW y \in S, y < x PROVE FALSE
  <2>1. <<y, x>> \in Nat \X Nat /\ <<y, x>>[1] < <<y, x>>[2]
    BY <1>2
  <2> QED BY <1>1, <2>1, Zenon DEF OpToRel
<1> QED BY <1>2

LEMMA MaxOfInterval ==
    ASSUME NEW n \in Nat, NEW S \in SUBSET (1..n), S # {}
    PROVE  Max(S) \in S /\ \A y \in S : Max(S) >= y
<1> DEFINE T == {n - y : y \in S}
<1>1. T \in SUBSET Nat /\ T # {}
  <2>1. \A y \in 1..n : n - y \in Nat
    OBVIOUS
  <2>2. \A y \in S : n - y \in Nat
    BY <2>1
  <2>3. PICK y \in S : TRUE
    OBVIOUS
  <2>4. n - y \in T
    OBVIOUS
  <2> QED BY <2>2, <2>4
<1>2. PICK x \in T : \A y \in T : x <= y
  BY <1>1, Least
<1>3. PICK m \in S : x = n - m
  OBVIOUS
<1>4. ASSUME NEW y \in S PROVE m >= y
  <2>1. x <= n - y
    BY <1>2
  <2> QED BY <1>3, <2>1
<1> QED BY <1>4, Zenon DEF Max

----------------------------------------------------------------------------
(* Parentheses.  The depth behind k tokens: those opened, less those       *)
(* closed.                                                                 *)
Count(s, k, t) == Cardinality({i \in 1..k : s[i].t = t})
Depth(s, k) == Count(s, k, "(") - Count(s, k, ")")
Turn(token) == IF token.t = "(" THEN 1 ELSE IF token.t = ")" THEN -1 ELSE 0

LEMMA CountGrows ==
    ASSUME NEW s, NEW k \in Nat, NEW t
    PROVE  /\ Count(s, 0, t) = 0 /\ Count(s, k, t) \in Nat
           /\ Count(s, k + 1, t) = Count(s, k, t) + (IF s[k + 1].t = t THEN 1 ELSE 0)
<1> DEFINE A == {i \in 1..k : s[i].t = t}
           B == {i \in 1..(k + 1) : s[i].t = t}
<1>1. IsFiniteSet(A) /\ Cardinality(A) \in Nat
  <2>1. IsFiniteSet(1..k) /\ A \in SUBSET (1..k)
    BY FS_Interval
  <2>2. IsFiniteSet(A)
    BY <2>1, FS_Subset
  <2> QED BY <2>2, FS_CardinalityType
<1>2. {i \in 1..0 : s[i].t = t} = {}
  OBVIOUS
<1>3. Count(s, 0, t) = 0 /\ Count(s, k, t) = Cardinality(A) /\ Count(s, k + 1, t) = Cardinality(B)
  BY <1>2, FS_EmptySet, Zenon DEF Count
<1>4. CASE s[k + 1].t = t
  <2>1. B = A \cup {k + 1} /\ k + 1 \notin A
    BY <1>4
  <2>2. Cardinality(B) = Cardinality(A) + 1
    BY <1>1, <2>1, FS_AddElement
  <2> QED BY <1>1, <1>3, <1>4, <2>2
<1>5. CASE s[k + 1].t # t
  <2>1. B = A
    BY <1>5
  <2>2. Cardinality(B) = Cardinality(A)
    BY <2>1
  <2> HIDE DEF A, B
  <2> QED BY <1>1, <1>3, <1>5, <2>2
<1> QED BY <1>4, <1>5

LEMMA DepthStep ==
    ASSUME NEW s, NEW k \in Nat
    PROVE  /\ Depth(s, 0) = 0 /\ Depth(s, k) \in Int
           /\ Depth(s, k + 1) = Depth(s, k) + Turn(s[k + 1])
           /\ Depth(s, k) = 0 <=> Count(s, k, "(") = Count(s, k, ")")
<1>1. \A t : /\ Count(s, 0, t) = 0 /\ Count(s, k, t) \in Nat
             /\ Count(s, k + 1, t) = Count(s, k, t) + (IF s[k + 1].t = t THEN 1 ELSE 0)
  BY CountGrows
<1>2. "(" # ")"
  OBVIOUS
<1> DEFINE opened == Count(s, k, "(")
           closed == Count(s, k, ")")
<1>3. /\ opened \in Nat /\ closed \in Nat
      /\ Count(s, k + 1, "(") = opened + (IF s[k + 1].t = "(" THEN 1 ELSE 0)
      /\ Count(s, k + 1, ")") = closed + (IF s[k + 1].t = ")" THEN 1 ELSE 0)
      /\ Count(s, 0, "(") = 0 /\ Count(s, 0, ")") = 0
  BY <1>1, Zenon
<1> HIDE DEF opened, closed
<1>4. Depth(s, k + 1) = (opened - closed) + Turn(s[k + 1])
  BY <1>2, <1>3 DEF Depth, Turn
<1> QED BY <1>3, <1>4 DEF Depth, opened, closed

(* The operators outside parentheses are those at depth 0.                 *)
LEMMA OutsideIs ==
    ASSUME NEW s \in Text, NEW ops
    PROVE  Outside(s, ops) = {k \in DOMAIN s : s[k].t \in ops /\ Depth(s, k) = 0}
<1>1. \A k \in DOMAIN s : Depth(s, k) = 0 <=> Count(s, k, "(") = Count(s, k, ")")
  <2>1. \A k \in DOMAIN s : k \in Nat
    BY DEF Text
  <2> QED BY <2>1, DepthStep
<1> QED BY <1>1, Zenon DEF Outside, Count

(* The depth in a text that is put behind another.                         *)
LEMMA DepthOfPrefix ==
    ASSUME NEW s, NEW r, NEW n \in Nat, \A i \in 1..n : s[i] = r[i]
    PROVE  Depth(s, n) = Depth(r, n)
<1>1. \A t : {i \in 1..n : s[i].t = t} = {i \in 1..n : r[i].t = t}
  OBVIOUS
<1> QED BY <1>1 DEF Depth, Count

Repeats(s, m, r, n) == \A i \in 1..n : s[m + i] = r[i]

LEMMA DepthBehind ==
    ASSUME NEW s, NEW r, NEW m \in Nat, NEW n \in Nat, Repeats(s, m, r, n)
    PROVE  Depth(s, m + n) = Depth(s, m) + Depth(r, n)
<1> DEFINE Bad == {k \in 0..n : Depth(s, m + k) # Depth(s, m) + Depth(r, k)}
<1>1. ASSUME Bad # {} PROVE FALSE
  <2>1. PICK k \in Bad : \A j \in Bad : k <= j
    <3>1. Bad \in SUBSET Nat
      OBVIOUS
    <3> QED BY <1>1, <3>1, Least
  <2>2. k # 0
    <3>1. Depth(s, m + 0) = Depth(s, m) + Depth(r, 0)
      BY DepthStep
    <3> QED BY <2>1, <3>1
  <2>3. k - 1 \in 0..n /\ k - 1 \notin Bad /\ k \in 1..n /\ m + (k - 1) \in Nat
    BY <2>1, <2>2
  <2>4. Depth(s, m + (k - 1)) = Depth(s, m) + Depth(r, k - 1)
    BY <2>3
  <2>5. Depth(r, k) = Depth(r, k - 1) + Turn(r[k])
    <3>1. k - 1 \in Nat /\ (k - 1) + 1 = k
      BY <2>3
    <3> QED BY <3>1, DepthStep
  <2>6. Depth(s, m + k) = Depth(s, m + (k - 1)) + Turn(s[m + k])
    <3>1. (m + (k - 1)) + 1 = m + k
      BY <2>3
    <3> QED BY <2>3, <3>1, DepthStep
  <2>7. /\ s[m + k] = r[k] /\ Turn(r[k]) \in Int /\ Depth(s, m) \in Int
        /\ Depth(r, k - 1) \in Int
    <3>1. k - 1 \in Nat /\ s[m + k] = r[k]
      BY <2>3 DEF Repeats
    <3>2. Turn(r[k]) \in Int
      BY DEF Turn
    <3> QED BY <3>1, <3>2, DepthStep
  <2>8. Depth(s, m + k) = Depth(s, m) + Depth(r, k)
    BY <2>4, <2>5, <2>6, <2>7
  <2> QED BY <2>1, <2>8
<1>2. n \in 0..n
  OBVIOUS
<1> QED BY <1>1, <1>2

(* A text whose parentheses match.                                         *)
Nested(s) == Depth(s, Len(s)) = 0 /\ \A k \in 0..Len(s) : Depth(s, k) >= 0

(* Two texts, one behind the other.                                        *)
LEMMA Behind ==
    ASSUME NEW l \in Text, NEW r \in Text
    PROVE  /\ l \o r \in Text /\ Len(l) \in Nat /\ Len(r) \in Nat
           /\ Len(l \o r) = Len(l) + Len(r)
           /\ \A k \in 1..Len(l) : (l \o r)[k] = l[k]
           /\ \A k \in 1..Len(r) : (l \o r)[Len(l) + k] = r[k]
           /\ \A k \in 0..Len(l) : Depth(l \o r, k) = Depth(l, k)
           /\ \A k \in 0..Len(r) : Depth(l \o r, Len(l) + k) = Depth(l, Len(l)) + Depth(r, k)
<1> DEFINE s == l \o r
<1>1. /\ s \in Text /\ Len(l) \in Nat /\ Len(r) \in Nat /\ Len(s) = Len(l) + Len(r)
      /\ \A k \in 1..Len(l) : s[k] = l[k]
      /\ \A k \in 1..Len(r) : s[Len(l) + k] = r[k]
  BY DEF Text
<1> HIDE DEF s
<1>2. ASSUME NEW k \in 0..Len(l) PROVE Depth(s, k) = Depth(l, k)
  <2>1. k \in Nat /\ \A i \in 1..k : s[i] = l[i]
    BY <1>1
  <2> QED BY <2>1, DepthOfPrefix
<1>3. ASSUME NEW k \in 0..Len(r) PROVE Depth(s, Len(l) + k) = Depth(l, Len(l)) + Depth(r, k)
  <2>0. k \in Nat /\ Len(l) \in Nat
    BY <1>1
  <2>1. Repeats(s, Len(l), r, k)
    BY <1>1 DEF Repeats
  <2>2. Depth(s, Len(l) + k) = Depth(s, Len(l)) + Depth(r, k)
    BY <2>0, <2>1, DepthBehind
  <2>3. Len(l) \in 0..Len(l)
    BY <1>1
  <2> QED BY <1>2, <2>2, <2>3
<1> QED BY <1>1, <1>2, <1>3 DEF s

LEMMA NestedBehind ==
    ASSUME NEW l \in Text, NEW r \in Text, Nested(l), Nested(r)
    PROVE  /\ Nested(l \o r)
           /\ \A ops : Outside(l \o r, ops) =
                         Outside(l, ops) \cup {Len(l) + k : k \in Outside(r, ops)}
<1> DEFINE s == l \o r
<1>1. /\ s \in Text /\ Len(l) \in Nat /\ Len(r) \in Nat /\ Len(s) = Len(l) + Len(r)
      /\ \A k \in 1..Len(l) : s[k] = l[k]
      /\ \A k \in 1..Len(r) : s[Len(l) + k] = r[k]
      /\ \A k \in 0..Len(l) : Depth(s, k) = Depth(l, k)
      /\ \A k \in 0..Len(r) : Depth(s, Len(l) + k) = Depth(l, Len(l)) + Depth(r, k)
  BY Behind
<1> HIDE DEF s
<1>2. \A k \in 0..Len(r) : Depth(s, Len(l) + k) = Depth(r, k)
  <2>1. \A k \in 0..Len(r) : Depth(r, k) \in Int
    BY DepthStep
  <2> QED BY <1>1, <2>1 DEF Nested
<1>3. Nested(s)
  <2>1. Depth(s, Len(s)) = 0
    BY <1>1, <1>2 DEF Nested
  <2>2. ASSUME NEW k \in 0..Len(s) PROVE Depth(s, k) >= 0
    <3>1. CASE k \in 0..Len(l)
      BY <1>1, <3>1 DEF Nested
    <3>2. CASE k \notin 0..Len(l)
      <4>1. k - Len(l) \in 0..Len(r) /\ Len(l) + (k - Len(l)) = k
        BY <1>1, <3>2
      <4> QED BY <1>2, <4>1 DEF Nested
    <3> QED BY <3>1, <3>2
  <2> QED BY <2>1, <2>2 DEF Nested
<1>4. ASSUME NEW ops
      PROVE  Outside(s, ops) = Outside(l, ops) \cup {Len(l) + k : k \in Outside(r, ops)}
  <2>1. /\ DOMAIN s = 1..(Len(l) + Len(r)) /\ DOMAIN l = 1..Len(l) /\ DOMAIN r = 1..Len(r)
    BY <1>1 DEF Text
  <2>2. ASSUME NEW k \in Outside(s, ops)
        PROVE  k \in Outside(l, ops) \/ \E j \in Outside(r, ops) : k = Len(l) + j
    <3>1. k \in 1..(Len(l) + Len(r)) /\ s[k].t \in ops /\ Depth(s, k) = 0
      BY <1>1, <2>1, OutsideIs
    <3>2. CASE k \in 1..Len(l)
      <4>1. s[k] = l[k] /\ Depth(l, k) = 0 /\ k \in DOMAIN l
        BY <1>1, <2>1, <3>1, <3>2
      <4> QED BY <3>1, <4>1, OutsideIs
    <3>3. CASE k \notin 1..Len(l)
      <4> DEFINE j == k - Len(l)
      <4>1. j \in 1..Len(r) /\ j \in 0..Len(r) /\ Len(l) + j = k
        BY <1>1, <3>1, <3>3
      <4> HIDE DEF j
      <4>2. s[k] = r[j] /\ Depth(r, j) = 0 /\ j \in DOMAIN r
        BY <1>1, <1>2, <2>1, <3>1, <4>1
      <4>3. j \in Outside(r, ops)
        BY <3>1, <4>2, OutsideIs
      <4> QED BY <4>1, <4>3
    <3> QED BY <3>2, <3>3
  <2>3. ASSUME NEW k \in Outside(l, ops) PROVE k \in Outside(s, ops)
    <3>1. k \in 1..Len(l) /\ l[k].t \in ops /\ Depth(l, k) = 0
      BY <2>1, OutsideIs
    <3>2. s[k] = l[k] /\ Depth(s, k) = 0 /\ k \in DOMAIN s
      BY <1>1, <2>1, <3>1
    <3> QED BY <1>1, <3>1, <3>2, OutsideIs
  <2>4. ASSUME NEW j \in Outside(r, ops) PROVE Len(l) + j \in Outside(s, ops)
    <3>1. j \in 1..Len(r) /\ r[j].t \in ops /\ Depth(r, j) = 0
      BY <2>1, OutsideIs
    <3>2. s[Len(l) + j] = r[j] /\ Depth(s, Len(l) + j) = 0 /\ Len(l) + j \in DOMAIN s
      BY <1>1, <1>2, <2>1, <3>1
    <3> QED BY <1>1, <3>1, <3>2, OutsideIs
  <2> QED BY <2>2, <2>3, <2>4
<1> QED BY <1>3, <1>4 DEF s

Weak == {"+", "-"}
Strong == {"*", "/"}
Arithmetic == {"+", "-", "*", "/"}

LEMMA OutsideParts ==
    ASSUME NEW s \in Text
    PROVE  Outside(s, Arithmetic) = Outside(s, Weak) \cup Outside(s, Strong)
BY OutsideIs DEF Weak, Strong, Arithmetic

LEMMA TokenText ==
    ASSUME NEW token \in Token
    PROVE  /\ <<token>> \in Text /\ Len(<<token>>) = 1 /\ <<token>>[1] = token
           /\ token.t \notin {"(", ")"} =>
                /\ Nested(<<token>>)
                /\ \A ops : Outside(<<token>>, ops) = IF token.t \in ops THEN {1} ELSE {}
<1> DEFINE s == <<token>>
<1>1. s \in Text /\ Len(s) = 1 /\ s[1] = token /\ DOMAIN s = {1}
  BY DEF Text
<1> HIDE DEF s
<1>2. ASSUME token.t \notin {"(", ")"}
      PROVE  Nested(s) /\ \A ops : Outside(s, ops) = IF token.t \in ops THEN {1} ELSE {}
  <2>1. Depth(s, 0) = 0 /\ Depth(s, 0 + 1) = Depth(s, 0) + Turn(s[0 + 1])
    BY DepthStep
  <2>2. Depth(s, 1) = 0
    BY <1>1, <1>2, <2>1 DEF Turn
  <2>3. Nested(s)
    <3>1. \A k \in 0..1 : k = 0 \/ k = 1
      OBVIOUS
    <3> QED BY <1>1, <2>1, <2>2, <3>1 DEF Nested
  <2>4. ASSUME NEW ops PROVE Outside(s, ops) = IF token.t \in ops THEN {1} ELSE {}
    <3>1. Outside(s, ops) = {k \in DOMAIN s : s[k].t \in ops /\ Depth(s, k) = 0}
      BY <1>1, OutsideIs
    <3> QED BY <1>1, <2>2, <3>1
  <2> QED BY <2>3, <2>4
<1> QED BY <1>1, <1>2 DEF s

LEMMA SymText ==
    ASSUME NEW t \in {"+", "-", "*", "/", "(", ")", "junk"}
    PROVE  /\ Sym(t) \in Text /\ Len(Sym(t)) = 1 /\ Sym(t)[1] = [t |-> t, n |-> 0]
           /\ [t |-> t, n |-> 0] \in Token
<1>1. [t |-> t, n |-> 0] \in Token
  BY DEF Token
<1> QED BY <1>1, TokenText DEF Sym

(* What stands in parentheses is one operand.                              *)
Closed(s) == s \in Text /\ Nested(s) /\ Outside(s, Arithmetic) = {}

LEMMA EnclosedText ==
    ASSUME NEW s \in Text, Nested(s)
    PROVE  /\ Closed(InParens(s)) /\ Len(InParens(s)) = Len(s) + 2
           /\ InParens(s)[1].t = "(" /\ InParens(s)[Len(InParens(s))].t = ")"
           /\ SubSeq(InParens(s), 2, Len(InParens(s)) - 1) = s
<1> DEFINE a == Sym("(")
           b == Sym(")")
           l == a \o s
           e == l \o b
<1>0. InParens(s) = e
  BY DEF InParens
<1>1. /\ a \in Text /\ Len(a) = 1 /\ a[1].t = "("
      /\ b \in Text /\ Len(b) = 1 /\ b[1].t = ")"
  BY SymText
<1>2. Depth(a, 1) = 1 /\ Depth(b, 1) = -1 /\ Depth(a, 0) = 0 /\ Depth(b, 0) = 0
  <2>1. /\ Depth(a, 0) = 0 /\ Depth(a, 0 + 1) = Depth(a, 0) + Turn(a[0 + 1])
        /\ Depth(b, 0) = 0 /\ Depth(b, 0 + 1) = Depth(b, 0) + Turn(b[0 + 1])
    BY DepthStep
  <2> HIDE DEF a, b
  <2> QED BY <1>1, <2>1 DEF Turn
<1> HIDE DEF a, b
<1>2a. /\ l \in Text /\ Len(s) \in Nat /\ Len(l) = Len(a) + Len(s)
       /\ \A k \in 1..Len(a) : l[k] = a[k]
       /\ \A k \in 1..Len(s) : l[Len(a) + k] = s[k]
       /\ \A k \in 0..Len(a) : Depth(l, k) = Depth(a, k)
       /\ \A k \in 0..Len(s) : Depth(l, Len(a) + k) = Depth(a, Len(a)) + Depth(s, k)
  BY <1>1, Behind
<1>3. /\ l \in Text /\ Len(s) \in Nat /\ Len(l) = 1 + Len(s) /\ l[1] = a[1]
      /\ \A k \in 1..Len(s) : l[1 + k] = s[k]
      /\ \A k \in 0..1 : Depth(l, k) = Depth(a, k)
      /\ \A k \in 0..Len(s) : Depth(l, 1 + k) = Depth(a, 1) + Depth(s, k)
  BY <1>1, <1>2a
<1> HIDE DEF l
<1>3a. /\ e \in Text /\ Len(e) = Len(l) + Len(b) /\ Len(l) \in Nat
       /\ \A k \in 1..Len(l) : e[k] = l[k]
       /\ \A k \in 1..Len(b) : e[Len(l) + k] = b[k]
       /\ \A k \in 0..Len(l) : Depth(e, k) = Depth(l, k)
       /\ \A k \in 0..Len(b) : Depth(e, Len(l) + k) = Depth(l, Len(l)) + Depth(b, k)
  BY <1>1, <1>3, Behind
<1>4. /\ e \in Text /\ Len(e) = Len(s) + 2 /\ Len(l) \in Nat
      /\ \A k \in 1..Len(l) : e[k] = l[k]
      /\ \A k \in 1..1 : e[Len(l) + k] = b[k]
      /\ \A k \in 0..Len(l) : Depth(e, k) = Depth(l, k)
      /\ \A k \in 0..1 : Depth(e, Len(l) + k) = Depth(l, Len(l)) + Depth(b, k)
  BY <1>1, <1>3, <1>3a
<1> HIDE DEF e
<1>5. e[1].t = "(" /\ e[Len(e)].t = ")"
  <2>1. 1 \in 1..Len(l) /\ 1 \in 1..1 /\ Len(e) = Len(l) + 1
    BY <1>3, <1>4
  <2> QED BY <1>1, <1>3, <1>4, <2>1
<1>6. \A k \in 0..Len(s) : Depth(s, k) \in Int /\ Depth(s, k) >= 0
  BY DepthStep DEF Nested
<1>7. ASSUME NEW k \in 1..Len(s) + 1 PROVE Depth(e, k) >= 1
  <2>1. k - 1 \in 0..Len(s) /\ 1 + (k - 1) = k /\ k \in 0..Len(l)
    BY <1>3
  <2>2. Depth(e, k) = Depth(a, 1) + Depth(s, k - 1)
    BY <1>3, <1>4, <2>1
  <2> QED BY <1>2, <1>6, <2>1, <2>2
<1>8. Depth(e, Len(e)) = 0
  <2>1. Len(e) = Len(l) + 1 /\ Len(s) \in 0..Len(s) /\ 1 \in 0..1
    BY <1>3, <1>4
  <2>2. Depth(l, Len(l)) = 1 + 0
    BY <1>2, <1>3, <2>1 DEF Nested
  <2> QED BY <1>2, <1>4, <2>1, <2>2
<1>9. Nested(e)
  <2>1. Depth(e, 0) = 0
    BY DepthStep
  <2>2. ASSUME NEW k \in 0..Len(e) PROVE Depth(e, k) >= 0
    <3>1. k = 0 \/ k \in 1..Len(s) + 1 \/ k = Len(e)
      BY <1>3, <1>4
    <3>2. \A j \in 0..Len(e) : Depth(e, j) \in Int
      BY DepthStep
    <3> QED BY <1>7, <1>8, <2>1, <3>1, <3>2
  <2> QED BY <1>8, <2>2 DEF Nested
<1>10. Outside(e, Arithmetic) = {}
  <2>1. ASSUME NEW k \in DOMAIN e, e[k].t \in Arithmetic, Depth(e, k) = 0 PROVE FALSE
    <3>1. k \in 1..Len(e)
      BY <1>4 DEF Text
    <3>2. k # Len(e)
      BY <1>5, <2>1 DEF Arithmetic
    <3>3. k \in 1..Len(s) + 1
      BY <1>3, <1>4, <3>1, <3>2
    <3> QED BY <1>7, <2>1, <3>3
  <2> QED BY <1>4, <2>1, OutsideIs
<1>11. SubSeq(e, 2, Len(e) - 1) = s
  <2> DEFINE u == SubSeq(e, 2, Len(e) - 1)
  <2>1. \A k \in 1..Len(s) : e[1 + k] = s[k]
    <3>1. \A k \in 1..Len(s) : 1 + k \in 1..Len(l)
      BY <1>3
    <3> QED BY <1>3, <1>4, <3>1
  <2>2. /\ u \in Seq(Token) /\ Len(u) = Len(s) /\ \A k \in 1..Len(s) : u[k] = e[1 + k]
    BY <1>3, <1>4 DEF Text
  <2>3. s \in Seq(Token)
    BY DEF Text
  <2> HIDE DEF u
  <2>4. u = s
    BY <2>1, <2>2, <2>3
  <2> QED BY <2>4 DEF u
<1> QED BY <1>0, <1>4, <1>5, <1>9, <1>10, <1>11 DEF Closed

(* So is what the property calls an operand.                               *)
LEMMA OperandIsClosed ==
    ASSUME NEW v \in Text, Operand(v)
    PROVE  Closed(v)
<1>0. Len(v) \in Nat /\ DOMAIN v = 1..Len(v) /\ \A k \in DOMAIN v : v[k] \in Token
  BY DEF Text
<1>1. CASE Len(v) = 1 /\ v[1].t = "num"
  <2>1. v = <<v[1]>> /\ v[1] \in Token
    BY <1>0, <1>1 DEF Text
  <2>2. "num" \notin Arithmetic
    BY DEF Arithmetic
  <2> QED BY <1>1, <2>1, <2>2, TokenText DEF Closed
<1>2. CASE Len(v) > 2 /\ \A k \in DOMAIN v : Depth(v, k) >= 0 /\ (Depth(v, k) = 0 <=> k = Len(v))
  <2> DEFINE m == Len(v)
  <2>1. m \in Nat /\ m > 2
    BY <1>0, <1>2
  <2>2. DOMAIN v = 1..m /\ \A k \in 1..m : Depth(v, k) >= 0 /\ (Depth(v, k) = 0 <=> k = m)
    BY <1>0, <1>2, Zenon
  <2> HIDE DEF m
  <2>3. /\ m - 1 \in 1..m /\ m \in 1..m /\ m - 1 \in Nat /\ (m - 1) + 1 = m /\ m - 1 # m
        /\ 0 \in Nat /\ \A k \in 0..m : k \in Nat /\ (k = 0 \/ k \in 1..m)
    BY <2>1
  <2>4. Depth(v, 0) = 0 /\ \A k \in 0..m : Depth(v, k) \in Int
    BY <2>3, DepthStep
  <2>5. Depth(v, m) = 0
    BY <2>2, <2>3
  <2>6. \A k \in 0..m : Depth(v, k) >= 0
    BY <2>2, <2>3, <2>4
  <2>7. v[m].t = ")"
    <3>1. Depth(v, m - 1) # 0 /\ Depth(v, m - 1) >= 0 /\ Depth(v, m - 1) \in Int
      BY <2>2, <2>3, DepthStep
    <3>2. Depth(v, m) = Depth(v, m - 1) + Turn(v[m])
      BY <2>3, DepthStep
    <3>3. Turn(v[m]) \in Int
      BY DEF Turn
    <3>4. Turn(v[m]) < 0
      BY <2>5, <3>1, <3>2, <3>3
    <3> QED BY <3>4 DEF Turn
  <2>8. ASSUME NEW k \in DOMAIN v, v[k].t \in Arithmetic, Depth(v, k) = 0 PROVE FALSE
    <3>1. k = m
      BY <2>2, <2>8
    <3> QED BY <2>7, <2>8, <3>1 DEF Arithmetic
  <2>9. Nested(v)
    BY <2>5, <2>6 DEF Nested, m
  <2> QED BY <2>8, <2>9, OutsideIs DEF Closed
<1> QED BY <1>1, <1>2, Zenon DEF Operand, Depth, Count

----------------------------------------------------------------------------
(* The equation of Eval.  What the text s evaluates to, when f is what the *)
(* shorter texts evaluate to.                                              *)
Result(f, s) ==
    IF Outside(s, {"+", "-", "*", "/"}) # {}
      THEN LET k == LastApplied(s)
           IN evalBin(s[k].t, f[SubSeq(s, 1, k - 1)], f[SubSeq(s, k + 1, Len(s))])
      ELSE CASE Len(s) = 1 /\ s[1].t = "num" -> Number(s[1].n)
             [] Len(s) > 2 /\ s[1].t = "(" /\ s[Len(s)].t = ")" -> f[SubSeq(s, 2, Len(s) - 1)]
             [] OTHER -> Invalid

UpTo(n) == {s \in Text : Len(s) <= n}
Evaluates(f, n) == f = [s \in UpTo(n) |-> Result(f, s)]

(* The operator that is applied last is one of the operators.              *)
LEMMA LastIsMember ==
    ASSUME NEW s \in Text, NEW S \in SUBSET DOMAIN s, S # {}
    PROVE  Max(S) \in S /\ \A y \in S : Max(S) >= y
<1>1. Len(s) \in Nat /\ S \in SUBSET (1..Len(s))
  BY DEF Text
<1> QED BY <1>1, MaxOfInterval

LEMMA LastAppliedIs ==
    ASSUME NEW s \in Text, Outside(s, Arithmetic) # {}
    PROVE  LastApplied(s) \in Outside(s, Arithmetic) /\ LastApplied(s) \in 1..Len(s)
<1>1. \A ops : Outside(s, ops) \in SUBSET DOMAIN s
  BY OutsideIs
<1>2. DOMAIN s = 1..Len(s)
  BY DEF Text
<1>3. Outside(s, Arithmetic) = Outside(s, Weak) \cup Outside(s, Strong)
  BY OutsideParts
<1>4. Outside(s, Weak) # {} => Max(Outside(s, Weak)) \in Outside(s, Weak)
  BY <1>1, LastIsMember
<1>5. Outside(s, Strong) # {} => Max(Outside(s, Strong)) \in Outside(s, Strong)
  BY <1>1, LastIsMember
<1>6. LastApplied(s) = IF Outside(s, Weak) # {} THEN Max(Outside(s, Weak))
                                                ELSE Max(Outside(s, Strong))
  BY Zenon DEF LastApplied, Weak, Strong
<1>7. LastApplied(s) \in Outside(s, Arithmetic)
  BY <1>3, <1>4, <1>5, <1>6
<1> QED BY <1>1, <1>2, <1>7

LEMMA PartsOfText ==
    ASSUME NEW s \in Text, NEW i \in Nat, NEW j \in Int, 1 <= i, j <= Len(s)
    PROVE  /\ SubSeq(s, i, j) \in Text
           /\ Len(SubSeq(s, i, j)) = IF i <= j THEN j - i + 1 ELSE 0
<1>1. \A k \in i..j : s[k] \in Token
  BY DEF Text
<1> QED BY <1>1, SubSeqProperties DEF Text

LEMMA OperandsAreShorter ==
    ASSUME NEW s \in Text, Outside(s, Arithmetic) # {}
    PROVE  LET k == LastApplied(s)
               l == SubSeq(s, 1, k - 1)
               r == SubSeq(s, k + 1, Len(s))
           IN l \in Text /\ Len(l) < Len(s) /\ r \in Text /\ Len(r) < Len(s)
<1> DEFINE k == LastApplied(s)
           l == SubSeq(s, 1, k - 1)
           r == SubSeq(s, k + 1, Len(s))
<1>1. Len(s) \in Nat /\ k \in 1..Len(s)
  BY LastAppliedIs DEF Text
<1>2. l \in Text /\ Len(l) < Len(s)
  <2>1. 1 \in Nat /\ k - 1 \in Int /\ 1 <= 1 /\ k - 1 <= Len(s)
    BY <1>1
  <2>2. l \in Text /\ Len(l) = IF 1 <= k - 1 THEN (k - 1) - 1 + 1 ELSE 0
    BY <2>1, PartsOfText
  <2> HIDE DEF l
  <2> QED BY <1>1, <2>2
<1>3. r \in Text /\ Len(r) < Len(s)
  <2>1. k + 1 \in Nat /\ Len(s) \in Int /\ 1 <= k + 1 /\ Len(s) <= Len(s)
    BY <1>1
  <2>2. r \in Text /\ Len(r) = IF k + 1 <= Len(s) THEN Len(s) - (k + 1) + 1 ELSE 0
    BY <2>1, PartsOfText
  <2> HIDE DEF r
  <2> QED BY <1>1, <2>2
<1> QED BY <1>2, <1>3

LEMMA InsideIsShorter ==
    ASSUME NEW s \in Text, Len(s) > 2
    PROVE  SubSeq(s, 2, Len(s) - 1) \in Text /\ Len(SubSeq(s, 2, Len(s) - 1)) < Len(s)
<1> DEFINE u == SubSeq(s, 2, Len(s) - 1)
<1>1. 2 \in Nat /\ Len(s) \in Nat /\ Len(s) - 1 \in Int /\ 1 <= 2 /\ Len(s) - 1 <= Len(s)
  BY DEF Text
<1>2. u \in Text /\ Len(u) = IF 2 <= Len(s) - 1 THEN (Len(s) - 1) - 2 + 1 ELSE 0
  BY <1>1, PartsOfText
<1> HIDE DEF u
<1>3. u \in Text /\ Len(u) < Len(s)
  BY <1>1, <1>2
<1> QED BY <1>3 DEF u

(* Only shorter texts are looked at.                                       *)
LEMMA ResultLooksBelow ==
    ASSUME NEW s \in Text, NEW f, NEW g, \A t \in Text : Len(t) < Len(s) => f[t] = g[t]
    PROVE  Result(f, s) = Result(g, s)
<1>1. CASE Outside(s, Arithmetic) # {}
  <2> DEFINE k == LastApplied(s)
             l == SubSeq(s, 1, k - 1)
             r == SubSeq(s, k + 1, Len(s))
  <2>1. l \in Text /\ Len(l) < Len(s) /\ r \in Text /\ Len(r) < Len(s)
    BY <1>1, OperandsAreShorter
  <2>2. f[l] = g[l] /\ f[r] = g[r]
    BY <2>1
  <2>3. /\ Result(f, s) = evalBin(s[k].t, f[l], f[r])
        /\ Result(g, s) = evalBin(s[k].t, g[l], g[r])
    BY <1>1, Zenon DEF Result, Arithmetic
  <2> QED BY <2>2, <2>3, Zenon
<1>2. CASE Outside(s, Arithmetic) = {} /\ Len(s) = 1 /\ s[1].t = "num"
  BY <1>2 DEF Result, Arithmetic
<1>3. CASE /\ Outside(s, Arithmetic) = {} /\ ~(Len(s) = 1 /\ s[1].t = "num")
           /\ Len(s) > 2 /\ s[1].t = "(" /\ s[Len(s)].t = ")"
  <2> DEFINE u == SubSeq(s, 2, Len(s) - 1)
  <2>1. f[u] = g[u]
    BY <1>3, InsideIsShorter
  <2>2. Result(f, s) = f[u] /\ Result(g, s) = g[u]
    BY <1>3, Zenon DEF Result, Arithmetic
  <2> QED BY <2>1, <2>2, Zenon
<1>4. CASE /\ Outside(s, Arithmetic) = {} /\ ~(Len(s) = 1 /\ s[1].t = "num")
           /\ ~(Len(s) > 2 /\ s[1].t = "(" /\ s[Len(s)].t = ")")
  BY <1>4, Zenon DEF Result, Arithmetic
<1> QED BY <1>1, <1>2, <1>3, <1>4

Below(f, g, n) == \A s \in UpTo(n), t \in Text : Len(t) < Len(s) => f[t] = g[t]

(* Two functions that evaluate agree.                                      *)
LEMMA EvaluatesOneWay ==
    ASSUME NEW m \in Nat, NEW n \in Nat, NEW f, NEW g, Evaluates(f, m), Evaluates(g, n)
    PROVE  \A s \in Text : Len(s) <= m /\ Len(s) <= n => f[s] = g[s]
<1> DEFINE Differ(s) == s \in Text /\ Len(s) <= m /\ Len(s) <= n /\ f[s] # g[s]
           Bad == {k \in Nat : \E s \in Text : Len(s) = k /\ Differ(s)}
<1>1. ASSUME NEW s \in Text, Differ(s) PROVE FALSE
  <2>1. Len(s) \in Bad
    BY <1>1 DEF Text
  <2>2. PICK k \in Bad : \A j \in Bad : k <= j
    <3>1. Bad \in SUBSET Nat /\ Bad # {}
      BY <2>1
    <3> HIDE DEF Bad
    <3> QED BY <3>1, Least
  <2>3. PICK t \in Text : Len(t) = k /\ Differ(t)
    OBVIOUS
  <2>4. ASSUME NEW u \in Text, Len(u) < Len(t) PROVE f[u] = g[u]
    <3>1. Len(u) \in Nat /\ Len(u) <= m /\ Len(u) <= n /\ ~(k <= Len(u))
      BY <2>3, <2>4 DEF Text
    <3>2. Len(u) \notin Bad
      BY <2>2, <3>1
    <3> QED BY <3>1, <3>2
  <2>5. Result(f, t) = Result(g, t)
    BY <2>4, ResultLooksBelow
  <2>6. t \in UpTo(m) /\ t \in UpTo(n)
    BY <2>3 DEF UpTo
  <2>7. f[t] = Result(f, t) /\ g[t] = Result(g, t)
    BY <2>6, Zenon DEF Evaluates
  <2> QED BY <2>3, <2>5, <2>7
<1> QED BY <1>1

LEMMA EvaluatesUpTo ==
    ASSUME NEW n \in Nat
    PROVE  \E f : Evaluates(f, n)
<1> DEFINE Bad == {k \in Nat : ~ \E f : Evaluates(f, k)}
<1>1. ASSUME NEW k \in Nat, NEW f, NEW g, g = [s \in UpTo(k) |-> Result(f, s)],
             Below(f, g, k)
      PROVE  Evaluates(g, k)
  <2>1. \A s \in UpTo(k) : Result(f, s) = Result(g, s)
    BY <1>1, ResultLooksBelow DEF UpTo, Below
  <2> QED BY <1>1, <2>1, Zenon DEF Evaluates
<1>2. ASSUME Bad # {} PROVE FALSE
  <2>1. PICK k \in Bad : \A j \in Bad : k <= j
    <3>1. Bad \in SUBSET Nat
      OBVIOUS
    <3> HIDE DEF Bad
    <3> QED BY <1>2, <3>1, Least
  <2>2. CASE k = 0
    <3> DEFINE f == [s \in {} |-> s]
               g == [s \in UpTo(0) |-> Result(f, s)]
    <3>1. \A s \in UpTo(0), t \in Text : ~(Len(t) < Len(s))
      BY DEF UpTo, Text
    <3>2. g = [s \in UpTo(0) |-> Result(f, s)]
      OBVIOUS
    <3> HIDE DEF f, g
    <3>3. Below(f, g, 0)
      BY <3>1 DEF Below
    <3>4. Evaluates(g, 0)
      BY <1>1, <3>2, <3>3
    <3> QED BY <2>1, <2>2, <3>4
  <2>3. CASE k # 0
    <3>1. k - 1 \in Nat /\ k - 1 \notin Bad /\ k \in Nat
      BY <2>1, <2>3
    <3>2. PICK f : Evaluates(f, k - 1)
      BY <3>1
    <3> DEFINE g == [s \in UpTo(k) |-> Result(f, s)]
    <3>3. ASSUME NEW s \in UpTo(k), NEW t \in Text, Len(t) < Len(s) PROVE f[t] = g[t]
      <4>1. t \in UpTo(k) /\ t \in UpTo(k - 1)
        BY <3>1, <3>3 DEF UpTo, Text
      <4>2. f[t] = Result(f, t)
        BY <3>2, <4>1, Zenon DEF Evaluates
      <4> QED BY <4>1, <4>2
    <3>4. g = [s \in UpTo(k) |-> Result(f, s)]
      OBVIOUS
    <3> HIDE DEF g
    <3>5. Below(f, g, k)
      BY <3>3 DEF Below
    <3>6. Evaluates(g, k)
      BY <1>1, <3>1, <3>4, <3>5
    <3> QED BY <2>1, <3>6
  <2> QED BY <2>2, <2>3
<1> QED BY <1>2

(* Eval is what its definition says: the function that the recursion       *)
(* describes exists, so an expression's value is that of its parts.        *)
LEMMA EvalEquation == \A s \in Text : Eval[s] = Result(Eval, s)
<1> DEFINE at(n) == CHOOSE f : Evaluates(f, n)
           whole == [s \in Text |-> at(Len(s))[s]]
           again == [s \in Text |-> Result(whole, s)]
<1>1. \A n \in Nat : Evaluates(at(n), n)
  BY EvaluatesUpTo, Zenon
<1> HIDE DEF at
<1>2. ASSUME NEW s \in Text PROVE whole[s] = Result(whole, s)
  <2>1. Len(s) \in Nat /\ s \in UpTo(Len(s))
    BY DEF Text, UpTo
  <2>2. whole[s] = Result(at(Len(s)), s)
    BY <1>1, <2>1, Zenon DEF Evaluates
  <2>3. ASSUME NEW t \in Text, Len(t) < Len(s) PROVE at(Len(s))[t] = whole[t]
    <3>1. Len(t) \in Nat /\ Len(t) <= Len(s) /\ Len(t) <= Len(t)
      BY <2>1, <2>3 DEF Text
    <3>2. Evaluates(at(Len(s)), Len(s)) /\ Evaluates(at(Len(t)), Len(t))
      BY <1>1, <2>1, <3>1
    <3>3. at(Len(s))[t] = at(Len(t))[t]
      BY <2>1, <3>1, <3>2, EvaluatesOneWay
    <3> QED BY <3>3
  <2> HIDE DEF whole
  <2>4. Result(at(Len(s)), s) = Result(whole, s)
    BY <2>3, ResultLooksBelow
  <2> QED BY <2>2, <2>4
<1>3. whole = again
  BY <1>2, Zenon
<1> HIDE DEF whole
<1>4. \E f : f = [s \in Text |-> Result(f, s)]
  BY <1>3
<1>5. Eval = CHOOSE f : f = [s \in Text |-> Result(f, s)]
  BY Zenon DEF Eval, Result
<1>6. Eval = [s \in Text |-> Result(Eval, s)]
  BY <1>4, <1>5, Zenon
<1> QED BY <1>6, Zenon

----------------------------------------------------------------------------
(* The laws of Eval: a number, parentheses, two operands.                  *)
LEMMA ValueOfNumber ==
    ASSUME NEW n \in Int
    PROVE  Closed(Num(n)) /\ Eval[Num(n)] = Number(n)
<1> DEFINE s == Num(n)
           token == [t |-> "num", n |-> n]
<1>1. token \in Token /\ s = <<token>> /\ token.t = "num" /\ token.n = n
  BY DEF Token, Num
<1> HIDE DEF token, s
<1>2. s \in Text /\ Len(s) = 1 /\ s[1] = token /\ Nested(s)
  BY <1>1, TokenText
<1>3. Outside(s, Arithmetic) = {}
  <2>1. "num" \notin Arithmetic /\ "num" \notin {"(", ")"}
    BY DEF Arithmetic
  <2> QED BY <1>1, <2>1, TokenText
<1>4. Result(Eval, s) = Number(n)
  BY <1>1, <1>2, <1>3 DEF Result, Arithmetic
<1>5. Eval[s] = Number(n)
  BY <1>2, <1>4, EvalEquation
<1> QED BY <1>2, <1>3, <1>5 DEF Closed, s

LEMMA ValueInParens ==
    ASSUME NEW s \in Text, Nested(s), Len(s) # 0
    PROVE  Eval[InParens(s)] = Eval[s]
<1> DEFINE e == InParens(s)
<1>1. /\ Closed(e) /\ Len(e) = Len(s) + 2 /\ e[1].t = "(" /\ e[Len(e)].t = ")"
      /\ SubSeq(e, 2, Len(e) - 1) = s /\ Len(s) \in Nat
  BY EnclosedText DEF Text
<1> HIDE DEF e
<1>2. Len(e) > 2 /\ Len(e) # 1 /\ e \in Text /\ Outside(e, Arithmetic) = {}
  BY <1>1 DEF Closed
<1>3. Result(Eval, e) = Eval[SubSeq(e, 2, Len(e) - 1)]
  BY <1>1, <1>2, Zenon DEF Result, Arithmetic
<1> QED BY <1>1, <1>2, <1>3, EvalEquation DEF e

(* Operator op stands between l and r.                                     *)
LEMMA Joined ==
    ASSUME NEW l \in Text, NEW r \in Text, NEW op \in Arithmetic, Nested(l), Nested(r)
    PROVE  LET s == l \o Sym(op) \o r
           IN /\ s \in Text /\ Nested(s) /\ Len(s) = Len(l) + 1 + Len(r)
              /\ s[Len(l) + 1].t = op
              /\ SubSeq(s, 1, Len(l)) = l /\ SubSeq(s, Len(l) + 2, Len(s)) = r
              /\ \A ops : Outside(s, ops) =
                   Outside(l, ops) \cup (IF op \in ops THEN {Len(l) + 1} ELSE {})
                                   \cup {(Len(l) + 1) + k : k \in Outside(r, ops)}
<1> DEFINE o == Sym(op)
           a == l \o o
           s == a \o r
<1>1. /\ o \in Text /\ Len(o) = 1 /\ o[1].t = op /\ Nested(o)
      /\ \A ops : Outside(o, ops) = IF op \in ops THEN {1} ELSE {}
  <2>1. op \in {"+", "-", "*", "/", "(", ")", "junk"} /\ op \notin {"(", ")"}
    BY DEF Arithmetic
  <2>2. o = <<[t |-> op, n |-> 0]>> /\ [t |-> op, n |-> 0] \in Token /\ [t |-> op, n |-> 0].t = op
    BY <2>1, SymText DEF Sym
  <2> QED BY <2>1, <2>2, TokenText
<1> HIDE DEF o
<1>2. /\ a \in Text /\ Len(l) \in Nat /\ Len(a) = Len(l) + Len(o)
      /\ \A k \in 1..Len(l) : a[k] = l[k]
      /\ \A k \in 1..Len(o) : a[Len(l) + k] = o[k]
  BY <1>1, Behind
<1>3. /\ Nested(a)
      /\ \A ops : Outside(a, ops) = Outside(l, ops) \cup {Len(l) + k : k \in Outside(o, ops)}
  BY <1>1, NestedBehind
<1> HIDE DEF a
<1>4. /\ s \in Text /\ Len(r) \in Nat /\ Len(s) = Len(a) + Len(r)
      /\ \A k \in 1..Len(a) : s[k] = a[k]
      /\ \A k \in 1..Len(r) : s[Len(a) + k] = r[k]
  BY <1>2, Behind
<1>5. /\ Nested(s)
      /\ \A ops : Outside(s, ops) = Outside(a, ops) \cup {Len(a) + k : k \in Outside(r, ops)}
  BY <1>2, <1>3, NestedBehind
<1> HIDE DEF s
<1>6. Len(a) = Len(l) + 1 /\ Len(s) = Len(l) + 1 + Len(r)
  BY <1>1, <1>2, <1>4
<1>7. s[Len(l) + 1].t = op
  <2>1. 1 \in 1..Len(o) /\ Len(l) + 1 \in 1..Len(a)
    BY <1>1, <1>2
  <2> QED BY <1>1, <1>2, <1>4, <2>1
<1>8. SubSeq(s, 1, Len(l)) = l
  <2> DEFINE u == SubSeq(s, 1, Len(l))
  <2>1. \A k \in 1..Len(l) : s[k] = l[k]
    BY <1>2, <1>4
  <2>2. u \in Seq(Token) /\ Len(u) = Len(l) /\ \A k \in 1..Len(l) : u[k] = s[k]
    BY <1>2, <1>4, <1>6 DEF Text
  <2>3. l \in Seq(Token)
    BY DEF Text
  <2> HIDE DEF u
  <2>4. u = l
    BY <2>1, <2>2, <2>3
  <2> QED BY <2>4 DEF u
<1>9. SubSeq(s, Len(l) + 2, Len(s)) = r
  <2> DEFINE u == SubSeq(s, Len(l) + 2, Len(s))
  <2>1. \A k \in 1..Len(r) : s[Len(l) + 1 + k] = r[k]
    BY <1>4, <1>6
  <2>2. u \in Seq(Token) /\ Len(u) = Len(r) /\ \A k \in 1..Len(r) : u[k] = s[Len(l) + 1 + k]
    <3> DEFINE i == Len(l) + 2
               j == Len(s)
    <3>0. Len(l) \in Nat /\ Len(r) \in Nat /\ Len(s) = Len(l) + 1 + Len(r)
      BY <1>2, <1>4, <1>6
    <3>1. /\ i \in Int /\ j \in Int /\ j - i + 1 = Len(r)
          /\ (i <= j) = (Len(r) # 0)
      BY <3>0
    <3>1a. \A k \in i..j : k \in 1..Len(s)
      BY <1>2
    <3>1b. \A k \in i..j : s[k] \in Token
      BY <1>4, <3>1a DEF Text
    <3>1c. s \in Seq(Token)
      BY <1>4 DEF Text
    <3> HIDE DEF i, j
    <3>2. /\ SubSeq(s, i, j) \in Seq(Token)
          /\ Len(SubSeq(s, i, j)) = (IF i <= j THEN j - i + 1 ELSE 0)
          /\ \A k \in 1 .. j - i + 1 : SubSeq(s, i, j)[k] = s[i + k - 1]
      BY <3>1, <3>1b, <3>1c, SubSeqProperties
    <3>3. Len(SubSeq(s, i, j)) = Len(r)
      BY <1>4, <3>1, <3>2
    <3>4. \A k \in 1..Len(r) : i + k - 1 = Len(l) + 1 + k
      BY <1>2, <1>4 DEF i
    <3>5. \A k \in 1..Len(r) : SubSeq(s, i, j)[k] = s[Len(l) + 1 + k]
      BY <3>1, <3>2, <3>4
    <3> QED BY <3>2, <3>3, <3>5 DEF i, j
  <2>3. r \in Seq(Token)
    BY DEF Text
  <2> HIDE DEF u
  <2>4. u = r
    BY <2>1, <2>2, <2>3
  <2> QED BY <2>4 DEF u
<1>10. ASSUME NEW ops
       PROVE  Outside(s, ops) = Outside(l, ops) \cup (IF op \in ops THEN {Len(l) + 1} ELSE {})
                                   \cup {(Len(l) + 1) + k : k \in Outside(r, ops)}
  <2>1. {Len(l) + k : k \in Outside(o, ops)} = IF op \in ops THEN {Len(l) + 1} ELSE {}
    <3>1. Outside(o, ops) = IF op \in ops THEN {1} ELSE {}
      BY <1>1
    <3> QED BY <3>1
  <2>2. /\ Outside(s, ops) = Outside(a, ops) \cup {Len(a) + k : k \in Outside(r, ops)}
        /\ Outside(a, ops) = Outside(l, ops) \cup {Len(l) + k : k \in Outside(o, ops)}
    BY <1>3, <1>5, Zenon
  <2> QED BY <1>6, <2>1, <2>2, Zenon
<1> QED BY <1>4, <1>5, <1>6, <1>7, <1>8, <1>9, <1>10 DEF s, a, o

(* op is applied after the operators of l and of r.                        *)
Binds(l, op, r) ==
    /\ Outside(r, Weak) = {}
    /\ op \in Strong => Outside(l, Weak) = {} /\ Outside(r, Strong) = {}

(* The operator that is applied last splits a text in two operands: the    *)
(* text's value is the operator's result on their values (eval, evalBin),  *)
(* whatever the operands are, as long as none of their own operators at    *)
(* the top has to wait for this one.                                       *)
THEOREM ValueOfBinary ==
    ASSUME NEW l \in Text, NEW r \in Text, NEW op \in Arithmetic, Nested(l), Nested(r),
           Binds(l, op, r)
    PROVE  Eval[l \o Sym(op) \o r] = evalBin(op, Eval[l], Eval[r])
<1> DEFINE s == l \o Sym(op) \o r
           m == Len(l) + 1
<1>1. /\ s \in Text /\ Nested(s) /\ Len(s) = Len(l) + 1 + Len(r)
      /\ s[Len(l) + 1].t = op
      /\ SubSeq(s, 1, Len(l)) = l /\ SubSeq(s, Len(l) + 2, Len(s)) = r
      /\ \A ops : Outside(s, ops) =
           Outside(l, ops) \cup (IF op \in ops THEN {Len(l) + 1} ELSE {})
                           \cup {(Len(l) + 1) + k : k \in Outside(r, ops)}
  BY Joined, Zenon
<1>2. Len(l) \in Nat /\ Len(r) \in Nat /\ DOMAIN s = 1..Len(s)
  BY <1>1 DEF Text
<1> HIDE DEF s
<1>3. \A ops : Outside(l, ops) \in SUBSET (1..Len(l)) /\ Outside(s, ops) \in SUBSET (DOMAIN s)
  <2>1. \A ops : Outside(l, ops) \in SUBSET DOMAIN l
    BY OutsideIs
  <2>2. \A ops : Outside(s, ops) \in SUBSET DOMAIN s
    BY <1>1, OutsideIs
  <2> QED BY <2>1, <2>2 DEF Text
<1>4. op \in Weak \/ (op \in Strong /\ op \notin Weak)
  BY DEF Arithmetic, Weak, Strong
<1>5. /\ Outside(s, Arithmetic) # {}
      /\ LastApplied(s) = m
  <2>1. m \in Outside(s, Arithmetic)
    BY <1>1
  <2>2. CASE op \in Weak
    <3>1. Outside(s, Weak) = Outside(l, Weak) \cup {m}
      BY <1>1, <2>2 DEF Binds
    <3>2. /\ Max(Outside(s, Weak)) \in Outside(s, Weak)
          /\ \A y \in Outside(s, Weak) : Max(Outside(s, Weak)) >= y
      BY <1>1, <1>3, <3>1, LastIsMember
    <3>3. Max(Outside(s, Weak)) = m
      <4> DEFINE x == Max(Outside(s, Weak))
      <4>1. x >= m /\ (x \in 1..Len(l) \/ x = m)
        BY <1>3, <3>1, <3>2
      <4> HIDE DEF x
      <4>2. x = m
        BY <1>2, <4>1
      <4> QED BY <4>2 DEF x
    <3>4. LastApplied(s) = Max(Outside(s, Weak))
      BY <3>1 DEF LastApplied, Weak
    <3> QED BY <2>1, <3>3, <3>4
  <2>3. CASE op \in Strong /\ op \notin Weak
    <3>1. Outside(s, Strong) = Outside(l, Strong) \cup {m} /\ Outside(s, Weak) = {}
      BY <1>1, <2>3 DEF Binds
    <3>2. /\ Max(Outside(s, Strong)) \in Outside(s, Strong)
          /\ \A y \in Outside(s, Strong) : Max(Outside(s, Strong)) >= y
      BY <1>1, <1>3, <3>1, LastIsMember
    <3>3. Max(Outside(s, Strong)) = m
      <4> DEFINE x == Max(Outside(s, Strong))
      <4>1. x >= m /\ (x \in 1..Len(l) \/ x = m)
        BY <1>3, <3>1, <3>2
      <4> HIDE DEF x
      <4>2. x = m
        BY <1>2, <4>1
      <4> QED BY <4>2 DEF x
    <3>4. LastApplied(s) = Max(Outside(s, Strong))
      BY <3>1, Zenon DEF LastApplied, Weak, Strong
    <3> QED BY <2>1, <3>3, <3>4
  <2> QED BY <1>4, <2>2, <2>3
<1>6. Result(Eval, s) = evalBin(s[m].t, Eval[SubSeq(s, 1, m - 1)], Eval[SubSeq(s, m + 1, Len(s))])
  BY <1>5, Zenon DEF Result, Arithmetic
<1>7. m - 1 = Len(l) /\ m + 1 = Len(l) + 2 /\ m = Len(l) + 1
  BY <1>2
<1>8. Result(Eval, s) = evalBin(op, Eval[l], Eval[r])
  BY <1>1, <1>6, <1>7, Zenon
<1> QED BY <1>1, <1>8, EvalEquation DEF s
----------------------------------------------------------------------------
(* Replacing a variable.  Pieces that are put one behind the other.        *)
Flattens(f, n, pieces) ==
    f = [i \in 1..n |-> IF i = 1 THEN pieces[i] ELSE f[i-1] \o pieces[i]]

LEMMA FlattenGrows ==
    ASSUME NEW pieces, NEW n \in Nat, NEW f, Flattens(f, n, pieces)
    PROVE  \E g : Flattens(g, n + 1, pieces)
<1> DEFINE g == [i \in 1..(n + 1) |-> IF i = 1 THEN pieces[i] ELSE f[i-1] \o pieces[i]]
<1>1. ASSUME NEW i \in 1..n PROVE f[i] = g[i]
  <2>1. f[i] = IF i = 1 THEN pieces[i] ELSE f[i-1] \o pieces[i]
    BY Zenon DEF Flattens
  <2>2. i \in 1..(n + 1)
    OBVIOUS
  <2> QED BY <2>1, <2>2, Zenon
<1>2. g = [i \in 1..(n + 1) |-> IF i = 1 THEN pieces[i] ELSE g[i-1] \o pieces[i]]
  <2>1. ASSUME NEW i \in 1..(n + 1), i # 1 PROVE f[i-1] = g[i-1]
    <3>1. i - 1 \in 1..n
      BY <2>1
    <3> QED BY <1>1, <3>1
  <2> QED BY <2>1, Zenon
<1> QED BY <1>2, Zenon DEF Flattens

LEMMA FlattenExists ==
    ASSUME NEW n \in Nat, NEW pieces
    PROVE  \E f : Flattens(f, n, pieces)
<1> DEFINE Bad == {k \in Nat : ~ \E f : Flattens(f, k, pieces)}
<1>1. ASSUME Bad # {} PROVE FALSE
  <2>1. PICK k \in Bad : \A j \in Bad : k <= j
    <3>1. Bad \in SUBSET Nat
      OBVIOUS
    <3> HIDE DEF Bad
    <3> QED BY <1>1, <3>1, Least
  <2>2. k # 0
    <3> DEFINE f == [i \in 1..0 |-> pieces]
    <3>1. f = [i \in 1..0 |-> IF i = 1 THEN pieces[i] ELSE f[i-1] \o pieces[i]]
      OBVIOUS
    <3>2. Flattens(f, 0, pieces)
      BY <3>1, Zenon DEF Flattens
    <3> QED BY <2>1, <3>2
  <2>3. k - 1 \in Nat /\ (k - 1) + 1 = k /\ k - 1 \notin Bad
    BY <2>1, <2>2
  <2>4. PICK f : Flattens(f, k - 1, pieces)
    BY <2>3
  <2>5. \E g : Flattens(g, (k - 1) + 1, pieces)
    BY <2>3, <2>4, FlattenGrows
  <2> QED BY <2>1, <2>3, <2>5
<1> QED BY <1>1

LEMMA FlattenIs ==
    ASSUME NEW pieces \in Seq(Text), Len(pieces) # 0
    PROVE  \E f : /\ Flattens(f, Len(pieces), pieces)
                  /\ FlattenSeq(pieces) = f[Len(pieces)]
<1> DEFINE f == CHOOSE f : Flattens(f, Len(pieces), pieces)
<1>1. Flattens(f, Len(pieces), pieces)
  <2>1. Len(pieces) \in Nat
    OBVIOUS
  <2> QED BY <2>1, FlattenExists, Zenon
<1>2. FlattenSeq(pieces) = f[Len(pieces)]
  BY Zenon DEF FlattenSeq, Flattens
<1> QED BY <1>1, <1>2, Zenon

(* Step by step, from the first piece.                                     *)
LEMMA FlattenSteps ==
    ASSUME NEW pieces \in Seq(Text), NEW f, Flattens(f, Len(pieces), pieces)
    PROVE  /\ Len(pieces) # 0 => f[1] = pieces[1]
           /\ \A i \in 1..Len(pieces) : i # 1 => f[i] = f[i-1] \o pieces[i]
           /\ \A i \in 1..Len(pieces) : f[i] \in Text
<1>1. \A i \in 1..Len(pieces) : f[i] = IF i = 1 THEN pieces[i] ELSE f[i-1] \o pieces[i]
  BY Zenon DEF Flattens
<1>2. Len(pieces) \in Nat
  OBVIOUS
<1>3. Len(pieces) # 0 => 1 \in 1..Len(pieces)
  BY <1>2
<1> DEFINE Bad == {i \in 1..Len(pieces) : f[i] \notin Text}
<1>4. ASSUME Bad # {} PROVE FALSE
  <2>1. PICK i \in Bad : \A j \in Bad : i <= j
    <3>1. Bad \in SUBSET Nat
      BY <1>2
    <3> HIDE DEF Bad
    <3> QED BY <1>4, <3>1, Least
  <2>2. pieces[i] \in Text
    OBVIOUS
  <2>3. i # 1
    BY <1>1, <2>1, <2>2
  <2>4. i - 1 \in 1..Len(pieces) /\ i - 1 \notin Bad
    BY <1>2, <2>1, <2>3
  <2>5. f[i-1] \in Text
    BY <2>4
  <2>6. f[i-1] \o pieces[i] \in Text
    BY <2>2, <2>5, Behind
  <2> QED BY <1>1, <2>1, <2>3, <2>6
<1> QED BY <1>1, <1>3, <1>4

LEMMA TextsAssociate ==
    ASSUME NEW x \in Text, NEW y \in Text, NEW z \in Text
    PROVE  (x \o y) \o z = x \o (y \o z)
<1>1. x \in Seq(Token) /\ y \in Seq(Token) /\ z \in Seq(Token)
  BY DEF Text
<1> QED BY <1>1, ConcatAssociative

LEMMA FlattenTwo ==
    ASSUME NEW a \in Seq(Text), NEW b \in Seq(Text), NEW s \in Seq(Text),
           Len(a) # 0, Len(b) # 0, Len(s) = Len(a) + Len(b),
           \A i \in 1..Len(a) : s[i] = a[i], Repeats(s, Len(a), b, Len(b))
    PROVE  FlattenSeq(s) = FlattenSeq(a) \o FlattenSeq(b)
<1>1. PICK A : Flattens(A, Len(a), a) /\ FlattenSeq(a) = A[Len(a)]
  BY FlattenIs
<1>2. PICK B : Flattens(B, Len(b), b) /\ FlattenSeq(b) = B[Len(b)]
  BY FlattenIs
<1>0. Len(a) \in Nat /\ Len(b) \in Nat /\ Len(s) \in Nat /\ Len(s) # 0
  OBVIOUS
<1>3. PICK S : Flattens(S, Len(s), s) /\ FlattenSeq(s) = S[Len(s)]
  BY <1>0, FlattenIs
<1>4. /\ A[1] = a[1] /\ \A i \in 1..Len(a) : i # 1 => A[i] = A[i-1] \o a[i]
      /\ \A i \in 1..Len(a) : A[i] \in Text
  BY <1>1, FlattenSteps
<1>5. /\ B[1] = b[1] /\ \A i \in 1..Len(b) : i # 1 => B[i] = B[i-1] \o b[i]
      /\ \A i \in 1..Len(b) : B[i] \in Text
  BY <1>2, FlattenSteps
<1>6. S[1] = s[1] /\ \A i \in 1..Len(s) : i # 1 => S[i] = S[i-1] \o s[i]
  BY <1>0, <1>3, FlattenSteps
<1> DEFINE p == Len(a)
           q == Len(b)
<1>7. /\ p \in Nat /\ q \in Nat /\ p # 0 /\ q # 0 /\ Len(s) = p + q
      /\ \A i \in 1..p : s[i] = a[i] /\ A[i] \in Text
      /\ \A i \in 1..q : s[p + i] = b[i] /\ b[i] \in Text /\ B[i] \in Text
  BY <1>0, <1>4, <1>5 DEF Repeats
<1>8. /\ A[1] = a[1] /\ \A i \in 1..p : i # 1 => A[i] = A[i-1] \o a[i]
      /\ B[1] = b[1] /\ \A i \in 1..q : i # 1 => B[i] = B[i-1] \o b[i]
      /\ S[1] = s[1] /\ \A i \in 1..(p + q) : i # 1 => S[i] = S[i-1] \o s[i]
  BY <1>4, <1>5, <1>6, <1>7
<1> HIDE DEF p, q
<1>8a. p \in Nat /\ q \in Nat /\ p # 0 /\ q # 0
  BY <1>7
<1> DEFINE Left == {i \in 1..p : S[i] # A[i]}
<1>9. ASSUME Left # {} PROVE FALSE
  <2>1. PICK i \in Left : \A j \in Left : i <= j
    <3>1. Left \in SUBSET Nat
      BY <1>7
    <3> HIDE DEF Left
    <3> QED BY <1>9, <3>1, Least
  <2>2. i # 1
    BY <1>7, <1>8, <2>1
  <2>3. i \in 1..p /\ i - 1 \in 1..p /\ i - 1 \notin Left /\ i \in 1..(p + q)
    BY <1>8a, <2>1, <2>2
  <2>4. S[i-1] = A[i-1]
    BY <2>3
  <2>5. S[i] = S[i-1] \o s[i] /\ A[i] = A[i-1] \o a[i] /\ s[i] = a[i]
    BY <1>7, <1>8, <2>2, <2>3
  <2>6. S[i] = A[i]
    BY <2>4, <2>5, Zenon
  <2> QED BY <2>1, <2>6
<1> DEFINE Wrong(i) == S[p + i] # A[p] \o B[i]
<1> HIDE DEF Wrong
<1> DEFINE Right == {i \in 1..q : Wrong(i)}
<1>10. ASSUME Right # {} PROVE FALSE
  <2>1. PICK i \in Right : \A j \in Right : i <= j
    <3>1. Right \in SUBSET Nat
      BY <1>8a
    <3> HIDE DEF Right
    <3> QED BY <1>10, <3>1, Least
  <2>2. i \in 1..q /\ p + i \in 1..(p + q) /\ p + i # 1 /\ (p + i) - 1 = p + (i - 1) /\ p \in 1..p
    BY <1>8a, <2>1
  <2>3. S[p + i] = S[p + (i - 1)] \o b[i]
    BY <1>7, <1>8, <2>2
  <2>4. CASE i = 1
    <3>1. p + (i - 1) = p /\ S[p] = A[p]
      <4>1. p + (i - 1) = p /\ p \notin Left
        BY <1>8a, <1>9, <2>4
      <4> QED BY <2>2, <4>1
    <3>2. B[i] = b[i] /\ Wrong(i)
      BY <1>8, <2>1, <2>4
    <3>3. S[p + i] = A[p] \o B[i]
      BY <2>3, <3>1, <3>2, Zenon
    <3> QED BY <3>2, <3>3, Zenon DEF Wrong
  <2>5. CASE i # 1
    <3>1. i - 1 \in 1..q /\ i - 1 \notin Right
      BY <1>8a, <2>1, <2>5
    <3>2. S[p + (i - 1)] = A[p] \o B[i-1]
      <4>1. ~Wrong(i - 1)
        BY <3>1
      <4> QED BY <4>1, Zenon DEF Wrong
    <3>3. A[p] \in Text /\ B[i-1] \in Text /\ b[i] \in Text
      BY <1>7, <2>2, <3>1
    <3>4. (A[p] \o B[i-1]) \o b[i] = A[p] \o (B[i-1] \o b[i])
      BY <3>3, TextsAssociate, Zenon
    <3>5. B[i] = B[i-1] \o b[i] /\ Wrong(i)
      BY <1>8, <2>1, <2>2, <2>5
    <3>6. S[p + i] = A[p] \o B[i]
      BY <2>3, <3>2, <3>4, <3>5, Zenon
    <3> QED BY <3>5, <3>6, Zenon DEF Wrong
  <2> QED BY <2>4, <2>5
<1>11. q \in 1..q
  BY <1>7
<1>12. S[p + q] = A[p] \o B[q]
  <2>1. ~Wrong(q)
    BY <1>10, <1>11
  <2> QED BY <2>1, Zenon DEF Wrong
<1> QED BY <1>1, <1>2, <1>3, <1>7, <1>12 DEF p, q
(* One variable, x, with the text v for it.                                *)
Pieces(s, x, v) == [k \in DOMAIN s |-> IF <<s[k]>> = x THEN v ELSE <<s[k]>>]
Swapped(s, x, v) == FlattenSeq(Pieces(s, x, v))

LEMMA PiecesOf ==
    ASSUME NEW s \in Text, NEW x, NEW v \in Text
    PROVE  /\ Pieces(s, x, v) \in Seq(Text) /\ Len(Pieces(s, x, v)) = Len(s)
           /\ \A k \in 1..Len(s) :
                Pieces(s, x, v)[k] = IF <<s[k]>> = x THEN v ELSE <<s[k]>>
<1> DEFINE P(k) == IF <<s[k]>> = x THEN v ELSE <<s[k]>>
           pieces == [k \in 1..Len(s) |-> P(k)]
<1>1. Len(s) \in Nat /\ DOMAIN s = 1..Len(s) /\ \A k \in 1..Len(s) : s[k] \in Token
  BY DEF Text
<1>2. Pieces(s, x, v) = pieces
  BY <1>1, Zenon DEF Pieces
<1>3. \A k \in 1..Len(s) : P(k) \in Text
  <2>1. \A k \in 1..Len(s) : <<s[k]>> \in Text
    BY <1>1, TokenText
  <2> QED BY <2>1
<1> HIDE DEF P
<1>4. pieces \in Seq(Text) /\ Len(pieces) = Len(s)
  BY <1>1, <1>3
<1>5. \A k \in 1..Len(s) : pieces[k] = P(k)
  OBVIOUS
<1> HIDE DEF pieces
<1> QED BY <1>2, <1>4, <1>5, Zenon DEF P

LEMMA SwappedBehind ==
    ASSUME NEW l \in Text, NEW r \in Text, NEW x, NEW v \in Text, Len(l) # 0, Len(r) # 0
    PROVE  Swapped(l \o r, x, v) = Swapped(l, x, v) \o Swapped(r, x, v)
<1> DEFINE s == l \o r
           a == Pieces(l, x, v)
           b == Pieces(r, x, v)
           c == Pieces(s, x, v)
<1>1. /\ s \in Text /\ Len(l) \in Nat /\ Len(r) \in Nat /\ Len(s) = Len(l) + Len(r)
      /\ \A k \in 1..Len(l) : s[k] = l[k]
      /\ \A k \in 1..Len(r) : s[Len(l) + k] = r[k]
  BY Behind
<1> HIDE DEF s
<1>2. /\ a \in Seq(Text) /\ Len(a) = Len(l)
      /\ \A k \in 1..Len(l) : a[k] = IF <<l[k]>> = x THEN v ELSE <<l[k]>>
  BY PiecesOf
<1>3. /\ b \in Seq(Text) /\ Len(b) = Len(r)
      /\ \A k \in 1..Len(r) : b[k] = IF <<r[k]>> = x THEN v ELSE <<r[k]>>
  BY PiecesOf
<1>4. /\ c \in Seq(Text) /\ Len(c) = Len(s)
      /\ \A k \in 1..Len(s) : c[k] = IF <<s[k]>> = x THEN v ELSE <<s[k]>>
  BY <1>1, PiecesOf
<1> HIDE DEF a, b, c
<1>5. \A i \in 1..Len(a) : c[i] = a[i]
  <2>1. \A i \in 1..Len(l) : i \in 1..Len(s)
    BY <1>1
  <2> QED BY <1>1, <1>2, <1>4, <2>1
<1>6. Repeats(c, Len(a), b, Len(b))
  <2>1. \A i \in 1..Len(r) : Len(l) + i \in 1..Len(s)
    BY <1>1
  <2>2. ASSUME NEW i \in 1..Len(r) PROVE c[Len(l) + i] = b[i]
    <3>1. s[Len(l) + i] = r[i] /\ Len(l) + i \in 1..Len(s)
      BY <1>1, <2>1
    <3>2. c[Len(l) + i] = IF <<r[i]>> = x THEN v ELSE <<r[i]>>
      BY <1>4, <3>1
    <3> QED BY <1>3, <3>2
  <2> QED BY <1>2, <1>3, <2>2 DEF Repeats
<1>7. Len(a) # 0 /\ Len(b) # 0 /\ Len(c) = Len(a) + Len(b)
  BY <1>1, <1>2, <1>3, <1>4
<1>8. FlattenSeq(c) = FlattenSeq(a) \o FlattenSeq(b)
  BY <1>2, <1>3, <1>4, <1>5, <1>6, <1>7, FlattenTwo
<1> QED BY <1>8, Zenon DEF Swapped, a, b, c, s

LEMMA SwappedToken ==
    ASSUME NEW token \in Token, NEW x, NEW v \in Text
    PROVE  Swapped(<<token>>, x, v) = IF <<token>> = x THEN v ELSE <<token>>
<1> DEFINE s == <<token>>
           pieces == Pieces(s, x, v)
<1>1. s \in Text /\ Len(s) = 1 /\ s[1] = token
  BY TokenText
<1> HIDE DEF s
<1>2. /\ pieces \in Seq(Text) /\ Len(pieces) = 1
      /\ pieces[1] = IF <<token>> = x THEN v ELSE <<token>>
  BY <1>1, PiecesOf
<1>2a. Len(pieces) # 0
  BY <1>2
<1>3. PICK f : Flattens(f, Len(pieces), pieces) /\ FlattenSeq(pieces) = f[Len(pieces)]
  BY <1>2, <1>2a, FlattenIs
<1>4. f[1] = pieces[1]
  BY <1>2, <1>2a, <1>3, FlattenSteps
<1>5. FlattenSeq(pieces) = IF <<token>> = x THEN v ELSE <<token>>
  <2>1. FlattenSeq(pieces) = f[1]
    BY <1>2, <1>3, Zenon
  <2> QED BY <1>2, <1>4, <2>1, Zenon
<1> QED BY <1>5, Zenon DEF Swapped, s

LEMMA SwappedText ==
    ASSUME NEW s \in Text, NEW x, NEW v \in Text, Len(s) # 0, Len(v) # 0
    PROVE  /\ Swapped(s, x, v) \in Text /\ Len(Swapped(s, x, v)) # 0
           /\ (\A k \in 1..Len(s) : <<s[k]>> # x) => Swapped(s, x, v) = s
<1> DEFINE pieces == Pieces(s, x, v)
<1>1. /\ pieces \in Seq(Text) /\ Len(pieces) = Len(s)
      /\ \A k \in 1..Len(s) : pieces[k] = IF <<s[k]>> = x THEN v ELSE <<s[k]>>
  BY PiecesOf
<1>2. PICK f : Flattens(f, Len(pieces), pieces) /\ Swapped(s, x, v) = f[Len(pieces)]
  BY <1>1, FlattenIs DEF Swapped
<1>3. /\ f[1] = pieces[1]
      /\ \A i \in 1..Len(s) : i # 1 => f[i] = f[i-1] \o pieces[i]
      /\ \A i \in 1..Len(s) : f[i] \in Text
  BY <1>1, <1>2, FlattenSteps
<1> HIDE DEF pieces
<1>4. /\ Len(s) \in Nat /\ \A k \in 1..Len(s) : s[k] \in Token
      /\ Len(s) \in 1..Len(s)
  BY DEF Text
<1>5. \A k \in 1..Len(s) : pieces[k] \in Text /\ Len(pieces[k]) # 0
  <2>1. ASSUME NEW k \in 1..Len(s) PROVE pieces[k] \in Text /\ Len(pieces[k]) # 0
    <3>1. <<s[k]>> \in Text /\ Len(<<s[k]>>) = 1
      BY <1>4, TokenText
    <3>2. pieces[k] = v \/ pieces[k] = <<s[k]>>
      BY <1>1
    <3>3. CASE pieces[k] = v
      BY <3>3
    <3>4. CASE pieces[k] = <<s[k]>>
      BY <3>1, <3>4
    <3> QED BY <3>2, <3>3, <3>4
  <2> QED BY <2>1
<1>6. Len(f[Len(s)]) # 0
  <2>1. CASE Len(s) = 1
    BY <1>3, <1>4, <1>5, <2>1
  <2>2. CASE Len(s) # 1
    <3> DEFINE i == Len(s)
    <3>0. Len(s) \in Nat /\ 1 <= Len(s)
      BY <1>4
    <3>1. i \in 1..Len(s) /\ i - 1 \in 1..Len(s)
      BY <2>2, <3>0
    <3>2. f[i] = f[i-1] \o pieces[i]
      BY <1>3, <2>2, <3>1
    <3>3. f[i-1] \in Text /\ pieces[i] \in Text /\ Len(pieces[i]) # 0
      BY <1>3, <1>5, <3>1
    <3>4. /\ Len(f[i-1]) \in Nat /\ Len(pieces[i]) \in Nat
          /\ Len(f[i-1] \o pieces[i]) = Len(f[i-1]) + Len(pieces[i])
      BY <3>3, Behind
    <3> HIDE DEF i
    <3>5. Len(f[i-1]) + Len(pieces[i]) # 0
      <4> DEFINE m == Len(f[i-1])
                 n == Len(pieces[i])
      <4>1. m \in Nat /\ n \in Nat /\ n # 0
        BY <3>3, <3>4
      <4> HIDE DEF m, n
      <4>2. m + n # 0
        BY <4>1
      <4> QED BY <4>2 DEF m, n
    <3>6. Len(f[i]) # 0
      BY <3>2, <3>4, <3>5, Zenon
    <3> QED BY <3>6 DEF i
  <2> QED BY <2>1, <2>2
<1>7. ASSUME \A k \in 1..Len(s) : <<s[k]>> # x PROVE f[Len(s)] = s
  <2>1. \A k \in 1..Len(s) : pieces[k] = <<s[k]>>
    BY <1>1, <1>7
  <2> DEFINE Is(i) == Len(f[i]) = i /\ \A j \in 1..i : f[i][j] = s[j]
             Bad == {i \in 1..Len(s) : ~Is(i)}
  <2>2. ASSUME Bad # {} PROVE FALSE
    <3>1. PICK i \in Bad : \A j \in Bad : i <= j
      <4>1. Bad \in SUBSET Nat
        BY <1>4
      <4> HIDE DEF Bad
      <4> QED BY <2>2, <4>1, Least
    <3>2. CASE i = 1
      <4>0. 1 \in 1..Len(s)
        BY <1>4
      <4>1. f[i] = <<s[1]>> /\ Len(f[i]) = 1 /\ f[i][1] = s[1]
        <5>1. f[i] = <<s[1]>>
          BY <1>3, <2>1, <3>2, <4>0, Zenon
        <5> QED BY <5>1
      <4>2. \A j \in 1..i : j = 1
        BY <3>2
      <4> QED BY <3>1, <3>2, <4>1, <4>2
    <3>3. CASE i # 1
      <4> DEFINE l == f[i-1]
                 r == <<s[i]>>
      <4>1. i \in 1..Len(s) /\ i - 1 \in 1..Len(s) /\ i - 1 \notin Bad
        BY <1>4, <3>1, <3>3
      <4>2. f[i] = l \o r /\ l \in Text /\ Is(i - 1)
        BY <1>3, <2>1, <3>3, <4>1
      <4>3. r \in Text /\ Len(r) = 1 /\ r[1] = s[i]
        BY <1>4, <4>1, TokenText
      <4>4. Len(l) = i - 1 /\ \A j \in 1..(i - 1) : l[j] = s[j]
        BY <4>2
      <4> HIDE DEF l, r
      <4>5. /\ Len(l \o r) = Len(l) + Len(r)
            /\ \A j \in 1..Len(l) : (l \o r)[j] = l[j]
            /\ \A j \in 1..Len(r) : (l \o r)[Len(l) + j] = r[j]
        BY <4>2, <4>3, Behind
      <4> DEFINE u == l \o r
      <4>6. /\ Len(u) = i /\ \A j \in 1..(i - 1) : u[j] = s[j]
            /\ u[i] = s[i]
        <5>1. 1 \in 1..1 /\ (i - 1) + 1 = i
          BY <4>1
        <5> QED BY <4>3, <4>4, <4>5, <5>1
      <4> HIDE DEF u
      <4>7. \A j \in 1..i : j \in 1..(i - 1) \/ j = i
        BY <4>1
      <4>8. Len(u) = i /\ \A j \in 1..i : u[j] = s[j]
        BY <4>6, <4>7
      <4>9. f[i] = u
        BY <4>2 DEF u
      <4> QED BY <3>1, <4>8, <4>9
    <3> QED BY <3>2, <3>3
  <2>3. Is(Len(s)) /\ f[Len(s)] \in Text
    BY <1>3, <1>4, <2>2
  <2>4. /\ f[Len(s)] \in Seq(Token) /\ s \in Seq(Token) /\ Len(f[Len(s)]) = Len(s)
        /\ \A j \in 1..Len(s) : f[Len(s)][j] = s[j]
    BY <2>3 DEF Text
  <2> DEFINE u == f[Len(s)]
  <2>5. /\ u \in Seq(Token) /\ s \in Seq(Token) /\ Len(u) = Len(s)
        /\ \A j \in 1..Len(s) : u[j] = s[j]
    BY <2>4, Zenon
  <2> HIDE DEF u
  <2>6. u = s
    BY <2>5
  <2> QED BY <2>6 DEF u
<1>8. f[Len(s)] \in Text /\ Swapped(s, x, v) = f[Len(s)]
  BY <1>1, <1>2, <1>3, <1>4
<1> QED BY <1>6, <1>7, <1>8
(* The two variables of RunMeansItsValues, one after the other.            *)
Filled(s, run) == Swapped(Swapped(s, Var(1), run[1]), Var(2), run[2])

Fills(f, s, names, run) ==
    f = [S \in SUBSET DOMAIN [i \in DOMAIN names |-> i] |->
           IF S = {} THEN s
           ELSE LET x == Max(S)
                IN FlattenSeq([k \in DOMAIN f[S \ {x}] |->
                      IF <<f[S \ {x}][k]>> = names[[i \in DOMAIN names |-> i][x]]
                        THEN run[[i \in DOMAIN names |-> i][x]]
                        ELSE <<f[S \ {x}][k]>>])]

LEMMA ReplaceFolds ==
    ASSUME NEW s, NEW names, NEW run
    PROVE  replace(s, names, run) =
             (CHOOSE f : Fills(f, s, names, run))[DOMAIN [i \in DOMAIN names |-> i]]
BY Zenon DEF replace, FoldLeftDomain, FoldLeft, MapThenFoldSet, Fills

LEMMA MaxIs ==
    ASSUME NEW S \in SUBSET Nat, NEW m \in S, \A y \in S : m >= y
    PROVE  Max(S) = m
<1>1. Max(S) \in S /\ \A y \in S : Max(S) >= y
  BY Zenon DEF Max
<1> DEFINE x == Max(S)
<1>2. x \in Nat /\ m \in Nat /\ x >= m /\ m >= x
  BY <1>1
<1> HIDE DEF x
<1>3. x = m
  BY <1>2
<1> QED BY <1>3 DEF x

FillsTwo(f, s, names, run) ==
    f = [S \in SUBSET {1, 2} |->
           IF S = {} THEN s ELSE Swapped(f[S \ {Max(S)}], names[Max(S)], run[Max(S)])]

LEMMA ReplaceIsFilled ==
    ASSUME NEW s, NEW run
    PROVE  replace(s, <<Var(1), Var(2)>>, run) = Filled(s, run)
<1> DEFINE names == <<Var(1), Var(2)>>
           ids == [i \in DOMAIN names |-> i]
           Fill(f, S) == IF S = {} THEN s
                         ELSE Swapped(f[S \ {Max(S)}], names[Max(S)], run[Max(S)])
<1>1. DOMAIN names = {1, 2} /\ names[1] = Var(1) /\ names[2] = Var(2)
  OBVIOUS
<1> HIDE DEF names
<1>2. DOMAIN ids = {1, 2} /\ \A x \in {1, 2} : ids[x] = x
  BY <1>1
<1>3. /\ Max({1}) = 1 /\ Max({2}) = 2 /\ Max({1, 2}) = 2
  <2>1. Max({1}) = 1
    BY MaxIs
  <2>2. Max({2}) = 2
    BY MaxIs
  <2>3. {1, 2} \in SUBSET Nat /\ 2 \in {1, 2} /\ \A y \in {1, 2} : 2 >= y
    OBVIOUS
  <2>4. Max({1, 2}) = 2
    BY <2>3, MaxIs
  <2> QED BY <2>1, <2>2, <2>4
<1>4. \A S \in SUBSET {1, 2} : S = {} \/ S = {1} \/ S = {2} \/ S = {1, 2}
  OBVIOUS
<1>5. \A S \in SUBSET {1, 2} : S # {} => Max(S) \in {1, 2}
  BY <1>3, <1>4
<1>6. \A f : Fills(f, s, names, run) <=> f = [S \in SUBSET {1, 2} |-> Fill(f, S)]
  <2> SUFFICES ASSUME NEW f
               PROVE  Fills(f, s, names, run) <=> f = [S \in SUBSET {1, 2} |-> Fill(f, S)]
    OBVIOUS
  <2> DEFINE Fold(S) ==
               IF S = {} THEN s
               ELSE LET x == Max(S)
                    IN FlattenSeq([k \in DOMAIN f[S \ {x}] |->
                          IF <<f[S \ {x}][k]>> = names[ids[x]]
                            THEN run[ids[x]] ELSE <<f[S \ {x}][k]>>])
             With(S, x) == Swapped(f[S \ {Max(S)}], names[x], run[x])
  <2>1. ASSUME NEW S \in SUBSET {1, 2} PROVE Fold(S) = Fill(f, S)
    <3>1. S # {} => ids[Max(S)] = Max(S)
      BY <1>2, <1>5
    <3>2. /\ Fold(S) = IF S = {} THEN s ELSE With(S, ids[Max(S)])
          /\ Fill(f, S) = IF S = {} THEN s ELSE With(S, Max(S))
      BY Zenon DEF Swapped, Pieces
    <3> HIDE DEF Fold, Fill, With
    <3> QED BY <3>1, <3>2, Zenon
  <2>2. Fills(f, s, names, run) <=> f = [S \in SUBSET DOMAIN ids |-> Fold(S)]
    BY Zenon DEF Fills
  <2>3. SUBSET DOMAIN ids = SUBSET {1, 2}
    BY <1>2
  <2> HIDE DEF Fold, Fill
  <2>4. [S \in SUBSET {1, 2} |-> Fold(S)] = [S \in SUBSET {1, 2} |-> Fill(f, S)]
    BY <2>1, Zenon
  <2> QED BY <2>2, <2>3, <2>4, Zenon
<1> DEFINE s1 == Swapped(s, names[1], run[1])
           g == [S \in SUBSET {1, 2} |->
                   IF S = {} THEN s
                   ELSE IF S = {1} THEN s1
                   ELSE IF S = {2} THEN Swapped(s, names[2], run[2])
                   ELSE Swapped(s1, names[2], run[2])]
<1>7. g = [S \in SUBSET {1, 2} |-> Fill(g, S)]
  <2>1. /\ {} \in SUBSET {1, 2} /\ {1} \in SUBSET {1, 2} /\ {2} \in SUBSET {1, 2}
        /\ {1, 2} \in SUBSET {1, 2}
        /\ {1} \ {1} = {} /\ {2} \ {2} = {} /\ {1, 2} \ {2} = {1}
        /\ {1} # {} /\ {2} # {} /\ {1, 2} # {} /\ {2} # {1} /\ {1, 2} # {1} /\ {1, 2} # {2}
    OBVIOUS
  <2>2. /\ g[{}] = s /\ g[{1}] = s1 /\ g[{2}] = Swapped(s, names[2], run[2])
        /\ g[{1, 2}] = Swapped(s1, names[2], run[2])
    BY <2>1, Zenon
  <2>3. ASSUME NEW h, h[{}] = s, h[{1}] = s1
        PROVE  /\ Fill(h, {}) = s /\ Fill(h, {1}) = s1
               /\ Fill(h, {2}) = Swapped(s, names[2], run[2])
               /\ Fill(h, {1, 2}) = Swapped(s1, names[2], run[2])
    BY <1>3, <2>1, <2>3, Zenon
  <2>4. /\ Fill(g, {}) = s /\ Fill(g, {1}) = s1
        /\ Fill(g, {2}) = Swapped(s, names[2], run[2])
        /\ Fill(g, {1, 2}) = Swapped(s1, names[2], run[2])
    BY <2>2, <2>3, Zenon
  <2> HIDE DEF Fill
  <2>5. \A S \in SUBSET {1, 2} : g[S] = Fill(g, S)
    BY <1>4, <2>2, <2>4, Zenon
  <2>6. g = [S \in SUBSET {1, 2} |-> g[S]]
    BY Zenon
  <2> QED BY <2>5, <2>6, Zenon
<1> HIDE DEF g
<1> DEFINE f == CHOOSE f : Fills(f, s, names, run)
<1>8. f = [S \in SUBSET {1, 2} |-> Fill(f, S)]
  <2>1. Fills(g, s, names, run)
    BY <1>6, <1>7, Zenon
  <2>2. Fills(f, s, names, run)
    BY <2>1, Zenon
  <2> QED BY <1>6, <2>2, Zenon
<1>9. replace(s, names, run) = f[{1, 2}]
  BY <1>2, ReplaceFolds, Zenon
<1> HIDE DEF f
<1>10. f[{1, 2}] = Swapped(s1, names[2], run[2])
  <2>1. /\ {} \in SUBSET {1, 2} /\ {1} \in SUBSET {1, 2} /\ {1, 2} \in SUBSET {1, 2}
        /\ {1} \ {1} = {} /\ {1, 2} \ {2} = {1} /\ {1} # {} /\ {1, 2} # {}
    OBVIOUS
  <2>2. f[{}] = s
    BY <1>8, <2>1, Zenon
  <2>3. f[{1}] = s1
    BY <1>3, <1>8, <2>1, <2>2, Zenon
  <2>4. f[{1, 2}] = Fill(f, {1, 2})
    <3> HIDE DEF Fill
    <3> QED BY <1>8, <2>1, Zenon
  <2>5. Fill(f, {1, 2}) = Swapped(f[{1, 2} \ {Max({1, 2})}], names[Max({1, 2})], run[Max({1, 2})])
    BY <2>1, Zenon
  <2> QED BY <1>3, <2>1, <2>3, <2>4, <2>5, Zenon
<1> QED BY <1>1, <1>9, <1>10, Zenon DEF Filled, names

(* A text that is there and has no variable.                               *)
Fixed(v) == v \in Text /\ Len(v) # 0 /\ \A k \in 1..Len(v) : v[k].t # "var"

LEMMA FilledText ==
    ASSUME NEW s \in Text, NEW run, Len(s) # 0, Fixed(run[1]), Fixed(run[2])
    PROVE  Filled(s, run) \in Text /\ Len(Filled(s, run)) # 0
<1> DEFINE m == Swapped(s, Var(1), run[1])
<1>1. m \in Text /\ Len(m) # 0
  BY SwappedText DEF Fixed
<1> HIDE DEF m
<1>2. Swapped(m, Var(2), run[2]) \in Text /\ Len(Swapped(m, Var(2), run[2])) # 0
  BY <1>1, SwappedText DEF Fixed
<1> QED BY <1>2, Zenon DEF Filled, m

LEMMA FilledBehind ==
    ASSUME NEW l \in Text, NEW r \in Text, NEW run, Len(l) # 0, Len(r) # 0,
           Fixed(run[1]), Fixed(run[2])
    PROVE  Filled(l \o r, run) = Filled(l, run) \o Filled(r, run)
<1> DEFINE a == Swapped(l, Var(1), run[1])
           b == Swapped(r, Var(1), run[1])
<1>1. a \in Text /\ Len(a) # 0 /\ b \in Text /\ Len(b) # 0
  BY SwappedText DEF Fixed
<1>2. Swapped(l \o r, Var(1), run[1]) = a \o b
  BY SwappedBehind DEF Fixed
<1> HIDE DEF a, b
<1>3. Swapped(a \o b, Var(2), run[2]) = Swapped(a, Var(2), run[2]) \o Swapped(b, Var(2), run[2])
  BY <1>1, SwappedBehind DEF Fixed
<1> QED BY <1>2, <1>3, Zenon DEF Filled, a, b

LEMMA FilledToken ==
    ASSUME NEW token \in Token, NEW run, token.t # "var", Fixed(run[1]), Fixed(run[2])
    PROVE  Filled(<<token>>, run) = <<token>>
<1>1. <<token>> # Var(1) /\ <<token>> # Var(2)
  BY DEF Var
<1>2. \A x, v \in Text : <<token>> # x => Swapped(<<token>>, x, v) = <<token>>
  BY SwappedToken
<1>3. Var(1) \in Text /\ Var(2) \in Text
  <2>1. [t |-> "var", n |-> 1] \in Token /\ [t |-> "var", n |-> 2] \in Token
    BY DEF Token
  <2> QED BY <2>1, TokenText DEF Var
<1> QED BY <1>1, <1>2, <1>3, Zenon DEF Filled, Fixed

LEMMA FilledVariable ==
    ASSUME NEW run, Fixed(run[1]), Fixed(run[2])
    PROVE  Filled(Var(1), run) = run[1] /\ Filled(Var(2), run) = run[2]
<1> DEFINE one == [t |-> "var", n |-> 1]
           two == [t |-> "var", n |-> 2]
<1>1. one \in Token /\ two \in Token /\ Var(1) = <<one>> /\ Var(2) = <<two>> /\ one # two
  BY DEF Token, Var
<1>2. <<one>> # <<two>>
  OBVIOUS
<1>3. one.t = "var" /\ two.t = "var"
  OBVIOUS
<1> HIDE DEF one, two
<1>4. Swapped(Var(1), Var(1), run[1]) = run[1]
  BY <1>1, SwappedToken DEF Fixed
<1>5. Swapped(Var(2), Var(1), run[1]) = Var(2)
  BY <1>1, <1>2, SwappedToken DEF Fixed
<1>6. Swapped(Var(2), Var(2), run[2]) = run[2]
  BY <1>1, SwappedToken DEF Fixed
<1>7. Swapped(run[1], Var(2), run[2]) = run[1]
  <2>1. ASSUME NEW k \in 1..Len(run[1]) PROVE <<run[1][k]>> # Var(2)
    <3>1. run[1][k].t # "var"
      BY DEF Fixed
    <3>2. run[1][k] # two
      BY <1>3, <3>1
    <3> QED BY <1>1, <3>2
  <2> QED BY <2>1, SwappedText DEF Fixed
<1> QED BY <1>4, <1>5, <1>6, <1>7, Zenon DEF Filled

LEMMA FilledParens ==
    ASSUME NEW s \in Text, NEW run, Len(s) # 0, Fixed(run[1]), Fixed(run[2])
    PROVE  /\ InParens(s) \in Text /\ Len(InParens(s)) # 0
           /\ Filled(InParens(s), run) = InParens(Filled(s, run))
<1> DEFINE a == Sym("(")
           b == Sym(")")
           l == a \o s
<1>1. /\ a \in Text /\ Len(a) = 1 /\ b \in Text /\ Len(b) = 1
  BY SymText
<1>2. Filled(a, run) = a /\ Filled(b, run) = b
  <2>1. \A t \in {"(", ")"} : [t |-> t, n |-> 0] \in Token /\ t # "var"
    BY SymText
  <2> QED BY <2>1, FilledToken DEF Sym
<1> HIDE DEF a, b
<1>3. l \in Text /\ Len(s) \in Nat /\ Len(l) = Len(a) + Len(s)
  BY <1>1, Behind
<1>4. Filled(l, run) = a \o Filled(s, run)
  <2>1. Len(a) # 0
    BY <1>1
  <2>2. Filled(a \o s, run) = Filled(a, run) \o Filled(s, run)
    BY <1>1, <2>1, FilledBehind
  <2> QED BY <1>2, <2>2, Zenon
<1> HIDE DEF l
<1>5. Len(l) # 0
  BY <1>1, <1>3
<1>6. Filled(l \o b, run) = Filled(l, run) \o b
  <2>1. Len(b) # 0
    BY <1>1
  <2>2. Filled(l \o b, run) = Filled(l, run) \o Filled(b, run)
    <3>1. l \in Text /\ b \in Text /\ Len(l) # 0
      BY <1>1, <1>3, <1>5
    <3> QED BY <2>1, <3>1, FilledBehind, Zenon
  <2> QED BY <1>2, <2>2, Zenon
<1>7. l \o b \in Text /\ Len(l) \in Nat /\ Len(l \o b) = Len(l) + Len(b)
  BY <1>1, <1>3, Behind
<1>8. Len(l) + Len(b) # 0
  BY <1>1, <1>7
<1>9. InParens(s) = l \o b /\ InParens(Filled(s, run)) = (a \o Filled(s, run)) \o b
  BY Zenon DEF InParens, l, a, b
<1> QED BY <1>4, <1>6, <1>7, <1>8, <1>9, Zenon

LEMMA FilledJoined ==
    ASSUME NEW l \in Text, NEW r \in Text, NEW op \in Arithmetic, NEW run,
           Len(l) # 0, Len(r) # 0, Fixed(run[1]), Fixed(run[2])
    PROVE  /\ l \o Sym(op) \o r \in Text /\ Len(l \o Sym(op) \o r) # 0
           /\ Filled(l \o Sym(op) \o r, run) = Filled(l, run) \o Sym(op) \o Filled(r, run)
<1> DEFINE o == Sym(op)
           a == l \o o
<1>1. o \in Text /\ Len(o) = 1
  BY SymText DEF Arithmetic
<1>2. Filled(o, run) = o
  <2>1. [t |-> op, n |-> 0] \in Token /\ op # "var"
    BY DEF Arithmetic, Token
  <2> QED BY <2>1, FilledToken DEF Sym
<1> HIDE DEF o
<1>3. a \in Text /\ Len(l) \in Nat /\ Len(a) = Len(l) + Len(o)
  BY <1>1, Behind
<1>4. Filled(a, run) = Filled(l, run) \o o
  <2>1. Len(o) # 0
    BY <1>1
  <2>2. Filled(l \o o, run) = Filled(l, run) \o Filled(o, run)
    BY <1>1, <2>1, FilledBehind
  <2> QED BY <1>2, <2>2, Zenon
<1> HIDE DEF a
<1>5. Len(a) # 0
  BY <1>1, <1>3
<1>6. Filled(a \o r, run) = Filled(a, run) \o Filled(r, run)
  BY <1>3, <1>5, FilledBehind
<1>7. a \o r \in Text /\ Len(a) \in Nat /\ Len(r) \in Nat /\ Len(a \o r) = Len(a) + Len(r)
  BY <1>3, Behind
<1>8. Len(a) + Len(r) # 0
  BY <1>5, <1>7
<1> QED BY <1>4, <1>6, <1>7, <1>8, Zenon DEF a, o

----------------------------------------------------------------------------
(* The numbers.                                                            *)
(* n/d and p/q are the same.                                               *)
Same(n, d, p, q) == n * q = p * d

(* v stands for the ratio a.                                               *)
Floats == {v \in Value : v.type = "float64"}

Stands(v, a) ==
    /\ a.p \in Int /\ a.q \in Int
    /\ a.q # 0 => v.den # 0 /\ Same(v.num, v.den, a.p, a.q)

LEMMA Reorder ==
    ASSUME NEW a \in Int, NEW b \in Int, NEW c \in Int, NEW d \in Int
    PROVE  (a * b) * (c * d) = (a * c) * (b * d)
OBVIOUS

LEMMA Cancelled ==
    ASSUME NEW a \in Int, NEW b \in Int, NEW d \in Int, d # 0, a * d = b * d
    PROVE  a = b
<1>1. (a - b) * d = 0
  OBVIOUS
<1>2. ASSUME NEW c \in Int, c * d = 0 PROVE c = 0
  BY <1>2
<1>3. a - b = 0
  BY <1>1, <1>2
<1> QED BY <1>3

LEMMA SameThrough ==
    ASSUME NEW n \in Int, NEW d \in Int, NEW k \in Int, NEW l \in Int, NEW p \in Int, NEW q \in Int,
           Same(n, d, k, l), Same(k, l, p, q), l # 0
    PROVE  Same(n, d, p, q)
<1>0. n * l = k * d /\ k * q = p * l
  BY DEF Same
<1>1. (n * q) * l = (n * l) * q
  OBVIOUS
<1>2. (n * l) * q = (k * q) * d
  <2>1. (n * l) * q = (k * d) * q
    BY <1>0
  <2>2. (k * d) * q = (k * q) * d
    OBVIOUS
  <2> QED BY <2>1, <2>2
<1>3. (k * q) * d = (p * d) * l
  <2>1. (k * q) * d = (p * l) * d
    BY <1>0
  <2>2. (p * l) * d = (p * d) * l
    OBVIOUS
  <2> QED BY <2>1, <2>2
<1>4. n * q \in Int /\ p * d \in Int
  OBVIOUS
<1>5. (n * q) * l = (p * d) * l
  BY <1>1, <1>2, <1>3
<1>6. n * q = p * d
  BY <1>4, <1>5, Cancelled
<1> QED BY <1>6 DEF Same

LEMMA SameProduct ==
    ASSUME NEW n \in Int, NEW d \in Int, NEW p \in Int, NEW q \in Int, Same(n, d, p, q),
           NEW k \in Int, NEW l \in Int, NEW r \in Int, NEW s \in Int, Same(k, l, r, s)
    PROVE  Same(n * k, d * l, p * r, q * s)
<1>0. n * q = p * d /\ k * s = r * l
  BY DEF Same
<1>1. (n * k) * (q * s) = (n * q) * (k * s)
  BY Reorder
<1>2. (p * d) * (r * l) = (p * r) * (d * l)
  BY Reorder
<1> QED BY <1>0, <1>1, <1>2 DEF Same

LEMMA SameSum ==
    ASSUME NEW n \in Int, NEW d \in Int, NEW p \in Int, NEW q \in Int, Same(n, d, p, q),
           NEW k \in Int, NEW l \in Int, NEW r \in Int, NEW s \in Int, Same(k, l, r, s)
    PROVE  Same(n * l + k * d, d * l, p * s + r * q, q * s)
<1>0. n * q = p * d /\ k * s = r * l
  BY DEF Same
<1>1. (n * l) * (q * s) = (p * s) * (d * l)
  <2>1. (n * l) * (q * s) = (n * q) * (l * s)
    BY Reorder
  <2>2. (p * s) * (d * l) = (p * d) * (s * l)
    BY Reorder
  <2>3. l * s = s * l
    OBVIOUS
  <2> QED BY <1>0, <2>1, <2>2, <2>3
<1>2. (k * d) * (q * s) = (r * q) * (d * l)
  <2>1. (k * d) * (s * q) = (k * s) * (d * q)
    BY Reorder
  <2>2. (r * q) * (l * d) = (r * l) * (q * d)
    BY Reorder
  <2>3. s * q = q * s /\ l * d = d * l /\ d * q = q * d
    OBVIOUS
  <2> QED BY <1>0, <2>1, <2>2, <2>3
<1>3. \A x, y, z \in Int : (x + y) * z = x * z + y * z
  OBVIOUS
<1>4. /\ n * l \in Int /\ k * d \in Int /\ q * s \in Int
      /\ p * s \in Int /\ r * q \in Int /\ d * l \in Int
  OBVIOUS
<1> QED BY <1>0, <1>1, <1>2, <1>3, <1>4 DEF Same

LEMMA Quotients ==
    ASSUME NEW n \in Nat, NEW k \in Nat, k # 0, n % k = 0
    PROVE  n \div k \in Nat /\ n = k * (n \div k)
OBVIOUS

LEMMA GcdDivides ==
    ASSUME NEW m \in Nat, NEW n \in Nat, m # 0 \/ n # 0
    PROVE  LET g == Gcd(m, n) IN g \in Nat /\ g # 0 /\ m % g = 0 /\ n % g = 0
<1> DEFINE S == Divisors(m) \cap Divisors(n)
<1>1. CASE m = 0
  BY <1>1 DEF Gcd
<1>2. CASE m # 0 /\ n = 0
  BY <1>2 DEF Gcd
<1>3. CASE m # 0 /\ n # 0
  <2>1. S \in SUBSET (1..m) /\ \A k \in S : m % k = 0 /\ n % k = 0
    BY DEF Divisors
  <2>2. 1 \in S
    BY <1>3 DEF Divisors
  <2> HIDE DEF S
  <2>3. Max(S) \in S
    BY <2>1, <2>2, MaxOfInterval
  <2>4. Gcd(m, n) = Max(S)
    BY <1>3 DEF Gcd, S
  <2> DEFINE g == Max(S)
  <2>5. g \in 1..m /\ m % g = 0 /\ n % g = 0
    BY <2>1, <2>3
  <2> HIDE DEF g
  <2>6. g \in Nat /\ g # 0
    BY <2>5
  <2> QED BY <2>4, <2>5, <2>6 DEF g
<1> QED BY <1>1, <1>2, <1>3

(* A fraction in lowest terms is the ratio it was made of.                 *)
LEMMA FractionIs ==
    ASSUME NEW n \in Int, NEW d \in Nat
    PROVE  Fraction(n, d) \in Floats /\ Stands(Fraction(n, d), Ratio(n, d))
<1> DEFINE a == Abs(n)
           s == Sign(n)
           g == Gcd(a, d)
           v == Fraction(n, d)
<1>1. a \in Nat /\ s \in Int /\ n = s * a /\ (n = 0 <=> a = 0)
  BY DEF Abs, Sign
<1>2. v = [type |-> "float64", num |-> IF g = 0 THEN 0 ELSE s * (a \div g),
                               den |-> IF g = 0 THEN 0 ELSE d \div g]
  BY Zenon DEF Fraction
<1> HIDE DEF a, s, v
<1>3. CASE a = 0 /\ d = 0
  <2>1. g = 0
    BY <1>3 DEF Gcd
  <2>2. v = [type |-> "float64", num |-> 0, den |-> 0]
    BY <1>2, <2>1
  <2>3. v \in Floats
    BY <2>2 DEF Floats, Value
  <2> QED BY <1>3, <2>3 DEF Stands, Ratio, v
<1>4. CASE a # 0 \/ d # 0
  <2>1. g \in Nat /\ g # 0 /\ a % g = 0 /\ d % g = 0
    BY <1>1, <1>4, GcdDivides
  <2> HIDE DEF g
  <2> DEFINE i == a \div g
             j == d \div g
  <2>2. i \in Nat /\ a = g * i /\ j \in Nat /\ d = g * j
    BY <1>1, <2>1, Quotients
  <2>3. v = [type |-> "float64", num |-> s * i, den |-> j]
    BY <1>2, <2>1
  <2> HIDE DEF i, j
  <2>4. s * i \in Int
    BY <1>1, <2>2
  <2>5. v \in Floats
    BY <2>2, <2>3, <2>4 DEF Floats, Value
  <2>6. d # 0 => j # 0
    BY <2>1, <2>2
  <2>7. (s * i) * d = n * j
    <3>1. (s * i) * (g * j) = (s * (g * i)) * j
      BY <1>1, <2>1, <2>2
    <3> QED BY <1>1, <2>2, <3>1
  <2> QED BY <2>3, <2>5, <2>6, <2>7 DEF Stands, Same, Ratio, v
<1> QED BY <1>3, <1>4 DEF v

(* What stands for a ratio stands for every equal one.                     *)
LEMMA StandsThrough ==
    ASSUME NEW v \in Value, NEW k \in Int, NEW l \in Int, NEW p \in Int, NEW q \in Int,
           Stands(v, Ratio(k, l)), l # 0, Same(k, l, p, q)
    PROVE  Stands(v, Ratio(p, q))
<1>1. v.num \in Int /\ v.den \in Int /\ v.den # 0 /\ Same(v.num, v.den, k, l)
  BY DEF Stands, Ratio, Value
<1>2. Same(v.num, v.den, p, q)
  BY <1>1, SameThrough
<1> QED BY <1>1, <1>2 DEF Stands, Ratio

(* The float64 operators calculate what is calculated by hand.             *)
LEMMA OperatorsCalculate ==
    ASSUME NEW op \in Arithmetic, NEW x \in Floats, NEW y \in Floats,
           NEW a, NEW b, Stands(x, a), Stands(y, b)
    PROVE  /\ evalBin(op, x, y) \in Floats
           /\ Stands(evalBin(op, x, y), Calculated(op, a, b))
<1> DEFINE v == evalBin(op, x, y)
           r == Calculated(op, a, b)
<1>1. /\ x.num \in Int /\ x.den \in Nat /\ y.num \in Int /\ y.den \in Nat
      /\ x \in Value /\ y \in Value /\ x.type = "float64" /\ y.type = "float64"
  BY DEF Floats, Value
<1>2. a.p \in Int /\ a.q \in Int /\ b.p \in Int /\ b.q \in Int
  BY DEF Stands
<1>3. IsValue(x) /\ IsValue(y)
  BY <1>1 DEF IsValue
<1>4. a.q = 0 \/ b.q = 0 => Stands(v, r)
  BY DEF Calculated, Ratio, Stands
<1>5. a.q # 0 => x.den # 0 /\ Same(x.num, x.den, a.p, a.q)
  BY DEF Stands
<1>6. b.q # 0 => y.den # 0 /\ Same(y.num, y.den, b.p, b.q)
  BY DEF Stands
<1>7. ASSUME NEW n \in Int, NEW d \in Nat, v = Fraction(n, d),
             NEW p \in Int, NEW q \in Int, a.q # 0 /\ b.q # 0 => r = Ratio(p, q),
             a.q # 0 /\ b.q # 0 /\ q # 0 => d # 0 /\ Same(n, d, p, q)
      PROVE  v \in Floats /\ Stands(v, r)
  <2>1. v \in Floats /\ v \in Value /\ Stands(v, Ratio(n, d))
    BY <1>7, FractionIs DEF Floats
  <2>2. CASE a.q # 0 /\ b.q # 0 /\ q # 0
    BY <1>7, <2>1, <2>2, StandsThrough
  <2>3. CASE a.q # 0 /\ b.q # 0 /\ q = 0
    <3>1. r = Ratio(p, q)
      BY <1>7, <2>3
    <3>2. Stands(v, Ratio(p, q))
      BY <1>7, <2>3 DEF Stands, Ratio
    <3> QED BY <2>1, <3>1, <3>2
  <2> QED BY <1>4, <2>1, <2>2, <2>3
<1>8. ASSUME NEW z \in Floats, NEW c, Stands(z, c), NEW n \in Int, NEW d \in Int,
             z.num = n, z.den = d, c.q = b.q, v = Plus(x, z),
             a.q # 0 /\ b.q # 0 => r = Ratio(a.p * c.q + c.p * a.q, a.q * c.q)
      PROVE  v \in Floats /\ Stands(v, r)
  <2>1. c.p \in Int /\ c.q \in Int /\ (c.q # 0 => d # 0 /\ Same(n, d, c.p, c.q)) /\ d \in Nat
    BY <1>8 DEF Stands, Floats, Value
  <2>2. CASE x.den = 0 /\ d = 0
    <3>1. v = x \/ v = Fraction(0, 0)
      BY <1>8, <2>2 DEF Plus
    <3>2. v \in Floats
      BY <3>1, FractionIs
    <3> QED BY <1>4, <1>5, <2>2, <3>2
  <2>3. CASE ~(x.den = 0 /\ d = 0)
    <3> DEFINE t == x.num * d + n * x.den
               e == x.den * d
               p == a.p * c.q + c.p * a.q
               q == a.q * c.q
    <3>1. v = Fraction(t, e)
      BY <1>8, <2>3, Zenon DEF Plus
    <3>2. t \in Int /\ e \in Nat /\ p \in Int /\ q \in Int
      BY <1>1, <1>2, <2>1
    <3>3. a.q # 0 /\ b.q # 0 => e # 0
      BY <1>1, <1>5, <1>8, <2>1
    <3>4. a.q # 0 /\ b.q # 0 => Same(t, e, p, q)
      <4>1. x.num \in Int /\ x.den \in Int /\ d \in Int
        BY <1>1, <2>1
      <4>2. a.q # 0 /\ b.q # 0 => Same(x.num, x.den, a.p, a.q) /\ Same(n, d, c.p, c.q)
        BY <1>5, <1>8, <2>1
      <4> QED BY <1>2, <2>1, <4>1, <4>2, SameSum
    <3> HIDE DEF t, e, p, q
    <3>5. a.q # 0 /\ b.q # 0 => r = Ratio(p, q)
      BY <1>8 DEF p, q
    <3> QED BY <1>7, <3>1, <3>2, <3>3, <3>4, <3>5
  <2> QED BY <2>2, <2>3
<1>9. CASE op = "+"
  <2>1. v = Plus(x, y)
    BY <1>3, <1>9 DEF evalBin
  <2>2. a.q # 0 /\ b.q # 0 => r = Ratio(a.p * b.q + b.p * a.q, a.q * b.q)
    BY <1>9 DEF Calculated
  <2> HIDE DEF v, r
  <2> QED BY <1>1, <1>8, <2>1, <2>2 DEF v, r
<1>10. CASE op = "-"
  <2> DEFINE z == [y EXCEPT !.num = -@]
             c == Ratio(-b.p, b.q)
  <2>1. v = Plus(x, z)
    BY <1>3, <1>10 DEF evalBin
  <2>2. z \in Floats /\ z.num = -y.num /\ z.den = y.den
    BY <1>1 DEF Floats, Value
  <2>3. c.p = -b.p /\ c.q = b.q
    BY DEF Ratio
  <2>4. a.q # 0 /\ b.q # 0 => r = Ratio(a.p * c.q + c.p * a.q, a.q * c.q)
    <3>1. a.p * b.q - b.p * a.q = a.p * b.q + (-b.p) * a.q
      BY <1>2
    <3>2. a.q # 0 /\ b.q # 0 => r = Ratio(a.p * b.q - b.p * a.q, a.q * b.q)
      BY <1>10 DEF Calculated
    <3> QED BY <2>3, <3>1, <3>2
  <2>5. Stands(z, c)
    <3>1. b.q # 0 => Same(-y.num, y.den, -b.p, b.q)
      BY <1>1, <1>2, <1>6 DEF Same
    <3> QED BY <1>2, <1>6, <2>2, <2>3, <3>1 DEF Stands
  <2> HIDE DEF v, r, z, c
  <2> QED BY <1>1, <1>8, <2>1, <2>2, <2>3, <2>4, <2>5 DEF v, r
<1>11. CASE op = "*"
  <2> DEFINE n == x.num * y.num
             d == x.den * y.den
             p == a.p * b.p
             q == a.q * b.q
  <2>1. v = Fraction(n, d)
    BY <1>3, <1>11 DEF evalBin
  <2>2. a.q # 0 /\ b.q # 0 => r = Ratio(p, q)
    BY <1>11 DEF Calculated
  <2>3. n \in Int /\ d \in Nat /\ p \in Int /\ q \in Int
    BY <1>1, <1>2
  <2>4. a.q # 0 /\ b.q # 0 => d # 0
    BY <1>1, <1>5, <1>6
  <2>5. a.q # 0 /\ b.q # 0 => Same(n, d, p, q)
    <3>1. x.num \in Int /\ x.den \in Int /\ y.num \in Int /\ y.den \in Int
      BY <1>1
    <3> QED BY <1>2, <1>5, <1>6, <3>1, SameProduct
  <2> HIDE DEF v, r, n, d, p, q
  <2> QED BY <1>7, <2>1, <2>2, <2>3, <2>4, <2>5 DEF v, r
<1>12. CASE op = "/"
  <2> DEFINE s == Sign(y.num)
             k == s * y.den
             l == Abs(y.num)
             n == (s * x.num) * y.den
             d == x.den * l
             p == a.p * b.q
             q == a.q * b.p
  <2>1. v = Fraction(n, d)
    BY <1>3, <1>12 DEF evalBin, Over
  <2>2. a.q # 0 /\ b.q # 0 => r = Ratio(p, q)
    BY <1>12 DEF Calculated
  <2>3. s \in {1, -1} /\ s \in Int /\ l \in Nat /\ l = s * y.num /\ k \in Int
    BY <1>1 DEF Sign, Abs
  <2> HIDE DEF s, l
  <2>4. n \in Int /\ d \in Nat /\ p \in Int /\ q \in Int /\ n = x.num * k
    BY <1>1, <1>2, <2>3
  <2>5. b.q # 0 => Same(k, l, b.q, b.p)
    <3>1. k * b.p = s * (b.p * y.den) /\ b.q * l = s * (y.num * b.q)
      BY <1>1, <1>2, <2>3
    <3>2. b.q # 0 => y.num * b.q = b.p * y.den
      BY <1>6 DEF Same
    <3> HIDE DEF k
    <3> QED BY <3>1, <3>2 DEF Same
  <2>6. b.q # 0 /\ b.p # 0 => l # 0
    <3>1. b.q # 0 /\ b.p # 0 => y.num # 0
      BY <1>1, <1>2, <1>6 DEF Same
    <3> QED BY <1>1, <2>3, <3>1
  <2>7. a.q # 0 /\ b.q # 0 /\ q # 0 => d # 0
    BY <1>1, <1>2, <1>5, <2>3, <2>6
  <2>8. a.q # 0 /\ b.q # 0 => Same(n, d, p, q)
    <3>1. x.num \in Int /\ x.den \in Int /\ k \in Int /\ l \in Int
      BY <1>1, <2>3
    <3> HIDE DEF k
    <3>2. a.q # 0 /\ b.q # 0 => Same(x.num * k, d, p, q)
      BY <1>2, <1>5, <2>5, <3>1, SameProduct
    <3> QED BY <2>4, <3>2
  <2> HIDE DEF v, r, k, n, d, p, q
  <2> QED BY <1>7, <2>1, <2>2, <2>4, <2>7, <2>8 DEF v, r
<1> QED BY <1>9, <1>10, <1>11, <1>12 DEF Arithmetic

LEMMA InvalidIsNone ==
    Invalid \notin Value /\ ~IsValue(Invalid) /\ \A v \in Floats : v \in Value /\ IsValue(v) /\ v # Invalid
BY DEF Invalid, Outcome, Value, IsValue, Floats

LEMMA ResultIsNumber ==
    ASSUME NEW op \in Arithmetic, NEW x \in Floats \cup {Invalid}, NEW y \in Floats \cup {Invalid}
    PROVE  /\ evalBin(op, x, y) \in Floats \cup {Invalid}
           /\ evalBin(op, x, y) = Invalid <=> x = Invalid \/ y = Invalid
<1>1. CASE x = Invalid \/ y = Invalid
  BY <1>1, InvalidIsNone DEF evalBin
<1>2. CASE x \in Floats /\ y \in Floats
  <2>1. Stands(x, Ratio(0, 0)) /\ Stands(y, Ratio(0, 0))
    BY DEF Stands, Ratio
  <2>2. evalBin(op, x, y) \in Floats
    BY <1>2, <2>1, OperatorsCalculate
  <2> QED BY <1>2, <2>2, InvalidIsNone
<1> QED BY <1>1, <1>2

(* What Eval gives is a number or no value at all.                         *)
LEMMA EvalIsNumber == \A s \in Text : Eval[s] \in Floats \cup {Invalid}
<1> DEFINE Bad == {k \in Nat : \E s \in Text : Len(s) = k /\ Eval[s] \notin Floats \cup {Invalid}}
<1>1. ASSUME NEW d \in Text, Eval[d] \notin Floats \cup {Invalid} PROVE FALSE
  <2>1. PICK k \in Bad : \A j \in Bad : k <= j
    <3>1. Bad \in SUBSET Nat /\ Bad # {}
      BY <1>1 DEF Text
    <3> HIDE DEF Bad
    <3> QED BY <3>1, Least
  <2>2. PICK s \in Text : Len(s) = k /\ Eval[s] \notin Floats \cup {Invalid}
    OBVIOUS
  <2>3. ASSUME NEW t \in Text, Len(t) < Len(s) PROVE Eval[t] \in Floats \cup {Invalid}
    <3>1. Len(t) \in Nat /\ Len(t) \notin Bad
      BY <2>1, <2>2, <2>3 DEF Text
    <3> QED BY <3>1
  <2> HIDE DEF Bad
  <2>4. Eval[s] = Result(Eval, s)
    BY EvalEquation
  <2>5. CASE Outside(s, Arithmetic) # {}
    <3> DEFINE i == LastApplied(s)
               l == SubSeq(s, 1, i - 1)
               r == SubSeq(s, i + 1, Len(s))
    <3>1. l \in Text /\ Len(l) < Len(s) /\ r \in Text /\ Len(r) < Len(s)
      BY <2>5, OperandsAreShorter
    <3>2. Result(Eval, s) = evalBin(s[i].t, Eval[l], Eval[r])
      BY <2>5, Zenon DEF Result, Arithmetic
    <3>3. s[i].t \in Arithmetic
      BY <2>5, LastAppliedIs DEF Outside
    <3> HIDE DEF i, l, r
    <3>4. Eval[l] \in Floats \cup {Invalid} /\ Eval[r] \in Floats \cup {Invalid}
      BY <2>3, <3>1
    <3> QED BY <2>2, <2>4, <3>2, <3>3, <3>4, ResultIsNumber
  <2>6. CASE Outside(s, Arithmetic) = {} /\ Len(s) = 1 /\ s[1].t = "num"
    <3>1. Result(Eval, s) = Number(s[1].n)
      BY <2>6 DEF Result, Arithmetic
    <3>2. s[1] \in Token
      <4>1. s \in Seq(Token) /\ 1 \in 1..Len(s)
        BY <2>6 DEF Text
      <4> QED BY <4>1
    <3>3. Number(s[1].n) \in Floats
      BY <3>2 DEF Number, Floats, Value, Token
    <3> QED BY <2>2, <2>4, <3>1, <3>3
  <2>7. CASE /\ Outside(s, Arithmetic) = {} /\ ~(Len(s) = 1 /\ s[1].t = "num")
             /\ Len(s) > 2 /\ s[1].t = "(" /\ s[Len(s)].t = ")"
    <3> DEFINE u == SubSeq(s, 2, Len(s) - 1)
    <3>1. u \in Text /\ Len(u) < Len(s)
      BY <2>7, InsideIsShorter
    <3>2. Result(Eval, s) = Eval[u]
      BY <2>7, Zenon DEF Result, Arithmetic
    <3> HIDE DEF u
    <3> QED BY <2>2, <2>3, <2>4, <3>1, <3>2
  <2>8. CASE /\ Outside(s, Arithmetic) = {} /\ ~(Len(s) = 1 /\ s[1].t = "num")
             /\ ~(Len(s) > 2 /\ s[1].t = "(" /\ s[Len(s)].t = ")")
    <3>1. Result(Eval, s) = Invalid
      BY <2>8, Zenon DEF Result, Arithmetic
    <3> QED BY <2>2, <2>4, <3>1
  <2> QED BY <2>5, <2>6, <2>7, <2>8
<1> QED BY <1>1

----------------------------------------------------------------------------
(* The trees.  What e is written as, when w is what its parts are written  *)
(* as; and what it means, when m is what they mean.                        *)
Write(w, e) ==
    LET Side(x, tight) == IF tight THEN w[x] ELSE InParens(w[x])
    IN CASE e.op = "lit" -> Num(e.n)
         [] e.op = "var" -> Var(e.n)
         [] OTHER -> Side(e.l, Strength(e.l) >= Strength(e)) \o Sym(e.op)
                       \o Side(e.r, Strength(e.r) > Strength(e))

Mean(m, values, e) ==
    CASE e.op = "lit" -> {Ratio(e.n, 1)}
      [] e.op = "var" -> values[e.n]
      [] OTHER -> Combined(e.op, m[e.l], m[e.r])

Pairs == Leaves \cup Binary(Leaves, Leaves)

LEMMA PartsOfTrees ==
    /\ Leaves \subseteq Pairs /\ Pairs \subseteq Trees
    /\ \A e \in Leaves : (e.op = "lit" /\ e.n = 3) \/ (e.op = "var" /\ e.n \in {1, 2})
    /\ \A e \in Pairs : e \in Leaves \/ (e.op \in Arithmetic /\ e.l \in Leaves /\ e.r \in Leaves)
    /\ \A e \in Trees : e \in Leaves \/ (e.op \in Arithmetic /\ e.l \in Pairs /\ e.r \in Pairs)
<1>1. \A e \in Leaves : (e.op = "lit" /\ e.n = 3) \/ (e.op = "var" /\ e.n \in {1, 2})
  BY DEF Leaves
<1>2. \A L, R : \A e \in Binary(L, R) : e.op \in Arithmetic /\ e.l \in L /\ e.r \in R
  BY DEF Binary, Arithmetic
<1>3. Trees = Leaves \cup Binary(Pairs, Leaves) \cup Binary(Leaves, Pairs)
  BY DEF Trees, Pairs
<1>4. Leaves \subseteq Pairs
  BY DEF Pairs
<1>5. Binary(Leaves, Leaves) \subseteq Binary(Leaves, Pairs)
  BY <1>4 DEF Binary
<1>6. Pairs \subseteq Trees
  BY <1>3, <1>5 DEF Pairs
<1> QED BY <1>1, <1>2, <1>3, <1>4, <1>6 DEF Pairs

LEMMA WriteLooksBelow ==
    ASSUME NEW w, NEW v, NEW e
    PROVE  /\ e \in Leaves => Write(w, e) = Write(v, e)
           /\ w[e.l] = v[e.l] /\ w[e.r] = v[e.r] => Write(w, e) = Write(v, e)
<1>1. CASE w[e.l] = v[e.l] /\ w[e.r] = v[e.r]
  BY <1>1, Zenon DEF Write
<1>2. CASE e \in Leaves
  <2>1. CASE e.op = "lit"
    <3>1. Write(w, e) = Num(e.n) /\ Write(v, e) = Num(e.n)
      BY <2>1 DEF Write
    <3> QED BY <3>1
  <2>2. CASE e.op = "var"
    <3>1. Write(w, e) = Var(e.n) /\ Write(v, e) = Var(e.n)
      BY <2>2 DEF Write
    <3> QED BY <3>1
  <2> QED BY <1>2, <2>1, <2>2, PartsOfTrees
<1> QED BY <1>1, <1>2

LEMMA WrittenEquation == \A e \in Trees : Written[e] = Write(Written, e)
<1> DEFINE w0 == [e \in Trees |-> Write(Trees, e)]
           w1 == [e \in Trees |-> Write(w0, e)]
           w2 == [e \in Trees |-> Write(w1, e)]
<1>1. \A e \in Trees : w0[e] = Write(Trees, e) /\ w1[e] = Write(w0, e) /\ w2[e] = Write(w1, e)
  BY Zenon
<1> HIDE DEF w0, w1
<1>2. \A e \in Leaves : w0[e] = w1[e] /\ w1[e] = w2[e]
  BY <1>1, WriteLooksBelow, PartsOfTrees
<1>3. \A e \in Pairs : w1[e] = w2[e]
  BY <1>1, <1>2, WriteLooksBelow, PartsOfTrees
<1>4. \A e \in Trees : w2[e] = Write(w2, e)
  BY <1>1, <1>2, <1>3, WriteLooksBelow, PartsOfTrees
<1>5. w2 = [e \in Trees |-> Write(w2, e)]
  <2>1. w2 = [e \in Trees |-> w2[e]]
    BY Zenon
  <2> HIDE DEF w2
  <2> QED BY <1>4, <2>1, Zenon
<1> HIDE DEF w2
<1>6. \E w : w = [e \in Trees |-> Write(w, e)]
  BY <1>5
<1>7. Written = CHOOSE w : w = [e \in Trees |-> Write(w, e)]
  BY Zenon DEF Written, Write
<1>8. Written = [e \in Trees |-> Write(Written, e)]
  BY <1>6, <1>7, Zenon
<1> QED BY <1>8, Zenon

LEMMA MeanLooksBelow ==
    ASSUME NEW m, NEW k, NEW values, NEW e
    PROVE  /\ e \in Leaves => Mean(m, values, e) = Mean(k, values, e)
           /\ m[e.l] = k[e.l] /\ m[e.r] = k[e.r] => Mean(m, values, e) = Mean(k, values, e)
<1>1. CASE m[e.l] = k[e.l] /\ m[e.r] = k[e.r]
  BY <1>1, Zenon DEF Mean
<1>2. CASE e \in Leaves
  <2>1. CASE e.op = "lit"
    <3>1. Mean(m, values, e) = {Ratio(e.n, 1)} /\ Mean(k, values, e) = {Ratio(e.n, 1)}
      BY <2>1 DEF Mean
    <3> QED BY <3>1
  <2>2. CASE e.op = "var"
    <3>1. Mean(m, values, e) = values[e.n] /\ Mean(k, values, e) = values[e.n]
      BY <2>2 DEF Mean
    <3> QED BY <3>1
  <2> QED BY <1>2, <2>1, <2>2, PartsOfTrees
<1> QED BY <1>1, <1>2

LEMMA MeaningEquation ==
    ASSUME NEW values
    PROVE  \A e \in Trees : Meaning(values)[e] = Mean(Meaning(values), values, e)
<1> DEFINE W(m, e) == Mean(m, values, e)
           w0 == [e \in Trees |-> W(Trees, e)]
           w1 == [e \in Trees |-> W(w0, e)]
           w2 == [e \in Trees |-> W(w1, e)]
<1>0. \A m, k, e : /\ e \in Leaves => W(m, e) = W(k, e)
                   /\ m[e.l] = k[e.l] /\ m[e.r] = k[e.r] => W(m, e) = W(k, e)
  BY MeanLooksBelow
<1>7. Meaning(values) = CHOOSE m : m = [e \in Trees |-> W(m, e)]
  BY Zenon DEF Meaning, Mean
<1> HIDE DEF W
<1>1. \A e \in Trees : w0[e] = W(Trees, e) /\ w1[e] = W(w0, e) /\ w2[e] = W(w1, e)
  BY Zenon
<1> HIDE DEF w0, w1
<1>2. \A e \in Leaves : w0[e] = w1[e] /\ w1[e] = w2[e]
  BY <1>0, <1>1, PartsOfTrees
<1>3. \A e \in Pairs : w1[e] = w2[e]
  BY <1>0, <1>1, <1>2, PartsOfTrees
<1>4. \A e \in Trees : w2[e] = W(w2, e)
  BY <1>0, <1>1, <1>2, <1>3, PartsOfTrees
<1>5. w2 = [e \in Trees |-> W(w2, e)]
  <2>1. w2 = [e \in Trees |-> w2[e]]
    BY Zenon
  <2> HIDE DEF w2
  <2> QED BY <1>4, <2>1, Zenon
<1> HIDE DEF w2
<1>6. \E m : m = [e \in Trees |-> W(m, e)]
  BY <1>5
<1>8. Meaning(values) = [e \in Trees |-> W(Meaning(values), e)]
  BY <1>6, <1>7, Zenon
<1>9. \A e \in Trees : Meaning(values)[e] = W(Meaning(values), e)
  BY <1>8, Zenon
<1> QED BY <1>9, Zenon DEF W
(* Text u is a whole expression of strength n with the value v: at its top *)
(* no operator is weaker than n, and it can be no duration.                *)
Expresses(u, n, v) ==
    /\ u \in Text /\ Nested(u)
    /\ Len(u) > 2 \/ (Len(u) = 1 /\ u[1].t = "num")
    /\ n >= 2 => Outside(u, Weak) = {}
    /\ n = 3 => Outside(u, Strong) = {}
    /\ Eval[u] = v

LEMMA ParensExpress ==
    ASSUME NEW u, NEW n, NEW v, Expresses(u, n, v)
    PROVE  Expresses(InParens(u), 3, v)
<1>1. u \in Text /\ Nested(u) /\ Len(u) # 0 /\ Len(u) \in Nat /\ Eval[u] = v
  BY DEF Expresses, Text
<1> DEFINE s == InParens(u)
<1>2. Closed(s) /\ Len(s) = Len(u) + 2 /\ Eval[s] = v
  BY <1>1, EnclosedText, ValueInParens
<1> HIDE DEF s
<1>3. Outside(s, Weak) = {} /\ Outside(s, Strong) = {} /\ s \in Text /\ Nested(s)
  BY <1>2, OutsideParts DEF Closed
<1>4. Len(s) > 2
  BY <1>1, <1>2
<1> QED BY <1>2, <1>3, <1>4 DEF Expresses, s

LEMMA OperandExpresses ==
    ASSUME NEW u \in Text, Operand(u)
    PROVE  Expresses(u, 3, Eval[u]) /\ Fixed(u)
<1>1. Closed(u)
  BY OperandIsClosed
<1>2. Outside(u, Weak) = {} /\ Outside(u, Strong) = {} /\ Nested(u)
  BY <1>1, OutsideParts DEF Closed
<1>3. Len(u) > 2 \/ (Len(u) = 1 /\ u[1].t = "num")
  BY Zenon DEF Operand
<1>4. DOMAIN u = 1..Len(u) /\ \A k \in DOMAIN u : u[k].t # "var"
  <2>1. \A k \in DOMAIN u : u[k].t # "var"
    BY Zenon DEF Operand
  <2> QED BY <2>1 DEF Text
<1>5. Len(u) # 0
  BY <1>3
<1> QED BY <1>2, <1>3, <1>4, <1>5 DEF Expresses, Fixed

(* An operator between two expressions that it may stand between.          *)
LEMMA BinaryExpresses ==
    ASSUME NEW l, NEW r, NEW v, NEW w, NEW m \in 1..3, NEW n \in 1..3, NEW op \in Arithmetic,
           NEW p \in {1, 2}, p = 1 <=> op \in Weak,
           Expresses(l, m, v), Expresses(r, n, w), m >= p, n > p
    PROVE  Expresses(l \o Sym(op) \o r, p, evalBin(op, v, w))
<1>1. /\ l \in Text /\ Nested(l) /\ r \in Text /\ Nested(r) /\ Eval[l] = v /\ Eval[r] = w
      /\ m >= 2 => Outside(l, Weak) = {}
      /\ n >= 2 => Outside(r, Weak) = {}
      /\ n = 3 => Outside(r, Strong) = {}
  BY DEF Expresses
<1>2. Len(l) \in Nat /\ Len(r) \in Nat /\ Len(l) >= 1 /\ Len(r) >= 1
  BY DEF Expresses, Text
<1>3. op \in Strong => op \notin Weak
  BY DEF Strong, Weak
<1>4. Binds(l, op, r)
  BY <1>1, <1>3 DEF Binds
<1> DEFINE s == l \o Sym(op) \o r
<1>5. Eval[s] = evalBin(op, v, w)
  BY <1>1, <1>4, ValueOfBinary
<1>6. /\ s \in Text /\ Nested(s) /\ Len(s) = Len(l) + 1 + Len(r)
      /\ \A ops : Outside(s, ops) =
           Outside(l, ops) \cup (IF op \in ops THEN {Len(l) + 1} ELSE {})
                           \cup {(Len(l) + 1) + k : k \in Outside(r, ops)}
  <2>1. l \in Text /\ r \in Text /\ Nested(l) /\ Nested(r)
    BY <1>1
  <2> QED BY <2>1, Joined
<1> HIDE DEF s
<1>7. p >= 2 => Outside(s, Weak) = {}
  BY <1>1, <1>6
<1>8. Len(s) > 2
  BY <1>2, <1>6
<1>9. p # 3
  OBVIOUS
<1> QED BY <1>5, <1>6, <1>7, <1>8, <1>9 DEF Expresses, s

(* v is the number of the one ratio in S, or no value when there is none.  *)
Tied(v, S) ==
    \/ v = Invalid /\ S = {}
    \/ v \in Floats /\ \E a : S = {a} /\ Stands(v, a)

LEMMA TiedOperators ==
    ASSUME NEW op \in Arithmetic, NEW x, NEW y, NEW S, NEW T, Tied(x, S), Tied(y, T)
    PROVE  Tied(evalBin(op, x, y), Combined(op, S, T))
<1>1. CASE x = Invalid /\ S = {}
  <2>1. evalBin(op, x, y) = Invalid
    BY <1>1, InvalidIsNone DEF evalBin
  <2> QED BY <1>1, <2>1 DEF Tied, Combined
<1>2. CASE y = Invalid /\ T = {}
  <2>1. evalBin(op, x, y) = Invalid
    BY <1>2, InvalidIsNone DEF evalBin
  <2> QED BY <1>2, <2>1 DEF Tied, Combined
<1>3. ASSUME x \in Floats, y \in Floats, NEW c, NEW d,
             S = {c}, Stands(x, c), T = {d}, Stands(y, d)
      PROVE  Tied(evalBin(op, x, y), Combined(op, S, T))
  <2>1. evalBin(op, x, y) \in Floats /\ Stands(evalBin(op, x, y), Calculated(op, c, d))
    BY <1>3, OperatorsCalculate
  <2>2. Combined(op, S, T) = {Calculated(op, c, d)}
    BY <1>3 DEF Combined
  <2> QED BY <2>1, <2>2 DEF Tied
<1> QED BY <1>1, <1>2, <1>3 DEF Tied

(* Tree e, which is written w[e], is written as it is meant, m[e]: what its *)
(* text becomes when the run's values replace the variables is an          *)
(* expression whose value is e's ratio.                                    *)
Faithful(w, m, e, run) ==
    /\ w[e] \in Text /\ Len(w[e]) # 0
    /\ \E v : Expresses(Filled(w[e], run), Strength(e), v) /\ Tied(v, m[e])

Leaf(e) == (e.op = "lit" /\ e.n \in Int) \/ (e.op = "var" /\ e.n \in {1, 2})

(* w and m are what e is written as and what it means, by those of its     *)
(* parts.                                                                  *)
Rendered(w, m, values, e) == w[e] = Write(w, e) /\ m[e] = Mean(m, values, e)

RunOf(run, values) ==
    \A i \in {1, 2} : run[i] \in Text /\ Operand(run[i]) /\ Tied(Eval[run[i]], values[i])

LEMMA StrengthOf ==
    /\ \A e : Leaf(e) => Strength(e) = 3
    /\ \A e : e.op \in Weak => Strength(e) = 1
    /\ \A e : e.op \in Strong => Strength(e) = 2
    /\ \A e : Leaf(e) \/ e.op \in Arithmetic => Strength(e) \in 1..3
<1>1. \A e : Leaf(e) => Strength(e) = 3
  BY DEF Strength, Leaf
<1>2. \A e : e.op \in Weak => Strength(e) = 1
  BY DEF Strength, Weak
<1>3. \A e : e.op \in Strong => Strength(e) = 2
  BY DEF Strength, Strong
<1>4. \A e : e.op \in Arithmetic => e.op \in Weak \/ e.op \in Strong
  BY DEF Arithmetic, Weak, Strong
<1> QED BY <1>1, <1>2, <1>3, <1>4

LEMMA LeafIsFaithful ==
    ASSUME NEW run, NEW values, RunOf(run, values), NEW w, NEW m, NEW e,
           Rendered(w, m, values, e), Leaf(e)
    PROVE  Faithful(w, m, e, run)
<1>1. Strength(e) = 3 /\ w[e] = Write(w, e) /\ m[e] = Mean(m, values, e)
  BY StrengthOf DEF Rendered
<1>2. Fixed(run[1]) /\ Fixed(run[2])
  BY OperandExpresses DEF RunOf
<1>3. CASE e.op = "lit" /\ e.n \in Int
  <2> DEFINE k == e.n
             token == [t |-> "num", n |-> k]
  <2>0. k \in Int
    BY <1>3
  <2>1. token \in Token /\ Num(k) = <<token>> /\ token.t = "num"
    BY <2>0 DEF Token, Num
  <2>2. w[e] = Num(k)
    BY <1>1, <1>3 DEF Write
  <2>3. m[e] = {Ratio(k, 1)}
    BY <1>1, <1>3 DEF Mean
  <2> HIDE DEF token, k
  <2>4. Num(k) \in Text /\ Len(Num(k)) = 1 /\ Num(k)[1].t = "num"
    BY <2>1, TokenText
  <2>5. Filled(Num(k), run) = Num(k)
    BY <1>2, <2>1, FilledToken
  <2>6. Closed(Num(k)) /\ Eval[Num(k)] = Number(k)
    BY <2>0, ValueOfNumber
  <2>7. Outside(Num(k), Weak) = {} /\ Outside(Num(k), Strong) = {} /\ Nested(Num(k))
    BY <2>4, <2>6, OutsideParts DEF Closed
  <2>8. Expresses(Num(k), 3, Number(k))
    BY <2>4, <2>6, <2>7 DEF Expresses
  <2>9. Tied(Number(k), {Ratio(k, 1)})
    <3>1. Number(k) \in Floats
      BY <2>0 DEF Number, Floats, Value
    <3>2. Stands(Number(k), Ratio(k, 1))
      BY <2>0 DEF Number, Stands, Same, Ratio
    <3> QED BY <3>1, <3>2 DEF Tied
  <2> QED BY <1>1, <2>2, <2>3, <2>4, <2>5, <2>8, <2>9 DEF Faithful
<1>4. CASE e.op = "var" /\ e.n \in {1, 2}
  <2>1. w[e] = Var(e.n)
    BY <1>1, <1>4 DEF Write
  <2>2. Tied(Eval[run[e.n]], m[e])
    <3>1. m[e] = values[e.n]
      BY <1>1, <1>4 DEF Mean
    <3> QED BY <1>4, <3>1 DEF RunOf
  <2>3. Filled(Var(e.n), run) = run[e.n]
    BY <1>2, <1>4, FilledVariable
  <2>4. Expresses(run[e.n], 3, Eval[run[e.n]])
    BY <1>4, OperandExpresses DEF RunOf
  <2>5. Var(e.n) \in Text /\ Len(Var(e.n)) # 0
    <3>1. [t |-> "var", n |-> e.n] \in Token
      BY <1>4 DEF Token
    <3>2. <<[t |-> "var", n |-> e.n]>> \in Text /\ Len(<<[t |-> "var", n |-> e.n]>>) = 1
      BY <3>1, TokenText
    <3> QED BY <3>2 DEF Var
  <2> QED BY <1>1, <2>1, <2>2, <2>3, <2>4, <2>5 DEF Faithful
<1> QED BY <1>3, <1>4 DEF Leaf

(* A part of a tree, in parentheses or not.                                *)
LEMMA SideIsFaithful ==
    ASSUME NEW run, NEW values, RunOf(run, values), NEW w, NEW m, NEW e,
           Faithful(w, m, e, run), NEW tight \in BOOLEAN
    PROVE  LET s == IF tight THEN w[e] ELSE InParens(w[e])
           IN /\ s \in Text /\ Len(s) # 0
              /\ \E v : /\ Expresses(Filled(s, run), IF tight THEN Strength(e) ELSE 3, v)
                       /\ Tied(v, m[e])
<1>1. Fixed(run[1]) /\ Fixed(run[2])
  BY OperandExpresses DEF RunOf
<1>2. CASE tight
  BY <1>2 DEF Faithful
<1>3. CASE ~tight
  <2> DEFINE s == w[e]
  <2>1. s \in Text /\ Len(s) # 0
    BY DEF Faithful
  <2>2. PICK v : Expresses(Filled(s, run), Strength(e), v) /\ Tied(v, m[e])
    BY DEF Faithful
  <2> HIDE DEF s
  <2>3. /\ InParens(s) \in Text /\ Len(InParens(s)) # 0
        /\ Filled(InParens(s), run) = InParens(Filled(s, run))
    BY <1>1, <2>1, FilledParens
  <2>4. Expresses(InParens(Filled(s, run)), 3, v)
    BY <2>2, ParensExpress
  <2> QED BY <1>3, <2>2, <2>3, <2>4 DEF s
<1> QED BY <1>2, <1>3

Joins(l, op, r, run) ==
    /\ l \o Sym(op) \o r \in Text /\ Len(l \o Sym(op) \o r) # 0
    /\ Filled(l \o Sym(op) \o r, run) = Filled(l, run) \o Sym(op) \o Filled(r, run)

LEMMA JoinsFill ==
    ASSUME NEW l \in Text, NEW r \in Text, NEW op \in Arithmetic, NEW run,
           Len(l) # 0, Len(r) # 0, Fixed(run[1]), Fixed(run[2])
    PROVE  Joins(l, op, r, run)
BY FilledJoined DEF Joins

LEMMA TreeIsFaithful ==
    ASSUME NEW run, NEW values, RunOf(run, values), NEW w, NEW m, NEW e,
           Rendered(w, m, values, e), e.op \in Arithmetic,
           Strength(e.l) \in 1..3, Strength(e.r) \in 1..3,
           Faithful(w, m, e.l, run), Faithful(w, m, e.r, run)
    PROVE  Faithful(w, m, e, run)
<1> DEFINE tightl == Strength(e.l) >= Strength(e)
           tightr == Strength(e.r) > Strength(e)
           l == IF tightl THEN w[e.l] ELSE InParens(w[e.l])
           r == IF tightr THEN w[e.r] ELSE InParens(w[e.r])
           p == IF tightl THEN Strength(e.l) ELSE 3
           q == IF tightr THEN Strength(e.r) ELSE 3
<1>0. e.op \notin {"lit", "var"}
  BY DEF Arithmetic
<1>1. /\ Strength(e) \in {1, 2} /\ (Strength(e) = 1 <=> e.op \in Weak)
  <2>1. e.op \in Weak \/ (e.op \in Strong /\ e.op \notin Weak)
    BY DEF Arithmetic, Weak, Strong
  <2> QED BY <2>1, StrengthOf
<1>2. p \in 1..3 /\ q \in 1..3 /\ p >= Strength(e) /\ q > Strength(e)
  BY <1>1
<1>3. /\ l \in Text /\ Len(l) # 0
      /\ \E v : Expresses(Filled(l, run), p, v) /\ Tied(v, m[e.l])
  <2>1. tightl \in BOOLEAN
    OBVIOUS
  <2> HIDE DEF tightl
  <2> QED BY <2>1, SideIsFaithful
<1>4. /\ r \in Text /\ Len(r) # 0
      /\ \E v : Expresses(Filled(r, run), q, v) /\ Tied(v, m[e.r])
  <2>1. tightr \in BOOLEAN
    OBVIOUS
  <2> HIDE DEF tightr
  <2> QED BY <2>1, SideIsFaithful
<1>5. w[e] = l \o Sym(e.op) \o r
  <2>1. w[e] = Write(w, e)
    BY DEF Rendered
  <2>2. Write(w, e) = l \o Sym(e.op) \o r
    BY <1>0, Zenon DEF Write
  <2> QED BY <2>1, <2>2, Zenon
<1>6. m[e] = Combined(e.op, m[e.l], m[e.r])
  <2>1. m[e] = Mean(m, values, e)
    BY DEF Rendered
  <2>2. Mean(m, values, e) = Combined(e.op, m[e.l], m[e.r])
    BY <1>0, Zenon DEF Mean
  <2> QED BY <2>1, <2>2, Zenon
<1> HIDE DEF l, r, p, q
<1>7. Fixed(run[1]) /\ Fixed(run[2])
  BY OperandExpresses DEF RunOf
<1>8. /\ l \o Sym(e.op) \o r \in Text /\ Len(l \o Sym(e.op) \o r) # 0
      /\ Filled(l \o Sym(e.op) \o r, run) = Filled(l, run) \o Sym(e.op) \o Filled(r, run)
  <2>1. l \in Text /\ r \in Text /\ e.op \in Arithmetic /\ Len(l) # 0 /\ Len(r) # 0
    BY <1>3, <1>4
  <2>2. Joins(l, e.op, r, run)
    BY <1>7, <2>1, JoinsFill, Zenon
  <2> QED BY <2>2, Zenon DEF Joins
<1>9. PICK x, y : /\ Expresses(Filled(l, run), p, x) /\ Tied(x, m[e.l])
                  /\ Expresses(Filled(r, run), q, y) /\ Tied(y, m[e.r])
  BY <1>3, <1>4
<1>10. Expresses(Filled(l, run) \o Sym(e.op) \o Filled(r, run), Strength(e), evalBin(e.op, x, y))
  BY <1>1, <1>2, <1>9, BinaryExpresses
<1>11. Tied(evalBin(e.op, x, y), m[e])
  BY <1>6, <1>9, TiedOperators
<1> QED BY <1>5, <1>8, <1>10, <1>11, Zenon DEF Faithful

(* The trees of T have their parts in T, and these are smaller.            *)
Climbs(T, size) ==
    \A e \in T :
      \/ Leaf(e)
      \/ /\ e.op \in Arithmetic /\ e.l \in T /\ e.r \in T
         /\ size[e.l] < size[e] /\ size[e.r] < size[e]

(* Trees of any depth over numbers and two variables: written by the rules *)
(* of Written, with the values of a run put in for the variables as text,  *)
(* a tree evaluates to the number that arithmetic by hand gives for it, or *)
(* to none when a value has none (replace, Eval, evalBin).                 *)
THEOREM AnyTreeIsFaithful ==
    ASSUME NEW run, NEW values, RunOf(run, values), NEW w, NEW m, NEW T, NEW size \in [T -> Nat],
           \A e \in T : Rendered(w, m, values, e),
           Climbs(T, size)
    PROVE  \A e \in T : Faithful(w, m, e, run)
<1> DEFINE Bad == {k \in Nat : \E e \in T : size[e] = k /\ ~Faithful(w, m, e, run)}
<1>1. ASSUME NEW d \in T, ~Faithful(w, m, d, run) PROVE FALSE
  <2>1. PICK k \in Bad : \A j \in Bad : k <= j
    <3>1. Bad \in SUBSET Nat /\ Bad # {}
      BY <1>1
    <3> HIDE DEF Bad
    <3> QED BY <3>1, Least
  <2>2. PICK e \in T : size[e] = k /\ ~Faithful(w, m, e, run)
    OBVIOUS
  <2>3. CASE Leaf(e)
    BY <2>2, <2>3, LeafIsFaithful
  <2>4. CASE ~Leaf(e)
    <3>1. /\ e.op \in Arithmetic /\ e.l \in T /\ e.r \in T
          /\ size[e.l] < size[e] /\ size[e.r] < size[e]
      BY <2>4 DEF Climbs
    <3>2. ASSUME NEW x \in T, size[x] < size[e]
          PROVE  Faithful(w, m, x, run) /\ Strength(x) \in 1..3
      <4>1. size[x] \notin Bad
        BY <2>1, <2>2, <3>2
      <4>2. Faithful(w, m, x, run)
        BY <4>1
      <4> QED BY <4>2, StrengthOf DEF Climbs
    <3>3. Rendered(w, m, values, e)
      OBVIOUS
    <3> QED BY <2>2, <3>1, <3>2, <3>3, TreeIsFaithful
  <2> QED BY <2>3, <2>4
<1> QED BY <1>1

LEMMA TreesAreFaithful ==
    ASSUME NEW run, NEW values, RunOf(run, values)
    PROVE  \A e \in Trees : Faithful(Written, Meaning(values), e, run)
<1> DEFINE size == [e \in Trees |-> IF e \in Leaves THEN 0 ELSE IF e \in Pairs THEN 1 ELSE 2]
<1>1. size \in [Trees -> Nat]
  OBVIOUS
<1>2. \A e \in Leaves : Leaf(e) /\ size[e] = 0
  BY PartsOfTrees DEF Leaf
<1>3. \A e \in Pairs : e \in Trees /\ size[e] <= 1
  BY PartsOfTrees
<1>4. ASSUME NEW e \in Trees, e \notin Leaves
      PROVE  /\ e.op \in Arithmetic /\ e.l \in Trees /\ e.r \in Trees
             /\ size[e.l] < size[e] /\ size[e.r] < size[e]
  <2>1. CASE e \in Pairs
    <3>1. e.op \in Arithmetic /\ e.l \in Leaves /\ e.r \in Leaves /\ size[e] = 1
      BY <1>4, <2>1, PartsOfTrees
    <3>2. e.l \in Trees /\ e.r \in Trees /\ size[e.l] = 0 /\ size[e.r] = 0
      BY <1>2, <3>1, PartsOfTrees
    <3> QED BY <3>1, <3>2
  <2>2. CASE e \notin Pairs
    <3>1. e.op \in Arithmetic /\ e.l \in Pairs /\ e.r \in Pairs /\ size[e] = 2
      BY <1>4, <2>2, PartsOfTrees
    <3>2. /\ e.l \in Trees /\ e.r \in Trees /\ size[e.l] <= 1 /\ size[e.r] <= 1
          /\ size[e.l] \in Nat /\ size[e.r] \in Nat
      BY <1>1, <1>3, <3>1
    <3> HIDE DEF size
    <3> QED BY <3>1, <3>2
  <2> QED BY <2>1, <2>2
<1>5. \A e \in Trees : Rendered(Written, Meaning(values), values, e)
  BY WrittenEquation, MeaningEquation DEF Rendered
<1> HIDE DEF size
<1>6. Climbs(Trees, size)
  BY <1>2, <1>4, Zenon DEF Climbs
<1> QED BY <1>1, <1>5, <1>6, AnyTreeIsFaithful, Zenon

----------------------------------------------------------------------------
(* The parser.                                                             *)
Accepted == RunFits /\ Parses(parseAssertion)

(* The assertion is the one that the text stands for, or none.             *)
AsWritten ==
    assertion = IF pc # "parse" /\ Accepted THEN parseAssertion ELSE [op |-> "none"]

LEMMA TextFrozen ==
    ASSUME text' = text
    PROVE  (Accepted <=> Accepted') /\ parseAssertion' = parseAssertion
BY DEF Accepted, RunFits, Parses, parseAssertion, Bound

LEMMA AsWrittenStep == TypeOK /\ AsWritten /\ [Next]_vars => AsWritten'
<1> SUFFICES ASSUME TypeOK, AsWritten, [Next]_vars PROVE AsWritten'
  OBVIOUS
<1>1. CASE ParseMeasurement
  <2>1. /\ Accepted /\ assertion' = parseAssertion /\ pc' = "seek" /\ text' = text
    BY <1>1 DEF ParseMeasurement, Accepted, input
  <2> QED BY <2>1, TextFrozen DEF AsWritten
<1>2. CASE ParsePanics
  <2>1. ~Accepted /\ assertion' = assertion /\ pc = "parse" /\ text' = text
    BY <1>2 DEF ParsePanics, Return, Accepted, input
  <2> QED BY <2>1, TextFrozen DEF AsWritten
<1>3. CASE UNCHANGED vars
  <2>1. assertion' = assertion /\ pc' = pc /\ text' = text
    BY <1>3 DEF vars, input
  <2> QED BY <2>1, TextFrozen DEF AsWritten
<1>4. ASSUME assertion' = assertion, text' = text, pc # "parse", pc' # "parse"
      PROVE  AsWritten'
  BY <1>4, TextFrozen DEF AsWritten
<1>5. CASE WholeFile \/ SeekStart \/ StartNotFound
  <2>1. assertion' = assertion /\ text' = text /\ pc # "parse" /\ pc' # "parse"
    BY <1>5 DEF WholeFile, SeekStart, StartNotFound, Return, input
  <2> QED BY <1>4, <2>1
<1>6. CASE Switch
  <2>1. assertion' = assertion /\ text' = text /\ pc = "switch"
    BY <1>6 DEF Switch, Return, input
  <2>2. text.quantity # "parse"
    BY DEF TypeOK, MeasurementText, Quantities
  <2>3. pc' # "parse"
    BY <1>6, <2>2 DEF Switch, Return
  <2> QED BY <1>4, <2>1, <2>3
<1>7. CASE CountLine \/ CountEnds \/ Checksum \/ BadChecksum \/ ChecksumsEnd
  <2>1. assertion' = assertion /\ text' = text /\ pc # "parse" /\ pc' # "parse"
    BY <1>7 DEF CountLine, CountEnds, Checksum, BadChecksum, ChecksumsEnd, Finish, Return, input
  <2> QED BY <1>4, <2>1
<1>8. CASE FirstChange \/ NoFirstChange \/ LastChange \/ ConvergenceEnds \/ NoTimestamp
  <2>1. assertion' = assertion /\ text' = text /\ pc # "parse" /\ pc' # "parse"
    BY <1>8 DEF FirstChange, NoFirstChange, LastChange, ConvergenceEnds, NoTimestamp,
                Finish, Return, input
  <2> QED BY <1>4, <2>1
<1>9. CASE MakeAssertion
  <2>1. assertion' = assertion /\ text' = text /\ pc # "parse" /\ pc' # "parse"
    BY <1>9 DEF MakeAssertion, input
  <2> QED BY <1>4, <2>1
<1> QED BY <1>1, <1>2, <1>3, <1>5, <1>6, <1>7, <1>8, <1>9 DEF Next

LEMMA AssertionAsWritten == Spec => [](TypeOK /\ AsWritten)
<1>1. Init => AsWritten
  BY DEF Init, AsWritten
<1>2. TypeOK /\ AsWritten /\ [Next]_vars => AsWritten'
  BY AsWrittenStep
<1> QED BY <1>1, <1>2, TypeCorrect, PTL DEF Spec

(* An expression is no duration.                                           *)
LEMMA ValueOfExpression ==
    ASSUME NEW u, NEW n, NEW v, Expresses(u, n, v)
    PROVE  parseValue(u) = v \/ (parseValue(u) = Invalid /\ v \notin Value)
<1>1. u \in Text /\ Eval[u] = v /\ (Len(u) > 2 \/ (Len(u) = 1 /\ u[1].t = "num"))
  BY DEF Expresses
<1>2. CASE IsValue(v)
  BY <1>1, <1>2 DEF parseValue
<1>3. CASE ~IsValue(v)
  <2>1. v \notin Value
    BY <1>3 DEF Value, IsValue
  <2>2. Len(u) > 2
    <3>1. ASSUME Len(u) = 1, u[1].t = "num" PROVE FALSE
      <4>1. u[1] \in Token /\ u = <<u[1]>>
        BY <1>1, <3>1 DEF Text
      <4>2. Outside(u, Arithmetic) = {}
        <5>1. "num" \notin Arithmetic /\ "num" \notin {"(", ")"}
          BY DEF Arithmetic
        <5>2. \A ops : Outside(<<u[1]>>, ops) = IF u[1].t \in ops THEN {1} ELSE {}
          BY <3>1, <4>1, <5>1, TokenText
        <5> QED BY <3>1, <4>1, <5>1, <5>2
      <4>3. Result(Eval, u) = Number(u[1].n)
        BY <3>1, <4>2 DEF Result, Arithmetic
      <4>4. v = Number(u[1].n)
        BY <1>1, <4>3, EvalEquation
      <4> QED BY <1>3, <4>4 DEF IsValue, Number
    <3> QED BY <1>1, <3>1
  <2>3. ~(Len(u) = 1) /\ ~(Len(u) = 2)
    <3>1. Len(u) \in Nat
      BY <1>1 DEF Text
    <3> DEFINE m == Len(u)
    <3>2. m \in Nat /\ m > 2
      BY <2>2, <3>1
    <3> HIDE DEF m
    <3>3. m # 1 /\ m # 2
      BY <3>2
    <3> QED BY <3>3 DEF m
  <2>4. ParseDuration(u) = Invalid
    BY <2>3, Zenon DEF ParseDuration
  <2> QED BY <1>1, <1>3, <2>1, <2>4 DEF parseValue
<1> QED BY <1>2, <1>3

(* A bound that is an expression is the number that arithmetic gives for   *)
(* it, with whatever numbers or texts in parentheses a run has for the     *)
(* variables, as long as nothing is divided by zero: replacing text by     *)
(* text, parsing and evaluating is the same as calculating, and the        *)
(* scenario is rejected just when one of the texts has no value.           *)
THEOREM RunsMeanTheirValues == Spec => []RunMeansItsValues
<1>1. TypeOK /\ AsWritten => RunMeansItsValues
  <2> DEFINE run == text.runData
             values == [i \in DOMAIN run |->
                          {Ratio(v.num, v.den) : v \in {Eval[run[i]]} \cap Value}]
             Is(bound, a) == bound.type = "float64" /\ bound.den # 0
                               /\ bound.num * a.q = a.p * bound.den
  <2> SUFFICES ASSUME TypeOK, AsWritten, pc = "done", text.op = "is", RunFits,
                      text.varsData = <<Var(1), Var(2)>>,
                      \A v \in Range(run) : Operand(v),
                      NEW e \in Trees, Expressions[e] = text.values[1]
               PROVE  /\ assertion = [op |-> "none"] <=> Meaning(values)[e] = {}
                      /\ \A a \in Meaning(values)[e] : a.q # 0 => Is(assertion.v1, a)
    BY Zenon DEF RunMeansItsValues
  <2>1. run \in Seq(Text)
    BY DEF TypeOK, MeasurementText
  <2>2. Len(run) = 2 /\ DOMAIN run = {1, 2}
    <3>1. Len(run) = Len(<<Var(1), Var(2)>>)
      BY DEF RunFits
    <3>2. Len(run) = 2
      BY <3>1
    <3> QED BY <2>1, <3>2
  <2>3. RunOf(run, values)
    <3>1. \A i \in {1, 2} : run[i] \in Range(run) /\ run[i] \in Text
      BY <2>1, <2>2 DEF Range
    <3>2. ASSUME NEW i \in {1, 2} PROVE Tied(Eval[run[i]], values[i])
      <4> DEFINE v == Eval[run[i]]
      <4>1. values[i] = {Ratio(x.num, x.den) : x \in {v} \cap Value}
        BY <2>2
      <4>2. v \in Floats \cup {Invalid}
        BY <3>1, EvalIsNumber
      <4> HIDE DEF v, values
      <4>3. CASE v = Invalid
        BY <4>1, <4>3, InvalidIsNone DEF Tied, v
      <4>4. CASE v \in Floats
        <5>1. {v} \cap Value = {v}
          BY <4>4, InvalidIsNone
        <5>2. values[i] = {Ratio(v.num, v.den)}
          BY <4>1, <5>1
        <5>3. Stands(v, Ratio(v.num, v.den))
          BY <4>4 DEF Floats, Value, Stands, Same, Ratio
        <5> QED BY <4>4, <5>2, <5>3 DEF Tied, v
      <4> QED BY <4>2, <4>3, <4>4
    <3> HIDE DEF values
    <3> QED BY <3>1, <3>2 DEF RunOf
  <2> HIDE DEF values
  <2>4. Faithful(Written, Meaning(values), e, run)
    BY <2>3, TreesAreFaithful
  <2> DEFINE u == Filled(Written[e], run)
             S == Meaning(values)[e]
  <2>5. Written[e] = text.values[1]
    BY DEF Expressions
  <2>6. Bound(1) = parseValue(u)
    <3>1. replace(Written[e], <<Var(1), Var(2)>>, run) = u
      BY ReplaceIsFilled
    <3> QED BY <2>5, <3>1, Zenon DEF Bound
  <2>7. PICK v : Expresses(u, Strength(e), v) /\ Tied(v, S)
    BY <2>4 DEF Faithful
  <2> HIDE DEF u, S
  <2>8. Bound(1) = v \/ (Bound(1) = Invalid /\ v \notin Value)
    BY <2>6, <2>7, ValueOfExpression
  <2>10. parseAssertion = [op |-> "is", v1 |-> Bound(1)]
    BY DEF parseAssertion
  <2>11. Parses(parseAssertion) <=> Bound(1) \in Value
    BY <2>10 DEF Parses, Assertion
  <2>12. assertion = IF Bound(1) \in Value THEN [op |-> "is", v1 |-> Bound(1)] ELSE [op |-> "none"]
    BY <2>10, <2>11, Zenon DEF AsWritten, Accepted
  <2>13. CASE v = Invalid /\ S = {}
    <3>1. Bound(1) \notin Value
      BY <2>8, <2>13, InvalidIsNone
    <3> QED BY <2>12, <2>13, <3>1 DEF S
  <2>14. ASSUME v \in Floats, NEW a, S = {a}, Stands(v, a)
         PROVE  /\ assertion = [op |-> "none"] <=> S = {}
                /\ \A c \in S : c.q # 0 => Is(assertion.v1, c)
    <3>1. v \in Value /\ v.type = "float64" /\ Bound(1) = v
      BY <2>8, <2>14 DEF Floats
    <3>2. assertion = [op |-> "is", v1 |-> v]
      BY <2>12, <3>1
    <3>3. assertion # [op |-> "none"] /\ assertion.v1 = v
      BY <3>2
    <3>4. a.q # 0 => Is(v, a)
      BY <2>14, <3>1 DEF Stands, Same
    <3> HIDE DEF Is
    <3> QED BY <2>14, <3>3, <3>4
  <2> QED BY <2>7, <2>13, <2>14 DEF Tied, S
<1> QED BY <1>1, AssertionAsWritten, PTL
=============================================================================
