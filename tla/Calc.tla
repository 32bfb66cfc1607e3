-------------------------------- MODULE Calc --------------------------------
(***************************************************************************)
(* The values of a scenario's text: variables are replaced as text         *)
(* (replace), and what results is an expression (Eval) or a duration       *)
(* (parseValue).  A text is a sequence of tokens; no number touches a      *)
(* variable.                                                               *)
(*                                                                         *)
(* A float64 is the fraction it stands for; a denominator of 0 makes the   *)
(* infinities 1/0 and -1/0 and the NaN 0/0 of IEEE 754.  Rounding,         *)
(* overflow and the sign of zero are left out.                             *)
(***************************************************************************)
EXTENDS Integers, SequencesExt

(* "num", "dur" and "var" with a number, an operator, a parenthesis, or    *)
(* any other text.                                                         *)
Token == [t: {"num", "dur", "var", "+", "-", "*", "/", "(", ")", "junk"}, n: Int]
Text  == Seq(Token)

Num(n) == <<[t |-> "num", n |-> n]>>
Dur(n) == <<[t |-> "dur", n |-> n]>>
Var(n) == <<[t |-> "var", n |-> n]>>
Sym(t) == <<[t |-> t, n |-> 0]>>

(* A value by its Go type, and what is no value.                           *)
Value == [type: {"float64", "Duration"}, num: Int, den: Nat]
Number(n) == [type |-> "float64", num |-> n, den |-> 1]
Time(n)   == [type |-> "Duration", num |-> n, den |-> 1]
Outcome(type) == [type |-> type, num |-> 0, den |-> 1]
Invalid == Outcome("error")

IsValue(v) == v.type \in {"float64", "Duration"}
IsNaN(v) == v.num = 0 /\ v.den = 0

(* reflect.DeepEqual, and < of two values of one type.                     *)
Equal(v, w) == v = w /\ ~IsNaN(v)
Less(v, w) ==
    /\ ~IsNaN(v) /\ ~IsNaN(w)
    /\ IF v.den = 0 /\ w.den = 0 THEN v.num < w.num ELSE v.num * w.den < w.num * v.den

----------------------------------------------------------------------------
(* float64's arithmetic, in lowest terms.                                  *)

Abs(n) == IF n < 0 THEN -n ELSE n
Sign(n) == IF n < 0 THEN -1 ELSE 1

Divisors(n) == {k \in 1..n : n % k = 0}
Gcd(m, n) == IF m = 0 THEN n ELSE IF n = 0 THEN m ELSE Max(Divisors(m) \cap Divisors(n))

Fraction(num, den) ==
    LET g == Gcd(Abs(num), den)
    IN [type |-> "float64", num |-> IF g = 0 THEN 0 ELSE Sign(num) * (Abs(num) \div g),
                            den |-> IF g = 0 THEN 0 ELSE den \div g]

Plus(x, y) ==
    IF x.den = 0 /\ y.den = 0 THEN IF x = y THEN x ELSE Fraction(0, 0)
    ELSE Fraction(x.num * y.den + y.num * x.den, x.den * y.den)

(* Mutant: y / x.                                                          *)
OverTurned(x, y) == Fraction(Sign(x.num) * y.num * x.den, y.den * Abs(x.num))

Over(x, y) == Fraction(Sign(y.num) * x.num * y.den, x.den * Abs(y.num))

evalBin(op, x, y) ==
    IF ~IsValue(x) \/ ~IsValue(y) THEN Invalid
    ELSE CASE op = "+" -> Plus(x, y)
           [] op = "-" -> Plus(x, [y EXCEPT !.num = -@])
           [] op = "*" -> Fraction(x.num * y.num, x.den * y.den)
           [] op = "/" -> Over(x, y)

----------------------------------------------------------------------------
(* The operators ops of s that are in no parenthesis.                      *)
Outside(s, ops) ==
    LET Parens(k, t) == Cardinality({i \in 1..k : s[i].t = t})
    IN {k \in DOMAIN s : s[k].t \in ops /\ Parens(k, "(") = Parens(k, ")")}

(* The operator that is applied last: of the weakest, the one on the right.*)
LastApplied(s) ==
    LET weak == Outside(s, {"+", "-"})
    IN IF weak # {} THEN Max(weak) ELSE Max(Outside(s, {"*", "/"}))

(* Eval of what go/parser makes of s: no unary operator, no name, no call. *)
Eval[s \in Text] ==
    IF Outside(s, {"+", "-", "*", "/"}) # {}
      THEN LET k == LastApplied(s)
           IN evalBin(s[k].t, Eval[SubSeq(s, 1, k - 1)], Eval[SubSeq(s, k + 1, Len(s))])
      ELSE CASE Len(s) = 1 /\ s[1].t = "num" -> Number(s[1].n)
             [] Len(s) > 2 /\ s[1].t = "(" /\ s[Len(s)].t = ")" -> Eval[SubSeq(s, 2, Len(s) - 1)]
             [] OTHER -> Invalid

(* time.ParseDuration: "0" needs no unit, and there may be a sign.         *)
ParseDuration(s) ==
    LET signed == Len(s) = 2 /\ s[1].t \in {"+", "-"}
        last   == s[Len(s)]
    IN IF /\ Len(s) = 1 \/ signed
          /\ last.t = "dur" \/ (last.t = "num" /\ last.n = 0)
       THEN Time(IF signed /\ s[1].t = "-" THEN -last.n ELSE last.n)
       ELSE Invalid

parseValue(s) == IF IsValue(Eval[s]) THEN Eval[s] ELSE ParseDuration(s)

----------------------------------------------------------------------------
(* All occurrences of a variable, and one variable after the other: the    *)
(* text a variable stands for may hold variables that come later.          *)
replace(s, varsData, runData) ==
    LET Spliced(str, i) ==
          FlattenSeq([k \in DOMAIN str |->
                        IF <<str[k]>> = varsData[i] THEN runData[i] ELSE <<str[k]>>])
    IN FoldLeftDomain(LAMBDA str, i : Spliced(str, i), s, varsData)
=============================================================================
