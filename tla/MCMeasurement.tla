--------------------------- MODULE MCMeasurement ---------------------------
(* Every file of up to MaxLines of the lines that the quantity looks at,   *)
(* for sections with and without labels, in order and out of order; and    *)
(* every expression of one or two operators.                               *)
EXTENDS Measurement

CONSTANT MaxLines

FilesWith(lines) == UNION {[1..n -> lines] : n \in 0..MaxLines}

LabelsOf == {"t1", "t10", "t2"}
BeginsOf == {<<l, l>> : l \in LabelsOf} \cup {<<"t10", "t1">>}
HostsOf == {"h1", "h2"}
SumsOf == {"x", "y"}

LabelLines == {[kind |-> "label", label |-> l] : l \in LabelsOf}
ChangeAt(n) == [kind |-> "change", time |-> n, stamped |-> TRUE]
ChangeLines == {ChangeAt(n) : n \in {0, 3, 8}} \cup {[ChangeAt(0) EXCEPT !.stamped = FALSE]}
ChecksumLines ==
    [kind: {"checksum"}, host: HostsOf, sum: SumsOf, form: {"gauge"}]
      \cup [kind: {"checksum"}, host: {"h1"}, sum: {"x"}, form: {"short", "noHost"}]
Other == [kind |-> "other"]
T10 == [kind |-> "label", label |-> "t10"]

FilesOf ==
    [quantity \in Quantities |->
       CASE quantity = "convtime"  -> FilesWith(LabelLines \cup ChangeLines)
         [] quantity = "checksums" -> FilesWith((LabelLines \ {T10}) \cup ChecksumLines)
         [] quantity = "count"     -> FilesWith(LabelLines \cup {ChangeAt(0), Other})
         [] quantity = "unknown"   -> {<<>>}]

Windows == {<<Whole, Whole>>, <<Whole, "t1">>, <<"t1", "t2">>, <<"t1", "t1">>, <<"t2", Whole>>}

(* A measurement without variables, and a run without values.              *)
Plain(w, quantity, args, op, values) ==
    [start |-> w[1], end |-> w[2], quantity |-> quantity, args |-> args,
     op |-> op, values |-> values, varsData |-> <<>>, runData |-> <<>>]

NaN == Num(0) \o Sym("/") \o Num(0)
HalfOf(n) == Num(n) \o Sym("/") \o Num(2)

Measurements ==
    UNION {{Plain(w, "count", <<"change">>, "is", <<Num(2)>>),
            Plain(w, "count", <<"change">>, "in", <<NaN, HalfOf(3)>>),
            Plain(w, "count", <<>>, "none", <<>>),
            Plain(w, "checksums", <<>>, "in", <<HalfOf(1), Num(1)>>),
            Plain(w, "convtime", <<>>, "in", <<Dur(2), Dur(4)>>),
            Plain(w, "convtime", <<>>, "in", <<Num(0), Num(4)>>)} : w \in Windows}

(* Expressions as trees: what they are written as, and what they mean.     *)
Leaves == [op: {"lit"}, n: {3}] \cup [op: {"var"}, n: {1, 2}]
Binary(left, right) == [op: {"+", "-", "*", "/"}, l: left, r: right]
Trees == LET pairs == Leaves \cup Binary(Leaves, Leaves)
         IN Leaves \cup Binary(pairs, Leaves) \cup Binary(Leaves, pairs)

Strength(e) == CASE e.op \in {"+", "-"} -> 1 [] e.op \in {"*", "/"} -> 2 [] OTHER -> 3
InParens(s) == Sym("(") \o s \o Sym(")")

Written[e \in Trees] ==
    LET Side(x, tight) == IF tight THEN Written[x] ELSE InParens(Written[x])
    IN CASE e.op = "lit" -> Num(e.n)
         [] e.op = "var" -> Var(e.n)
         [] OTHER -> Side(e.l, Strength(e.l) >= Strength(e)) \o Sym(e.op)
                       \o Side(e.r, Strength(e.r) > Strength(e))

Expressions == [e \in Trees |-> Written[e]]

(* Arithmetic as it is done by hand: ratios that nobody reduces, and none  *)
(* (a denominator of 0) of what has been divided by zero.                  *)
Ratio(p, q) == [p |-> p, q |-> q]

Calculated(op, a, b) ==
    IF a.q = 0 \/ b.q = 0 THEN Ratio(0, 0)
    ELSE CASE op = "+" -> Ratio(a.p * b.q + b.p * a.q, a.q * b.q)
           [] op = "-" -> Ratio(a.p * b.q - b.p * a.q, a.q * b.q)
           [] op = "*" -> Ratio(a.p * b.p, a.q * b.q)
           [] op = "/" -> Ratio(a.p * b.q, a.q * b.p)

Combined(op, S, T) == {Calculated(op, a, b) : a \in S, b \in T}

(* A tree's one ratio, with those of the variables; none when a variable's *)
(* text has no value.                                                      *)
Meaning(values) ==
    LET m[e \in Trees] == CASE e.op = "lit" -> {Ratio(e.n, 1)}
                            [] e.op = "var" -> values[e.n]
                            [] OTHER -> Combined(e.op, m[e.l], m[e.r])
    IN m

Sum == Num(1) \o Sym("+") \o Num(2)
Runs == {<<Num(5), Num(4)>>, <<InParens(Sum), Num(0)>>, <<Sum, Num(1)>>, <<Var(2), Num(3)>>,
         <<InParens(Sym("junk")), Num(2)>>, <<Num(5)>>}

Scenario(values, op, runData) ==
    [Plain(<<Whole, Whole>>, "unknown", <<>>, op, values) EXCEPT
       !.varsData = <<Var(1), Var(2)>>, !.runData = runData]

TextsOf ==
    Measurements
      \cup {Scenario(<<s>>, "is", run) : s \in Range(Expressions), run \in Runs}
      \cup {Scenario(<<v, Num(1)>>, "in", <<Num(1), Num(2)>>) :
              v \in {Num(0), Dur(0), Sym("-") \o Num(0), Sym("-") \o Dur(1), Sym("-") \o Num(1),
                     InParens(Num(1)), Sym("(") \o Num(1), <<>>, Sym("junk"), Var(2), Var(3)}}

(* A value that stays one operand wherever it is put: a number, or what    *)
(* its first parenthesis encloses, with no variable to replace later.      *)
Operand(v) ==
    LET Open(k) == Cardinality({i \in 1..k : v[i].t = "("})
                     - Cardinality({i \in 1..k : v[i].t = ")"})
    IN /\ \A k \in DOMAIN v : v[k].t # "var"
       /\ \/ Len(v) = 1 /\ v[1].t = "num"
          \/ Len(v) > 2 /\ \A k \in DOMAIN v : Open(k) >= 0 /\ (Open(k) = 0 <=> k = Len(v))

(* A bound that is written as an expression is the number that arithmetic  *)
(* gives for it, with what the run's texts come to by themselves for the   *)
(* variables, as long as each of these is a number or in parentheses and   *)
(* nothing is divided by zero; when one of them comes to nothing, and only *)
(* then, the scenario is rejected (replace, Eval, parseValue).             *)
RunMeansItsValues ==
    LET values == [i \in DOMAIN text.runData |->
                     {Ratio(v.num, v.den) : v \in {Eval[text.runData[i]]} \cap Value}]
        Is(bound, a) == bound.type = "float64" /\ bound.den # 0 /\ bound.num * a.q = a.p * bound.den
    IN (/\ pc = "done" /\ text.op = "is" /\ RunFits
        /\ text.varsData = <<Var(1), Var(2)>> /\ \A v \in Range(text.runData) : Operand(v)) =>
         \A e \in {e \in Trees : Expressions[e] = text.values[1]} :
            /\ assertion = [op |-> "none"] <=> Meaning(values)[e] = {}
            /\ \A a \in Meaning(values)[e] : a.q # 0 => Is(assertion.v1, a)
=============================================================================
