---------------------------- MODULE Measurement ----------------------------
(***************************************************************************)
(* A measurement of a scenario in one of its runs: the text is parsed, the *)
(* stats file (what StatIngester wrote: stats with labels in between) is   *)
(* scanned from the start label to the end label, one of three analyses is *)
(* made of what is in between, and the result is held against the          *)
(* assertion.                                                              *)
(*                                                                         *)
(* A line is what the analyses tell apart: a label, a membership change    *)
(* with its time, if it has one, a membership checksum of a host, anything *)
(* else.                                                                   *)
(***************************************************************************)
EXTENDS Calc

CONSTANTS
    Labels,       \* of the script's commands
    Begins,       \* the pairs <<l, p>> where label l begins with p
    Hosts, Sums,  \* that stats name
    Texts,        \* the measurements of this instance
    Files,        \* and the files they are made on, by quantity
    Millisecond   \* in ticks of the file's timestamps

Whole == ".."     \* scriptStartLabel and scriptEndLabel

LabelLine    == [kind: {"label"}, label: Labels]
ChangeLine   == [kind: {"change"}, time: Int, stamped: BOOLEAN]
ChecksumLine == [kind: {"checksum"}, host: Hosts, sum: Sums,
                 form: {"gauge", "notGauge", "short", "noHost"}]
OtherLine    == [kind: {"other"}]
Line         == LabelLine \cup ChangeLine \cup ChecksumLine \cup OtherLine

Assertion == [op: {"none"}] \cup [op: {"is"}, v1: Value]
                            \cup [op: {"in"}, v1: Value, v2: Value]
Quantities == {"convtime", "checksums", "count", "unknown"}
MeasurementText == [start: Labels \cup {Whole}, end: Labels \cup {Whole},
                    quantity: Quantities,
                    args: Seq({"change", "checksum", "other"}),
                    op: {"none", "is", "in"}, values: Seq(Text),
                    varsData: Seq(Text), runData: Seq(Text)]

ASSUME MeasurementAssumption ==
    /\ Whole \notin Labels
    /\ \A l \in Labels : <<l, l>> \in Begins
    /\ IsFiniteSet(Hosts)
    /\ Texts \subseteq MeasurementText
    /\ \A q \in Quantities : Files[q] \subseteq Seq(Line)
    /\ Millisecond \in Nat \ {0}

VARIABLES
    text,         \* the measurement as the scenario has it, and the run
    assertion,    \* what the parser makes of it
    file, broken, \* the stats file, and whether reading it fails at its end
    pos,          \* lines read so far
    pc,           \* parse, seek, switch, a loop of an analysis, assert, done
    count,        \* of CountAnalysis
    csums,        \* the map of ChecksumsAnalysis
    firstChange, lastChange,  \* of ConvergenceTimeAnalysis, as positions
    out,          \* what Measure returns
    verdict       \* what Assert returns

input == <<text, file, broken>>
vars == <<input, assertion, pos, pc, count, csums, firstChange, lastChange, out, verdict>>
acc  == <<count, csums, firstChange, lastChange>>

Init ==
    /\ text \in Texts /\ file \in Files[text.quantity] /\ broken \in BOOLEAN
    /\ assertion = [op |-> "none"]
    /\ pos = 0 /\ pc = "parse"
    /\ count = 0 /\ csums = [h \in {} |-> {}]
    /\ firstChange = 0 /\ lastChange = 0
    /\ out = Outcome("none") /\ verdict = "none"

----------------------------------------------------------------------------
(* The text.                                                               *)

Bound(k) == parseValue(replace(text.values[k], text.varsData, text.runData))

parseAssertion ==
    CASE text.op = "none" -> [op |-> "none"]
      [] text.op = "is"   -> [op |-> "is", v1 |-> Bound(1)]
      [] text.op = "in"   -> [op |-> "in", v1 |-> Bound(1), v2 |-> Bound(2)]

(* A value for every variable, and every variable of the form <x>.         *)
RunFits ==
    /\ Len(text.varsData) = Len(text.runData)
    /\ \A x \in Range(text.varsData) : Len(x) = 1 /\ x[1].t = "var"

(* parseValue returned, and parseRange found two values of one type.       *)
Parses(a) == a \in Assertion /\ (a.op = "in" => a.v1.type = a.v2.type)

Return(o, next) ==
    /\ out' = o /\ pc' = next
    /\ UNCHANGED <<input, assertion, acc, verdict>>

ParseMeasurement ==
    /\ pc = "parse" /\ RunFits /\ Parses(parseAssertion)
    /\ assertion' = parseAssertion
    /\ pc' = "seek"
    /\ UNCHANGED <<input, pos, acc, out, verdict>>

(* The panic ends the parse of all scenarios.                              *)
ParsePanics ==
    /\ pc = "parse" /\ ~(RunFits /\ Parses(parseAssertion))
    /\ Return(Outcome("rejected"), "done")
    /\ UNCHANGED pos

----------------------------------------------------------------------------
(* The section scanner.                                                    *)

More == pos < Len(file)
Current == file[pos + 1]
ReadFailed == ~More /\ broken

(* strings.HasPrefix(text, "label:" + l).                                  *)
IsLabel(line, l) == line.kind = "label" /\ <<line.label, l>> \in Begins

WholeFile ==
    /\ pc = "seek" /\ text.start = Whole
    /\ pc' = "switch"
    /\ UNCHANGED <<input, assertion, pos, acc, out, verdict>>

SeekStart ==
    /\ pc = "seek" /\ text.start # Whole /\ More
    /\ pos' = pos + 1
    /\ pc' = IF IsLabel(Current, text.start) THEN "switch" ELSE "seek"
    /\ UNCHANGED <<input, assertion, acc, out, verdict>>

StartNotFound ==
    /\ pc = "seek" /\ text.start # Whole /\ ~More
    /\ Return(Outcome("error"), "done")
    /\ UNCHANGED pos

(* Scan() = true: the next line is of the section.                         *)
Scan == More /\ ~(text.end # Whole /\ IsLabel(Current, text.end))

(* Mutant: a line is taken when there is none.                             *)
StopTaking == pos' = pos + 1

(* Scan() = false: the end label, when there is one, is read as well.      *)
Stop == pos' = IF More THEN pos + 1 ELSE pos

----------------------------------------------------------------------------
(* Measure and the three analyses.                                         *)

Switch ==
    /\ pc = "switch"
    /\ LET bad == \/ text.quantity = "unknown"
                  \/ text.quantity = "count" /\ Len(text.args) # 1
       IN IF bad THEN Return(Outcome("error"), "done")
                 ELSE /\ pc' = IF text.quantity = "convtime" THEN "first" ELSE text.quantity
                      /\ UNCHANGED <<input, assertion, acc, out, verdict>>
    /\ UNCHANGED pos

CountLine ==
    /\ pc = "count" /\ Scan
    /\ pos' = pos + 1
    /\ count' = IF Current.kind = text.args[1] THEN count + 1 ELSE count
    /\ UNCHANGED <<input, assertion, pc, csums, firstChange, lastChange, out, verdict>>

(* Mutant: the read error is not looked at.                                *)
FinishUnchecked(o) == Return(o, "assert")

(* The end of an analysis: s.Err(), and then its result.                   *)
Finish(o) == IF ReadFailed THEN Return(Outcome("error"), "done") ELSE Return(o, "assert")

CountEnds ==
    /\ pc = "count" /\ ~Scan
    /\ Stop
    /\ Finish(Number(count))

IsChecksum(line) == line.kind = "checksum"

(* Mutant: the first checksum of a host is kept.                           *)
RecordedOnce(host, sum) ==
    [h \in DOMAIN csums \cup {host} |-> IF h \in DOMAIN csums THEN csums[h] ELSE sum]

(* m[host] = csum.                                                         *)
Recorded(host, sum) ==
    [h \in DOMAIN csums \cup {host} |-> IF h = host THEN sum ELSE csums[h]]

Checksum ==
    /\ pc = "checksums" /\ Scan
    /\ IsChecksum(Current) => Current.form = "gauge"
    /\ pos' = pos + 1
    /\ csums' = IF IsChecksum(Current) THEN Recorded(Current.host, Current.sum) ELSE csums
    /\ UNCHANGED <<input, assertion, pc, count, firstChange, lastChange, out, verdict>>

(* A sum of less than two characters makes the slice panic.                *)
BadChecksum ==
    /\ pc = "checksums" /\ Scan
    /\ IsChecksum(Current) /\ Current.form # "gauge"
    /\ pos' = pos + 1
    /\ Return(Outcome(IF Current.form = "short" THEN "panic" ELSE "error"), "done")

Uniq == Cardinality({csums[h] : h \in DOMAIN csums})

ChecksumsEnd ==
    /\ pc = "checksums" /\ ~Scan
    /\ Stop
    /\ Finish(Number(Uniq))

(* The first loop of ConvergenceTimeAnalysis breaks at the first change.   *)
FirstChange ==
    /\ pc = "first" /\ Scan
    /\ pos' = pos + 1
    /\ IF Current.kind = "change"
         THEN firstChange' = pos + 1 /\ lastChange' = pos + 1 /\ pc' = "rest"
         ELSE UNCHANGED <<firstChange, lastChange, pc>>
    /\ UNCHANGED <<input, assertion, count, csums, out, verdict>>

NoFirstChange ==
    /\ pc = "first" /\ ~Scan
    /\ Stop
    /\ Return(Outcome("error"), "done")

LastChange ==
    /\ pc = "rest" /\ Scan
    /\ pos' = pos + 1
    /\ lastChange' = IF Current.kind = "change" THEN pos + 1 ELSE lastChange
    /\ UNCHANGED <<input, assertion, pc, count, csums, firstChange, out, verdict>>

(* d / time.Millisecond * time.Millisecond, which rounds towards zero.     *)
Truncated(d) ==
    IF d >= 0 THEN (d \div Millisecond) * Millisecond
              ELSE -(((-d) \div Millisecond) * Millisecond)

Stamped == file[firstChange].stamped /\ file[lastChange].stamped

ConvergenceEnds ==
    /\ pc = "rest" /\ ~Scan /\ Stamped
    /\ Stop
    /\ Finish(Time(Truncated(file[lastChange].time - file[firstChange].time)))

(* timeDiff finds no timestamp.                                            *)
NoTimestamp ==
    /\ pc = "rest" /\ ~Scan /\ ~Stamped
    /\ Stop
    /\ Return(Invalid, "done")

----------------------------------------------------------------------------
(* Mutant: the types are not compared.                                     *)
HoldsUntyped(a, v) ==
    CASE a.op = "none" -> TRUE
      [] a.op = "is"   -> Equal(v, a.v1)
      [] a.op = "in"   -> ~Less(v, a.v1) /\ ~Less(a.v2, v)

(* Assert: no assertion, equalsAssert, rangeAssert.                        *)
Holds(a, v) ==
    CASE a.op = "none" -> TRUE
      [] a.op = "is"   -> Equal(v, a.v1)
      [] a.op = "in"   -> v.type = a.v1.type /\ ~Less(v, a.v1) /\ ~Less(a.v2, v)

MakeAssertion ==
    /\ pc = "assert"
    /\ pc' = "done"
    /\ verdict' = IF Holds(assertion, out) THEN "pass" ELSE "fail"
    /\ UNCHANGED <<input, assertion, pos, acc, out>>

Next ==
    \/ ParseMeasurement \/ ParsePanics
    \/ WholeFile \/ SeekStart \/ StartNotFound \/ Switch
    \/ CountLine \/ CountEnds \/ Checksum \/ BadChecksum \/ ChecksumsEnd
    \/ FirstChange \/ NoFirstChange \/ LastChange \/ ConvergenceEnds \/ NoTimestamp
    \/ MakeAssertion

Spec == Init /\ [][Next]_vars

----------------------------------------------------------------------------
(* What the section and the results are, said of the file as a whole.      *)

Labelled(l) == {i \in DOMAIN file : file[i].kind = "label" /\ file[i].label = l}

Starts == IF text.start = Whole THEN {0} ELSE Labelled(text.start)
Ends   == IF text.end = Whole THEN {} ELSE Labelled(text.end)

(* From the first start label to the first end label behind it.            *)
Section ==
    {i \in DOMAIN file : /\ \E s \in Starts : s < i
                         /\ ~ \E s \in Starts, e \in Ends : s < e /\ e <= i}

(* No label of the file begins with the start or the end label and goes on *)
(* ("label:t10" begins with "label:t1").                                   *)
Unambiguous ==
    \A i \in DOMAIN file : \A l \in {text.start, text.end} \ {Whole} :
        IsLabel(file[i], l) => file[i].label = l

OfKind(kind) == {i \in Section : file[i].kind = kind}

(* The last checksum of each host.                                         *)
Latest ==
    {i \in OfKind("checksum") :
        \A j \in OfKind("checksum") : file[j].host = file[i].host => j <= i}

CountIs(v) == v = Number(Cardinality(OfKind(text.args[1])))

ChecksumsIs(v) == v = Number(Cardinality({file[i].sum : i \in Latest}))

ConvergenceTimeIs(v) ==
    \E first, last \in OfKind("change") :
        /\ \A i \in OfKind("change") : first <= i /\ i <= last
        /\ v = Time(Truncated(file[last].time - file[first].time))

(* What a reader of the scenario expects of the measurement.               *)
Expected(v) ==
    CASE text.quantity = "count"     -> CountIs(v)
      [] text.quantity = "checksums" -> ChecksumsIs(v)
      [] text.quantity = "convtime"  -> ConvergenceTimeIs(v)
      [] OTHER                       -> FALSE

----------------------------------------------------------------------------
(* Type invariant.                                                         *)
TypeOK ==
    /\ text \in MeasurementText /\ file \in Seq(Line) /\ broken \in BOOLEAN
    /\ pos \in 0..Len(file)
    /\ pc \in {"parse", "seek", "switch", "count", "checksums", "first", "rest",
               "assert", "done"}
    /\ count \in Nat
    /\ \E seen \in SUBSET Hosts : csums \in [seen -> Sums]
    /\ firstChange \in 0..pos /\ lastChange \in firstChange..pos
    /\ assertion \in Assertion
    /\ out \in [type: {"none", "rejected", "error", "panic", "float64", "Duration"},
                num: Int, den: {1}]
    /\ verdict \in {"none", "pass", "fail"}

(* The value of a measurement is a function of its section alone, whatever *)
(* is before and behind it: the stats of the quantity counted, the sums    *)
(* its hosts ended with, the time from its first change to its last.       *)
MeasuresItsWindow == Unambiguous /\ IsValue(out) => Expected(out)

(* No value comes from a file that was not read to the section's end, that *)
(* lacks the start label, that has a broken checksum in the section, or a  *)
(* first or last change without a time.                                    *)
NoValueFromBadFile ==
    Unambiguous /\ IsValue(out) =>
        /\ Starts # {}
        /\ broken => \E s \in Starts, e \in Ends : s < e
        /\ text.quantity = "checksums" =>
             \A i \in OfKind("checksum") : file[i].form = "gauge"
        /\ text.quantity = "convtime" =>
             \A i \in OfKind("change") :
                ~file[i].stamped => \E j, k \in OfKind("change") : j < i /\ i < k

AtMost(v, w) == v.num * w.den <= w.num * v.den

(* A measurement passes only with a value that its section has and that    *)
(* its text asks for, a time with times and a number with numbers.  (With  *)
(* a bound of 0/0 rangeAssert lets every number pass.)                     *)
PassIsEarned ==
    Unambiguous /\ verdict = "pass" =>
        \E v \in [type: {"float64", "Duration"}, num: {out.num}, den: {1}] :
            /\ Expected(v)
            /\ assertion.op = "is" => assertion.v1 = v
            /\ assertion.op = "in" =>
                 /\ assertion.v1.type = v.type /\ assertion.v2.type = v.type
                 /\ ~IsNaN(assertion.v1) => AtMost(assertion.v1, v)
                 /\ ~IsNaN(assertion.v2) => AtMost(v, assertion.v2)
=============================================================================
