------------------------- MODULE MeasurementProofs -------------------------
(***************************************************************************)
(* What a measurement returns, for every file and every text.              *)
(***************************************************************************)
EXTENDS Measurement, FiniteSetTheorems, FunctionTheorems, TLAPS

Loops == {"count", "checksums", "first", "rest"}

(* The part of a kind of line that has been read.                          *)
Read(kind) == {i \in OfKind(kind) : i <= pos}

(* Where the scanner is.                                                   *)
BeforeStart ==
    /\ pc = "parse" => pos = 0
    /\ pc = "seek" => /\ text.start = Whole => pos = 0
                      /\ Unambiguous => \A s \in Starts : s = 0 \/ s > pos
    /\ pc = "switch" /\ Unambiguous => pos \in Starts /\ \A s \in Starts : s >= pos

InSection ==
    pc \in Loops /\ Unambiguous =>
        /\ \E s \in Starts : s <= pos
        /\ ~ \E s \in Starts, e \in Ends : s < e /\ e <= pos

(* What the analyses have found so far.                                    *)
CountSoFar ==
    /\ pc \in {"parse", "seek", "switch"} => count = 0
    /\ pc = "count" =>
         /\ text.quantity = "count" /\ Len(text.args) = 1
         /\ Unambiguous => count = Cardinality(Read(text.args[1]))

ChecksumsSoFar ==
    /\ pc \in {"parse", "seek", "switch"} => DOMAIN csums = {}
    /\ pc = "checksums" =>
         /\ text.quantity = "checksums"
         /\ Unambiguous =>
              /\ \A i \in Read("checksum") :
                    file[i].form = "gauge" /\ file[i].host \in DOMAIN csums
              /\ \A h \in DOMAIN csums : \E i \in Read("checksum") :
                    /\ file[i].host = h /\ csums[h] = file[i].sum
                    /\ \A j \in Read("checksum") : file[j].host = h => j <= i

ChangesSoFar ==
    /\ pc = "first" =>
         /\ text.quantity = "convtime"
         /\ Unambiguous => Read("change") = {}
    /\ pc = "rest" =>
         /\ text.quantity = "convtime"
         /\ \A i \in {firstChange, lastChange} : i > 0 /\ file[i].kind = "change"
         /\ Unambiguous =>
              /\ firstChange \in Read("change") /\ lastChange \in Read("change")
              /\ \A i \in Read("change") : firstChange <= i /\ i <= lastChange

(* What has been returned.                                                 *)
Returned ==
    /\ pc \notin {"assert", "done"} => ~IsValue(out)
    /\ pc # "done" => verdict = "none"
    /\ Parses(assertion)
    /\ MeasuresItsWindow /\ NoValueFromBadFile
    /\ pc = "assert" => IsValue(out)
    /\ verdict = "pass" => IsValue(out) /\ Holds(assertion, out)

IInv ==
    /\ TypeOK /\ BeforeStart /\ InSection
    /\ CountSoFar /\ ChecksumsSoFar /\ ChangesSoFar /\ Returned

-----------------------------------------------------------------------------
(* Typing: everything but the last conjuncts of the invariant is needed.   *)

LEMMA LineFields ==
    ASSUME NEW line \in Line
    PROVE  /\ line.kind = "change" => line.time \in Int
           /\ line.kind = "checksum" => line.host \in Hosts /\ line.sum \in Sums
           /\ line.kind = "label" => line.label \in Labels
BY DEF Line, LabelLine, ChangeLine, ChecksumLine, OtherLine

LEMMA TruncatedInt == \A d \in Int : Truncated(d) \in Int
BY MeasurementAssumption DEF Truncated

(* The start label of the text is met: IsLabel is equality for it.         *)
LEMMA LabelsMet ==
    ASSUME TypeOK, Unambiguous
    PROVE  /\ text.start # Whole =>
                \A i \in DOMAIN file : IsLabel(file[i], text.start) <=> i \in Starts
           /\ text.end # Whole =>
                \A i \in DOMAIN file : IsLabel(file[i], text.end) <=> i \in Ends
           /\ text.end = Whole => Ends = {}
           /\ text.start = Whole => Starts = {0}
           /\ Starts \subseteq Nat /\ Ends \subseteq DOMAIN file
<1>1. \A i \in DOMAIN file : file[i] \in Line
    BY DEF TypeOK
<1>2. text.start \in Labels \cup {Whole} /\ text.end \in Labels \cup {Whole}
    BY DEF TypeOK, MeasurementText
<1>3. \A l \in Labels : <<l, l>> \in Begins
    BY MeasurementAssumption
<1>4. DOMAIN file \subseteq Nat
    BY DEF TypeOK
<1>5. \A i \in DOMAIN file : file[i].kind = "label" => file[i].label \in Labels
    BY <1>1, LineFields
<1> QED
    BY <1>2, <1>3, <1>4, <1>5 DEF Unambiguous, IsLabel, Starts, Ends, Labelled

(* A line that the section scanner yields is the section's next line.      *)
LEMMA NextLine ==
    ASSUME TypeOK, InSection, pc \in Loops, Unambiguous, Scan
    PROVE  /\ pos + 1 \in Section
           /\ ~ \E s \in Starts, e \in Ends : s < e /\ e <= pos + 1
<1>1. pos + 1 \in DOMAIN file /\ pos \in Nat
    BY DEF TypeOK, Scan, More
<1>2. pos + 1 \notin Ends
    BY <1>1, LabelsMet DEF Scan, Current
<1>3. Starts \subseteq Nat /\ Ends \subseteq Nat
    BY LabelsMet DEF TypeOK
<1>4. \A e \in Ends : e <= pos + 1 => e <= pos
    BY <1>1, <1>2, <1>3
<1> QED
    BY <1>1, <1>3, <1>4 DEF InSection, Section

(* When it yields none, the section has been read.                         *)
LEMMA EndLine ==
    ASSUME TypeOK, InSection, pc \in Loops, Unambiguous, ~Scan
    PROVE  /\ \A i \in Section : i <= pos
           /\ More => \E s \in Starts, e \in Ends : s < e
<1>1. pos \in 0..Len(file) /\ DOMAIN file = 1..Len(file) /\ Len(file) \in Nat
    BY DEF TypeOK
<1>2. PICK s \in Starts : s <= pos
    BY DEF InSection
<1>3. Starts \subseteq Nat
    BY LabelsMet
<1>4. CASE More
    <2>1. pos + 1 \in Ends
        BY <1>1, <1>4, LabelsMet DEF Scan, Current, More
    <2> QED
        BY <1>1, <1>2, <1>3, <2>1 DEF Section
<1>5. CASE ~More
    BY <1>1, <1>5 DEF More, Section
<1> QED
    BY <1>4, <1>5

(* The file and the text are what they were, and so are the sections.      *)
LEMMA Frozen ==
    ASSUME [Next]_vars
    PROVE  /\ file' = file /\ text' = text /\ broken' = broken
           /\ Starts' = Starts /\ Ends' = Ends /\ Section' = Section
           /\ Unambiguous' = Unambiguous
           /\ \A kind : OfKind(kind)' = OfKind(kind)
<1>1. file' = file /\ text' = text /\ broken' = broken
    BY DEF Next, vars, input, ParseMeasurement, ParsePanics, WholeFile, SeekStart,
           StartNotFound, Switch, CountLine, CountEnds, Checksum, BadChecksum, ChecksumsEnd,
           FirstChange, NoFirstChange, LastChange, ConvergenceEnds, NoTimestamp, MakeAssertion, Return,
           Finish
<1>2. Starts' = Starts /\ Ends' = Ends
    BY <1>1 DEF Starts, Ends, Labelled
<1>3. Section' = Section
    BY <1>1, <1>2 DEF Section
<1>4. Unambiguous' = Unambiguous
    BY <1>1 DEF Unambiguous, IsLabel
<1>5. \A kind : OfKind(kind)' = OfKind(kind)
    BY <1>1, <1>3 DEF OfKind
<1> QED
    BY <1>1, <1>2, <1>3, <1>4, <1>5

LEMMA InitInvariant == Init => IInv
<1> SUFFICES ASSUME Init PROVE IInv
    OBVIOUS
<1>1. TypeOK
  <2>1. text \in MeasurementText /\ text.quantity \in Quantities
      BY MeasurementAssumption DEF Init, MeasurementText
  <2>2. file \in Seq(Line)
      BY <2>1, MeasurementAssumption DEF Init
  <2>3. csums \in [{} -> Sums]
      BY DEF Init
  <2>4. \E seen \in SUBSET Hosts : csums \in [seen -> Sums]
      BY <2>3
  <2>5. Len(file) \in Nat
      BY <2>2
  <2>6. /\ out \in [type: {"none", "rejected", "error", "panic", "float64", "Duration"},
                   num: Int, den: {1}]
        /\ assertion \in Assertion
      BY DEF Init, Outcome, Assertion
  <2>7. pos \in 0..Len(file) /\ firstChange \in 0..pos /\ lastChange \in firstChange..pos
      BY <2>5 DEF Init
  <2> QED
      BY <2>1, <2>2, <2>4, <2>6, <2>7 DEF Init, TypeOK
<1>2. BeforeStart /\ InSection /\ CountSoFar /\ ChecksumsSoFar /\ ChangesSoFar
    BY DEF Init, BeforeStart, InSection, CountSoFar, ChecksumsSoFar, ChangesSoFar, Loops
<1>3. Returned
    BY DEF Init, Returned, Parses, Assertion, MeasuresItsWindow, NoValueFromBadFile, IsValue,
           Outcome
<1> QED
    BY <1>1, <1>2, <1>3 DEF IInv

(* The assertion is set once, by the parser.                               *)
LEMMA AssertionStep ==
    ASSUME [Next]_vars
    PROVE  assertion' = assertion \/ (ParseMeasurement /\ Parses(assertion'))
BY DEF Next, vars, ParseMeasurement, ParsePanics, WholeFile, SeekStart, StartNotFound, Switch,
       CountLine, CountEnds, Checksum, BadChecksum, ChecksumsEnd, FirstChange, NoFirstChange,
       LastChange, ConvergenceEnds, NoTimestamp, MakeAssertion, Return,
           Finish

LEMMA TypeStep == IInv /\ [Next]_vars => TypeOK'
<1> SUFFICES ASSUME IInv, [Next]_vars PROVE TypeOK'
    OBVIOUS
<1>1. TypeOK /\ ChangesSoFar
    BY DEF IInv
<1>2. file' = file /\ text' = text /\ broken' = broken
    BY Frozen
<1>3. pos \in Nat /\ Len(file) \in Nat /\ DOMAIN file = 1..Len(file) /\ pos <= Len(file)
    BY <1>1 DEF TypeOK
<1>4. \A i \in DOMAIN file : file[i] \in Line
    BY <1>1 DEF TypeOK
<1>5. More => pos + 1 \in DOMAIN file /\ Current \in Line
    BY <1>3, <1>4 DEF More, Current
<1>6. pos' \in 0..Len(file) /\ pos' >= pos
    BY <1>2, <1>3, <1>5 DEF Next, vars, ParseMeasurement, ParsePanics, WholeFile, SeekStart,
           StartNotFound, Switch, CountLine, CountEnds, Checksum, BadChecksum, ChecksumsEnd,
           FirstChange, NoFirstChange, LastChange, ConvergenceEnds, NoTimestamp, MakeAssertion,
           Stop, Scan, More
<1>7. pc' \in {"parse", "seek", "switch", "count", "checksums", "first", "rest",
               "assert", "done"}
    BY <1>1 DEF TypeOK, MeasurementText, Quantities, Next, vars, ParseMeasurement, ParsePanics,
           WholeFile, SeekStart, StartNotFound, Switch, CountLine, CountEnds, Checksum,
           BadChecksum, ChecksumsEnd, FirstChange, NoFirstChange, LastChange, ConvergenceEnds,
           NoTimestamp, MakeAssertion, Return, Finish
<1>8. count' \in Nat
    BY <1>1 DEF TypeOK, Next, vars, acc, ParseMeasurement, ParsePanics, WholeFile, SeekStart,
           StartNotFound, Switch, CountLine, CountEnds, Checksum, BadChecksum, ChecksumsEnd,
           FirstChange, NoFirstChange, LastChange, ConvergenceEnds, NoTimestamp, MakeAssertion, Return,
           Finish
<1>9. \E seen \in SUBSET Hosts : csums' \in [seen -> Sums]
  <2>1. CASE Checksum
    <3>1. PICK seen \in SUBSET Hosts : csums \in [seen -> Sums]
        BY <1>1 DEF TypeOK
    <3>2. CASE IsChecksum(Current)
      <4>1. Current.host \in Hosts /\ Current.sum \in Sums
          BY <2>1, <3>2, <1>5, LineFields DEF Checksum, Scan, IsChecksum
      <4>2. csums' = Recorded(Current.host, Current.sum)
          BY <2>1, <3>2 DEF Checksum
      <4>3. csums' \in [seen \cup {Current.host} -> Sums]
          BY <3>1, <4>1, <4>2 DEF Recorded
      <4> QED
          BY <4>1, <4>3
    <3> QED
        BY <2>1, <3>1, <3>2 DEF Checksum
  <2>2. CASE ~Checksum
    <3>1. csums' = csums
        BY <2>2 DEF Next, vars, acc, ParseMeasurement, ParsePanics, WholeFile, SeekStart,
           StartNotFound, Switch, CountLine, CountEnds, BadChecksum, ChecksumsEnd,
           FirstChange, NoFirstChange, LastChange, ConvergenceEnds, NoTimestamp, MakeAssertion, Return,
           Finish
    <3> QED
        BY <1>1, <3>1 DEF TypeOK
  <2> QED
      BY <2>1, <2>2
<1>10. firstChange' \in 0..pos' /\ lastChange' \in firstChange'..pos'
  <2>1. firstChange \in 0..pos /\ lastChange \in firstChange..pos
      BY <1>1 DEF TypeOK
  <2>2. CASE FirstChange
      BY <2>1, <2>2, <1>3 DEF FirstChange
  <2>3. CASE LastChange
      BY <2>1, <2>3, <1>3 DEF LastChange
  <2>4. CASE ~FirstChange /\ ~LastChange
    <3>1. firstChange' = firstChange /\ lastChange' = lastChange
        BY <2>4 DEF Next, vars, acc, ParseMeasurement, ParsePanics, WholeFile, SeekStart,
           StartNotFound, Switch, CountLine, CountEnds, Checksum, BadChecksum, ChecksumsEnd,
           NoFirstChange, ConvergenceEnds, NoTimestamp, MakeAssertion, Return, Finish
    <3> QED
        BY <2>1, <3>1, <1>3, <1>6
  <2> QED
      BY <2>2, <2>3, <2>4
<1>11. out' \in [type: {"none", "rejected", "error", "panic", "float64", "Duration"},
                num: Int, den: {1}]
  <2>1. CASE ConvergenceEnds
    <3>1. file[lastChange].time \in Int /\ file[firstChange].time \in Int
      <4>1. firstChange \in DOMAIN file /\ lastChange \in DOMAIN file
          BY <1>1, <1>3, <2>1 DEF TypeOK, ChangesSoFar, ConvergenceEnds
      <4> QED
          BY <1>1, <1>4, <2>1, <4>1, LineFields DEF ChangesSoFar, ConvergenceEnds
    <3>2. Truncated(file[lastChange].time - file[firstChange].time) \in Int
        BY <3>1, TruncatedInt
    <3> QED
        BY <2>1, <3>2 DEF ConvergenceEnds, Finish, Return, Time, Outcome
  <2>2. CASE ChecksumsEnd
    <3>1. PICK seen \in SUBSET Hosts : csums \in [seen -> Sums]
        BY <1>1 DEF TypeOK
    <3>2. IsFiniteSet(seen)
        BY MeasurementAssumption, FS_Subset
    <3>3. IsFiniteSet({csums[h] : h \in DOMAIN csums})
      <4>1. csums \in Surjection(seen, Range(csums))
          BY <3>1, Fun_RangeProperties
      <4>2. IsFiniteSet(Range(csums))
          BY <3>2, <4>1, FS_Surjection
      <4> QED
          BY <4>2 DEF Range
    <3>4. Uniq \in Nat
        BY <3>3, FS_CardinalityType DEF Uniq
    <3> QED
        BY <2>2, <3>4 DEF ChecksumsEnd, Finish, Return, Number, Outcome
  <2>3. CASE CountEnds
      BY <1>1, <2>3 DEF TypeOK, CountEnds, Finish, Return, Number, Outcome
  <2>4. CASE ~ConvergenceEnds /\ ~ChecksumsEnd /\ ~CountEnds
      BY <1>1, <2>4 DEF TypeOK, Next, vars, ParseMeasurement, ParsePanics, WholeFile, SeekStart,
           StartNotFound, Switch, CountLine, Checksum, BadChecksum, FirstChange,
           NoFirstChange, LastChange, NoTimestamp, MakeAssertion, Return, Outcome, Invalid
  <2> QED
      BY <2>1, <2>2, <2>3, <2>4
<1>12. verdict' \in {"none", "pass", "fail"}
    BY <1>1 DEF TypeOK, Next, vars, ParseMeasurement, ParsePanics, WholeFile, SeekStart,
           StartNotFound, Switch, CountLine, CountEnds, Checksum, BadChecksum, ChecksumsEnd,
           FirstChange, NoFirstChange, LastChange, ConvergenceEnds, NoTimestamp, MakeAssertion, Return,
           Finish
<1>13. assertion' \in Assertion
    BY <1>1, AssertionStep DEF TypeOK, Parses
<1> QED
    BY <1>1, <1>2, <1>6, <1>7, <1>8, <1>9, <1>10, <1>11, <1>12, <1>13 DEF TypeOK

-----------------------------------------------------------------------------
(* Where the scanner is.                                                   *)

LEMMA PositionStep == IInv /\ [Next]_vars => BeforeStart' /\ InSection'
<1> SUFFICES ASSUME IInv, [Next]_vars PROVE BeforeStart' /\ InSection'
    OBVIOUS
<1>1. TypeOK /\ BeforeStart /\ InSection
    BY DEF IInv
<1>2. /\ text' = text /\ file' = file /\ Starts' = Starts /\ Ends' = Ends
      /\ Unambiguous' = Unambiguous
    BY Frozen
<1>3. pos \in Nat /\ Len(file) \in Nat /\ DOMAIN file = 1..Len(file)
    BY <1>1 DEF TypeOK
<1>4. Unambiguous => Starts \subseteq Nat /\ Ends \subseteq 1..Len(file)
    BY <1>1, <1>3, LabelsMet
<1>5. ASSUME pc \in Loops, pc' \in Loops
      PROVE  BeforeStart' /\ InSection'
  <2>1. BeforeStart'
      BY <1>5 DEF BeforeStart, Loops
  <2>2. CASE pos' = pos
      BY <1>1, <1>2, <1>5, <2>1, <2>2 DEF InSection
  <2>3. CASE Scan /\ pos' = pos + 1
    <3>1. Unambiguous => ~ \E s \in Starts, e \in Ends : s < e /\ e <= pos + 1
        BY <1>1, <1>5, <2>3, NextLine
    <3>2. Unambiguous => \E s \in Starts : s <= pos + 1
        BY <1>1, <1>3, <1>4, <1>5 DEF InSection
    <3> QED
        BY <1>2, <2>1, <2>3, <3>1, <3>2 DEF InSection
  <2>4. pos' = pos \/ (Scan /\ pos' = pos + 1)
      BY <1>5 DEF Loops, Next, vars, ParseMeasurement, ParsePanics, WholeFile, SeekStart,
           StartNotFound, Switch, CountLine, CountEnds, Checksum, BadChecksum, ChecksumsEnd,
           FirstChange, NoFirstChange, LastChange, ConvergenceEnds, NoTimestamp, MakeAssertion, Return,
           Finish
  <2> QED
      BY <2>2, <2>3, <2>4
<1>6. CASE ParseMeasurement
  <2>1. pos = 0 /\ pos' = 0 /\ pc' = "seek"
      BY <1>1, <1>6 DEF ParseMeasurement, BeforeStart
  <2> QED
      BY <1>2, <1>4, <2>1 DEF BeforeStart, InSection, Loops
<1>7. CASE WholeFile
  <2>1. pos = 0 /\ pos' = 0 /\ pc' = "switch" /\ text.start = Whole
      BY <1>1, <1>7 DEF WholeFile, BeforeStart
  <2> QED
      BY <1>1, <1>2, <1>4, <2>1, LabelsMet DEF BeforeStart, InSection, Loops
<1>8. CASE SeekStart
  <2>1. More /\ pos' = pos + 1 /\ text.start # Whole /\ pos + 1 \in DOMAIN file
      BY <1>3, <1>8 DEF SeekStart, More
  <2>2. Unambiguous => (IsLabel(Current, text.start) <=> pos + 1 \in Starts)
      BY <1>1, <2>1, LabelsMet DEF Current
  <2>3. Unambiguous => 0 \notin Starts
      BY <1>1, <1>3, <2>1, LabelsMet DEF Starts, Labelled
  <2>4. Unambiguous => \A s \in Starts : s >= pos + 1
      BY <1>1, <1>3, <1>4, <1>8, <2>3 DEF BeforeStart, SeekStart
  <2>5. CASE pc' = "switch"
      BY <1>2, <1>8, <2>1, <2>2, <2>4, <2>5 DEF BeforeStart, InSection, Loops, SeekStart
  <2>6. CASE pc' = "seek"
    <3>1. Unambiguous => \A s \in Starts : s > pos + 1
        BY <1>3, <1>4, <1>8, <2>2, <2>4, <2>6 DEF SeekStart
    <3> QED
        BY <1>2, <2>1, <2>6, <3>1 DEF BeforeStart, InSection, Loops
  <2> QED
      BY <1>8, <2>5, <2>6 DEF SeekStart
<1>9. CASE Switch
  <2>1. pos' = pos /\ pc = "switch" /\ pc' \notin {"parse", "seek", "switch"}
      BY <1>1, <1>9 DEF Switch, Return, TypeOK, MeasurementText, Quantities
  <2>2. Unambiguous => pos \in Starts /\ \A s \in Starts : s >= pos
      BY <1>1, <2>1 DEF BeforeStart
  <2>3. Unambiguous => ~ \E s \in Starts, e \in Ends : s < e /\ e <= pos
      BY <1>3, <1>4, <2>2
  <2>4. Unambiguous => \E s \in Starts : s <= pos
      BY <1>3, <2>2
  <2> QED
      BY <1>2, <2>1, <2>3, <2>4 DEF BeforeStart, InSection
<1>10. CASE pc' \in {"assert", "done"}
    BY <1>10 DEF BeforeStart, InSection, Loops
<1>11. CASE UNCHANGED vars
    BY <1>1, <1>2, <1>11 DEF vars, BeforeStart, InSection
<1>12. CountLine \/ Checksum \/ FirstChange \/ LastChange => pc \in Loops /\ pc' \in Loops
    BY DEF CountLine, Checksum, FirstChange, LastChange, Loops
<1>13. \/ ParsePanics \/ StartNotFound \/ CountEnds \/ BadChecksum \/ ChecksumsEnd
       \/ NoFirstChange \/ ConvergenceEnds \/ NoTimestamp \/ MakeAssertion
       => pc' \in {"assert", "done"}
    BY DEF ParsePanics, StartNotFound, CountEnds, BadChecksum, ChecksumsEnd, NoFirstChange,
           ConvergenceEnds, NoTimestamp, MakeAssertion, Return, Finish
<1> QED
    BY <1>5, <1>6, <1>7, <1>8, <1>9, <1>10, <1>11, <1>12, <1>13 DEF Next

(* How much of a kind of line has been read.                               *)
LEMMA ReadNothing ==
    ASSUME TypeOK, BeforeStart, pc = "switch", Unambiguous, NEW kind
    PROVE  Read(kind) = {}
<1>1. pos \in Nat /\ DOMAIN file \subseteq Nat /\ Starts \subseteq Nat
    BY LabelsMet DEF TypeOK
<1>2. \A s \in Starts : s >= pos
    BY DEF BeforeStart
<1> QED
    BY <1>1, <1>2 DEF Read, OfKind, Section

LEMMA ReadLine ==
    ASSUME TypeOK, InSection, pc \in Loops, Unambiguous, Scan, [Next]_vars, pos' = pos + 1,
           NEW kind
    PROVE  /\ Current.kind = kind => Read(kind)' = Read(kind) \cup {pos + 1}
           /\ Current.kind # kind => Read(kind)' = Read(kind)
           /\ pos + 1 \notin Read(kind)
<1>1. pos \in Nat /\ Section \subseteq Nat
    BY DEF TypeOK, Section
<1>2. pos + 1 \in Section
    BY NextLine
<1>3. OfKind(kind)' = OfKind(kind)
    BY Frozen
<1>4. Read(kind)' = {i \in OfKind(kind) : i <= pos + 1}
    BY <1>3 DEF Read
<1>5. Read(kind) = {i \in OfKind(kind) : i <= pos}
    BY DEF Read
<1>6. pos + 1 \in OfKind(kind) <=> Current.kind = kind
    BY <1>2 DEF OfKind, Current
<1>7. OfKind(kind) \subseteq Nat
    BY <1>1 DEF OfKind
<1> QED
    BY <1>1, <1>4, <1>5, <1>6, <1>7

LEMMA ReadAll ==
    ASSUME TypeOK, InSection, pc \in Loops, Unambiguous, ~Scan, NEW kind
    PROVE  Read(kind) = OfKind(kind)
BY EndLine DEF Read, OfKind

LEMMA ReadFinite ==
    ASSUME TypeOK, NEW kind
    PROVE  IsFiniteSet(Read(kind)) /\ Cardinality(Read(kind)) \in Nat
<1>1. Len(file) \in Nat /\ Read(kind) \subseteq 1..Len(file)
    BY DEF TypeOK, Read, OfKind, Section
<1>2. IsFiniteSet(1..Len(file))
    BY <1>1, FS_Interval
<1> QED
    BY <1>1, <1>2, FS_Subset, FS_CardinalityType

-----------------------------------------------------------------------------
(* What the analyses find.                                                 *)

LEMMA CountStep == IInv /\ [Next]_vars => CountSoFar'
<1> SUFFICES ASSUME IInv, [Next]_vars PROVE CountSoFar'
    OBVIOUS
<1>1. TypeOK /\ BeforeStart /\ InSection /\ CountSoFar
    BY DEF IInv
<1>2. text' = text /\ Unambiguous' = Unambiguous /\ \A kind : OfKind(kind)' = OfKind(kind)
    BY Frozen
<1> PICK kind : kind = text.args[1]
    OBVIOUS
<1>3. CASE CountLine
  <2>1. pc = "count" /\ pc' = "count" /\ pc \in Loops /\ Scan /\ pos' = pos + 1
      BY <1>3 DEF CountLine, Loops
  <2>2. ASSUME Unambiguous
        PROVE  count' = Cardinality(Read(kind)')
    <3>1. count = Cardinality(Read(kind))
        BY <1>1, <2>1, <2>2 DEF CountSoFar
    <3>2. IsFiniteSet(Read(kind)) /\ Cardinality(Read(kind)) \in Nat
        BY <1>1, ReadFinite
    <3>3. /\ Current.kind = kind => Read(kind)' = Read(kind) \cup {pos + 1}
          /\ Current.kind # kind => Read(kind)' = Read(kind)
          /\ pos + 1 \notin Read(kind)
        BY <1>1, <2>1, <2>2, ReadLine
    <3>4. Cardinality(Read(kind) \cup {pos + 1}) = Cardinality(Read(kind)) + 1
        BY <3>2, <3>3, FS_AddElement
    <3> QED
        BY <1>3, <3>1, <3>3, <3>4 DEF CountLine
  <2> QED
      BY <1>1, <1>2, <2>1, <2>2 DEF CountSoFar
<1>4. CASE Switch
  <2>1. CASE pc' = "count"
    <3>1. pc = "switch" /\ pos' = pos /\ count' = count /\ count = 0
        BY <1>1, <1>4, <2>1 DEF Switch, Return, CountSoFar, acc
    <3>2. text.quantity = "count" /\ Len(text.args) = 1
        BY <1>4, <2>1 DEF Switch, Return
    <3>3. Unambiguous => Read(kind) = {}
        BY <1>1, <3>1, ReadNothing
    <3>4. Read(kind)' = Read(kind)
        BY <1>2, <3>1 DEF Read
    <3> QED
        BY <1>2, <2>1, <3>1, <3>2, <3>3, <3>4, FS_EmptySet DEF CountSoFar
  <2>2. CASE pc' # "count"
      BY <1>1, <1>4, <2>2 DEF CountSoFar, Switch, Return, TypeOK, MeasurementText, Quantities
  <2> QED
      BY <2>1, <2>2
<1>5. CASE UNCHANGED vars
  <2>1. Read(kind)' = Read(kind)
      BY <1>2, <1>5 DEF vars, Read
  <2> QED
      BY <1>1, <1>2, <1>5, <2>1 DEF vars, CountSoFar
<1>6. CASE ParseMeasurement \/ WholeFile \/ SeekStart
    BY <1>1, <1>6 DEF CountSoFar, ParseMeasurement, WholeFile, SeekStart, acc
<1>7. CASE pc' \in {"checksums", "first", "rest", "assert", "done"}
    BY <1>7 DEF CountSoFar
<1>8. \/ ParsePanics \/ StartNotFound \/ CountEnds \/ BadChecksum \/ ChecksumsEnd \/ Checksum
      \/ FirstChange \/ LastChange \/ NoFirstChange \/ ConvergenceEnds \/ NoTimestamp \/ MakeAssertion
      => pc' \in {"checksums", "first", "rest", "assert", "done"}
    BY DEF ParsePanics, StartNotFound, CountEnds, BadChecksum, ChecksumsEnd, NoFirstChange,
           ConvergenceEnds, NoTimestamp, MakeAssertion, Return, Finish, Checksum, FirstChange, LastChange
<1> QED
    BY <1>3, <1>4, <1>5, <1>6, <1>7, <1>8 DEF Next

LEMMA ChecksumsStep == IInv /\ [Next]_vars => ChecksumsSoFar'
<1> SUFFICES ASSUME IInv, [Next]_vars PROVE ChecksumsSoFar'
    OBVIOUS
<1>1. TypeOK /\ BeforeStart /\ InSection /\ ChecksumsSoFar
    BY DEF IInv
<1>2. /\ text' = text /\ file' = file /\ Unambiguous' = Unambiguous
      /\ \A kind : OfKind(kind)' = OfKind(kind)
    BY Frozen
<1> DEFINE All == Read("checksum")
<1>3. CASE Checksum
  <2>1. pc = "checksums" /\ pc' = "checksums" /\ pc \in Loops /\ Scan /\ pos' = pos + 1
      BY <1>3 DEF Checksum, Loops
  <2>2. text'.quantity = "checksums"
      BY <1>1, <1>2, <2>1 DEF ChecksumsSoFar
  <2>3. ASSUME Unambiguous
        PROVE  /\ \A i \in All' : file[i].form = "gauge" /\ file[i].host \in DOMAIN csums'
               /\ \A h \in DOMAIN csums' : \E i \in All' :
                     /\ file[i].host = h /\ csums'[h] = file[i].sum
                     /\ \A j \in All' : file[j].host = h => j <= i
    <3>1. /\ \A i \in All : file[i].form = "gauge" /\ file[i].host \in DOMAIN csums
          /\ \A h \in DOMAIN csums : \E i \in All :
                /\ file[i].host = h /\ csums[h] = file[i].sum
                /\ \A j \in All : file[j].host = h => j <= i
        BY <1>1, <2>1, <2>3 DEF ChecksumsSoFar
    <3>2. /\ Current.kind = "checksum" => All' = All \cup {pos + 1}
          /\ Current.kind # "checksum" => All' = All
        BY <1>1, <2>1, <2>3, ReadLine
    <3>3. pos \in Nat /\ All \subseteq Nat /\ \A i \in All : i <= pos
        BY <1>1 DEF TypeOK, Read, OfKind, Section
    <3>4. CASE IsChecksum(Current)
      <4>1. file[pos + 1] = Current /\ Current.form = "gauge"
          BY <1>3, <3>4 DEF Checksum, Current
      <4>2. csums' = Recorded(Current.host, Current.sum)
          BY <1>3, <3>4 DEF Checksum
      <4>3. All' = All \cup {pos + 1}
          BY <3>2, <3>4 DEF IsChecksum
      <4>4. DOMAIN csums' = DOMAIN csums \cup {Current.host}
          BY <4>2 DEF Recorded
      <4>5. \A i \in All' : file[i].form = "gauge" /\ file[i].host \in DOMAIN csums'
          BY <3>1, <4>1, <4>3, <4>4
      <4>6. ASSUME NEW h \in DOMAIN csums'
            PROVE  \E i \in All' : /\ file[i].host = h /\ csums'[h] = file[i].sum
                                   /\ \A j \in All' : file[j].host = h => j <= i
        <5>1. CASE h = Current.host
          <6>1. csums'[h] = Current.sum
              BY <4>2, <5>1 DEF Recorded
          <6>2. \A j \in All' : j <= pos + 1
              BY <3>3, <4>3
          <6> QED
              BY <4>1, <4>3, <5>1, <6>1, <6>2
        <5>2. CASE h # Current.host
          <6>1. h \in DOMAIN csums /\ csums'[h] = csums[h]
              BY <4>2, <4>4, <5>2 DEF Recorded
          <6>2. PICK i \in All : /\ file[i].host = h /\ csums[h] = file[i].sum
                                 /\ \A j \in All : file[j].host = h => j <= i
              BY <3>1, <6>1
          <6>3. \A j \in All' : file[j].host = h => j <= i
              BY <4>1, <4>3, <5>2, <6>2
          <6> QED
              BY <4>3, <6>1, <6>2, <6>3
        <5> QED
            BY <5>1, <5>2
      <4> QED
          BY <4>5, <4>6
    <3>5. CASE ~IsChecksum(Current)
      <4>1. csums' = csums /\ All' = All
          BY <1>3, <3>2, <3>5 DEF Checksum, IsChecksum
      <4> QED
          BY <3>1, <4>1
    <3> QED
        BY <3>4, <3>5
  <2> QED
      BY <1>2, <2>1, <2>2, <2>3 DEF ChecksumsSoFar
<1>4. CASE Switch
  <2>1. CASE pc' = "checksums"
    <3>1. pc = "switch" /\ pos' = pos /\ csums' = csums /\ DOMAIN csums = {}
        BY <1>1, <1>4, <2>1 DEF Switch, Return, ChecksumsSoFar, acc
    <3>2. text.quantity = "checksums"
        BY <1>4, <2>1 DEF Switch, Return
    <3>3. Unambiguous => All = {}
        BY <1>1, <3>1, ReadNothing
    <3>4. All' = All
        BY <1>2, <3>1 DEF Read
    <3> QED
        BY <1>2, <2>1, <3>1, <3>2, <3>3, <3>4 DEF ChecksumsSoFar
  <2>2. CASE pc' # "checksums"
      BY <1>1, <1>4, <2>2 DEF ChecksumsSoFar, Switch, Return, TypeOK, MeasurementText, Quantities
  <2> QED
      BY <2>1, <2>2
<1>5. CASE UNCHANGED vars
  <2>1. All' = All
      BY <1>2, <1>5 DEF vars, Read
  <2> QED
      BY <1>1, <1>2, <1>5, <2>1 DEF vars, ChecksumsSoFar
<1>6. CASE ParseMeasurement \/ WholeFile \/ SeekStart
    BY <1>1, <1>6 DEF ChecksumsSoFar, ParseMeasurement, WholeFile, SeekStart, acc
<1>7. CASE pc' \in {"count", "first", "rest", "assert", "done"}
    BY <1>7 DEF ChecksumsSoFar
<1>8. \/ ParsePanics \/ StartNotFound \/ CountEnds \/ BadChecksum \/ ChecksumsEnd \/ CountLine
      \/ FirstChange \/ LastChange \/ NoFirstChange \/ ConvergenceEnds \/ NoTimestamp \/ MakeAssertion
      => pc' \in {"count", "first", "rest", "assert", "done"}
    BY DEF ParsePanics, StartNotFound, CountEnds, BadChecksum, ChecksumsEnd, NoFirstChange,
           ConvergenceEnds, NoTimestamp, MakeAssertion, Return, Finish, CountLine, FirstChange, LastChange
<1> QED
    BY <1>3, <1>4, <1>5, <1>6, <1>7, <1>8 DEF Next

LEMMA ChangesStep == IInv /\ [Next]_vars => ChangesSoFar'
<1> SUFFICES ASSUME IInv, [Next]_vars PROVE ChangesSoFar'
    OBVIOUS
<1>1. TypeOK /\ BeforeStart /\ InSection /\ ChangesSoFar
    BY DEF IInv
<1>2. /\ text' = text /\ file' = file /\ Unambiguous' = Unambiguous
      /\ \A kind : OfKind(kind)' = OfKind(kind)
    BY Frozen
<1> DEFINE All == Read("change")
<1>3. pos \in Nat /\ All \subseteq Nat /\ (\A i \in All : i <= pos)
    BY <1>1 DEF TypeOK, Read, OfKind, Section
<1>4. CASE FirstChange
  <2>1. pc = "first" /\ pc \in Loops /\ Scan /\ pos' = pos + 1 /\ text'.quantity = "convtime"
      BY <1>1, <1>2, <1>4 DEF FirstChange, Loops, ChangesSoFar
  <2>2. Unambiguous => /\ All = {}
                       /\ Current.kind = "change" => All' = All \cup {pos + 1}
                       /\ Current.kind # "change" => All' = All
      BY <1>1, <2>1, ReadLine DEF ChangesSoFar
  <2>3. CASE Current.kind = "change"
    <3>1. pc' = "rest" /\ firstChange' = pos + 1 /\ lastChange' = pos + 1
        BY <1>4, <2>3 DEF FirstChange
    <3>2. Unambiguous => All' = {pos + 1}
        BY <2>2, <2>3
    <3>3. file[pos + 1].kind = "change"
        BY <2>3 DEF Current
    <3> QED
        BY <1>2, <1>3, <2>1, <3>1, <3>2, <3>3 DEF ChangesSoFar
  <2>4. CASE Current.kind # "change"
    <3>1. pc' = "first"
        BY <1>4, <2>4 DEF FirstChange
    <3> QED
        BY <1>2, <2>1, <2>2, <2>4, <3>1 DEF ChangesSoFar
  <2> QED
      BY <2>3, <2>4
<1>5. CASE LastChange
  <2>1. /\ pc = "rest" /\ pc' = "rest" /\ pc \in Loops /\ Scan /\ pos' = pos + 1
        /\ text'.quantity = "convtime" /\ firstChange' = firstChange
      BY <1>1, <1>2, <1>5 DEF LastChange, Loops, ChangesSoFar
  <2>2. Unambiguous => /\ Current.kind = "change" => All' = All \cup {pos + 1}
                       /\ Current.kind # "change" => All' = All
      BY <1>1, <2>1, ReadLine
  <2>3. CASE Current.kind = "change"
    <3>1. lastChange' = pos + 1 /\ file[pos + 1].kind = "change"
        BY <1>5, <2>3 DEF LastChange, Current
    <3>2. \A i \in {firstChange', lastChange'} : i > 0 /\ file'[i].kind = "change"
        BY <1>1, <1>2, <1>3, <2>1, <3>1 DEF ChangesSoFar
    <3>3. Unambiguous =>
            /\ firstChange' \in All' /\ lastChange' \in All'
            /\ \A i \in All' : firstChange' <= i /\ i <= lastChange'
        BY <1>1, <1>3, <2>1, <2>2, <2>3, <3>1 DEF ChangesSoFar
    <3> QED
        BY <1>2, <2>1, <3>2, <3>3 DEF ChangesSoFar
  <2>4. CASE Current.kind # "change"
    <3>1. lastChange' = lastChange
        BY <1>5, <2>4 DEF LastChange
    <3> QED
        BY <1>1, <1>2, <2>1, <2>2, <2>4, <3>1 DEF ChangesSoFar
  <2> QED
      BY <2>3, <2>4
<1>6. CASE Switch
  <2>1. CASE pc' = "first"
    <3>1. pc = "switch" /\ pos' = pos /\ text.quantity = "convtime"
        BY <1>1, <1>6, <2>1 DEF Switch, Return, TypeOK, MeasurementText, Quantities
    <3>2. Unambiguous => All = {}
        BY <1>1, <3>1, ReadNothing
    <3>3. All' = All
        BY <1>2, <3>1 DEF Read
    <3> QED
        BY <1>2, <2>1, <3>1, <3>2, <3>3 DEF ChangesSoFar
  <2>2. CASE pc' # "first"
      BY <1>1, <1>6, <2>2 DEF ChangesSoFar, Switch, Return, TypeOK, MeasurementText, Quantities
  <2> QED
      BY <2>1, <2>2
<1>7. CASE UNCHANGED vars
  <2>1. All' = All
      BY <1>2, <1>7 DEF vars, Read
  <2> QED
      BY <1>1, <1>2, <1>7, <2>1 DEF vars, ChangesSoFar
<1>8. CASE pc' \notin {"first", "rest"}
    BY <1>8 DEF ChangesSoFar
<1>9. \/ ParsePanics \/ StartNotFound \/ CountEnds \/ BadChecksum \/ ChecksumsEnd \/ CountLine
      \/ ParseMeasurement \/ WholeFile \/ SeekStart \/ Checksum \/ NoFirstChange
      \/ ConvergenceEnds \/ NoTimestamp \/ MakeAssertion
      => pc' \notin {"first", "rest"}
    BY DEF ParsePanics, StartNotFound, CountEnds, BadChecksum, ChecksumsEnd, NoFirstChange,
           ConvergenceEnds, NoTimestamp, MakeAssertion, Return, Finish, CountLine, ParseMeasurement, WholeFile,
           SeekStart, Checksum
<1> QED
    BY <1>4, <1>5, <1>6, <1>7, <1>8, <1>9 DEF Next

-----------------------------------------------------------------------------
(* What is returned.                                                       *)

(* The demands on a file that gives a value, apart from the value.         *)
GoodFile ==
    /\ Starts # {}
    /\ broken => \E s \in Starts, e \in Ends : s < e
    /\ text.quantity = "checksums" => \A i \in OfKind("checksum") : file[i].form = "gauge"
    /\ text.quantity = "convtime" =>
         \A i \in OfKind("change") :
            ~file[i].stamped => \E j, k \in OfKind("change") : j < i /\ i < k

LEMMA ExpectedFrozen ==
    ASSUME [Next]_vars
    PROVE  (\A v : Expected(v)' = Expected(v)) /\ GoodFile' = GoodFile
<1>1. /\ text' = text /\ file' = file /\ broken' = broken /\ Starts' = Starts /\ Ends' = Ends
      /\ \A kind : OfKind(kind)' = OfKind(kind)
    BY Frozen
<1>2. PICK kind : kind = text.args[1]
    OBVIOUS
<1>3. \A v : CountIs(v)' = CountIs(v)
  <2>1. \A v : CountIs(v) <=> v = Number(Cardinality(OfKind(kind)))
      BY <1>2 DEF CountIs
  <2>2. \A v : CountIs(v)' <=> v = Number(Cardinality(OfKind(kind)'))
      BY <1>1, <1>2 DEF CountIs
  <2> QED
      BY <1>1, <2>1, <2>2
<1>4. \A v : ChecksumsIs(v)' = ChecksumsIs(v)
  <2>1. Latest' = Latest
      BY <1>1 DEF Latest
  <2> QED
      BY <1>1, <2>1 DEF ChecksumsIs
<1>5. \A v : ConvergenceTimeIs(v)' = ConvergenceTimeIs(v)
    BY <1>1 DEF ConvergenceTimeIs
<1>6. \A v : Expected(v)' = Expected(v)
    BY <1>1, <1>3, <1>4, <1>5 DEF Expected
<1>7. GoodFile' = GoodFile
    BY <1>1 DEF GoodFile
<1> QED
    BY <1>6, <1>7

(* An analysis that has come to the end of its section without an error.   *)
LEMMA SectionRead ==
    ASSUME IInv, pc \in Loops, ~Scan, ~ReadFailed, Unambiguous, pc = "rest" => Stamped
    PROVE  GoodFile
<1>1. TypeOK /\ InSection /\ ChecksumsSoFar /\ CountSoFar /\ ChangesSoFar
    BY DEF IInv
<1>2. Starts # {}
    BY <1>1 DEF InSection
<1>3. broken => \E s \in Starts, e \in Ends : s < e
    BY <1>1, EndLine DEF ReadFailed
<1>4. ASSUME text.quantity = "checksums"
      PROVE  \A i \in OfKind("checksum") : file[i].form = "gauge"
  <2>1. pc = "checksums"
      BY <1>1, <1>4 DEF Loops, CountSoFar, ChangesSoFar
  <2>2. Read("checksum") = OfKind("checksum")
      BY <1>1, ReadAll
  <2> QED
      BY <1>1, <2>1, <2>2 DEF ChecksumsSoFar
<1>5. ASSUME text.quantity = "convtime", NEW i \in OfKind("change"), ~file[i].stamped
      PROVE  \E j, k \in OfKind("change") : j < i /\ i < k
  <2>1. Read("change") = OfKind("change")
      BY <1>1, ReadAll
  <2>2. pc = "rest"
      BY <1>1, <1>5, <2>1 DEF Loops, CountSoFar, ChecksumsSoFar, ChangesSoFar
  <2>3. /\ firstChange \in OfKind("change") /\ lastChange \in OfKind("change")
        /\ firstChange <= i /\ i <= lastChange
      BY <1>1, <1>5, <2>1, <2>2 DEF ChangesSoFar
  <2>4. i # firstChange /\ i # lastChange
      BY <1>5, <2>2 DEF Stamped
  <2>5. firstChange \in Nat /\ lastChange \in Nat /\ i \in Nat
      BY <1>1 DEF TypeOK, OfKind, Section
  <2> QED
      BY <2>3, <2>4, <2>5
<1> QED
    BY <1>2, <1>3, <1>4, <1>5 DEF GoodFile

LEMMA CountReturned ==
    ASSUME IInv, pc = "count", ~Scan, Unambiguous
    PROVE  Expected(Number(count))
<1>1. TypeOK /\ InSection /\ CountSoFar
    BY DEF IInv
<1>2. Read(text.args[1]) = OfKind(text.args[1])
    BY <1>1, ReadAll DEF Loops
<1> QED
    BY <1>1, <1>2 DEF CountSoFar, Expected, CountIs

LEMMA ChecksumsReturned ==
    ASSUME IInv, pc = "checksums", ~Scan, Unambiguous
    PROVE  Expected(Number(Uniq))
<1>1. TypeOK /\ InSection /\ ChecksumsSoFar
    BY DEF IInv
<1>2. Read("checksum") = OfKind("checksum")
    BY <1>1, ReadAll DEF Loops
<1>3. /\ \A i \in OfKind("checksum") : file[i].host \in DOMAIN csums
      /\ \A h \in DOMAIN csums : \E i \in OfKind("checksum") :
            /\ file[i].host = h /\ csums[h] = file[i].sum
            /\ \A j \in OfKind("checksum") : file[j].host = h => j <= i
    BY <1>1, <1>2 DEF ChecksumsSoFar
<1>4. OfKind("checksum") \subseteq Nat
    BY <1>1 DEF TypeOK, OfKind, Section
<1>5. ASSUME NEW h \in DOMAIN csums
      PROVE  \E i \in Latest : csums[h] = file[i].sum
    BY <1>3 DEF Latest
<1>6. ASSUME NEW i \in Latest
      PROVE  \E h \in DOMAIN csums : csums[h] = file[i].sum
  <2>1. i \in OfKind("checksum") /\ file[i].host \in DOMAIN csums
      BY <1>3 DEF Latest
  <2>2. PICK j \in OfKind("checksum") :
            /\ file[j].host = file[i].host /\ csums[file[i].host] = file[j].sum
            /\ \A k \in OfKind("checksum") : file[k].host = file[i].host => k <= j
      BY <1>3, <2>1
  <2>3. i = j
      BY <1>4, <2>1, <2>2 DEF Latest
  <2> QED
      BY <2>1, <2>2, <2>3
<1>7. {csums[h] : h \in DOMAIN csums} = {file[i].sum : i \in Latest}
    BY <1>5, <1>6
<1> QED
    BY <1>1, <1>7 DEF ChecksumsSoFar, Expected, ChecksumsIs, Uniq

LEMMA ConvergenceReturned ==
    ASSUME IInv, pc = "rest", ~Scan, Unambiguous
    PROVE  Expected(Time(Truncated(file[lastChange].time - file[firstChange].time)))
<1>1. TypeOK /\ InSection /\ ChangesSoFar
    BY DEF IInv
<1>2. Read("change") = OfKind("change")
    BY <1>1, ReadAll DEF Loops
<1>3. /\ text.quantity = "convtime"
      /\ firstChange \in OfKind("change") /\ lastChange \in OfKind("change")
      /\ \A i \in OfKind("change") : firstChange <= i /\ i <= lastChange
    BY <1>1, <1>2 DEF ChangesSoFar
<1> QED
    BY <1>3 DEF Expected, ConvergenceTimeIs

LEMMA ReturnedStep == IInv /\ [Next]_vars => Returned'
<1> SUFFICES ASSUME IInv, [Next]_vars PROVE Returned'
    OBVIOUS
<1>0. /\ Parses(assertion')
      /\ assertion' # assertion => ParseMeasurement
    BY AssertionStep DEF IInv, Returned
<1>1. Returned /\ BeforeStart
    BY DEF IInv
<1>2. /\ text' = text /\ Unambiguous' = Unambiguous /\ GoodFile' = GoodFile
      /\ \A v : Expected(v)' = Expected(v)
    BY Frozen, ExpectedFrozen
<1>3. PICK o : o = out'
    OBVIOUS
<1>4. /\ MeasuresItsWindow' <=> (Unambiguous /\ IsValue(o) => Expected(o))
      /\ NoValueFromBadFile' <=> (Unambiguous /\ IsValue(o) => GoodFile)
  <2>1. Expected(out)' <=> Expected(o)
      BY <1>2, <1>3
  <2>2. IsValue(out)' <=> IsValue(o)
      BY <1>3 DEF IsValue
  <2>3. NoValueFromBadFile' <=> (Unambiguous' /\ IsValue(out)' => GoodFile')
      BY DEF NoValueFromBadFile, GoodFile
  <2> QED
      BY <1>2, <2>1, <2>2, <2>3 DEF MeasuresItsWindow
<1>5. CASE out' = out
  <2>1. MeasuresItsWindow' /\ NoValueFromBadFile'
      BY <1>1, <1>3, <1>4, <1>5 DEF Returned, MeasuresItsWindow, NoValueFromBadFile, GoodFile
  <2>2. CASE MakeAssertion
    <3>1. pc = "assert" /\ pc' = "done" /\ IsValue(out) /\ assertion' = assertion
        BY <1>1, <2>2 DEF MakeAssertion, Returned
    <3>2. verdict' = "pass" => Holds(assertion, out)
        BY <2>2 DEF MakeAssertion
    <3>3. (verdict = "pass")' => Holds(assertion, out)'
        BY <1>5, <3>1, <3>2
    <3> QED
        BY <1>0, <1>5, <2>1, <3>1, <3>3 DEF Returned, IsValue
  <2>3. CASE ~MakeAssertion
    <3>1. verdict' = verdict
        BY <2>3 DEF Next, vars, ParseMeasurement, ParsePanics, WholeFile, SeekStart,
           StartNotFound, Switch, CountLine, CountEnds, Checksum, BadChecksum, ChecksumsEnd,
           FirstChange, NoFirstChange, LastChange, ConvergenceEnds, NoTimestamp, Return, Finish
    <3>2. \/ ParseMeasurement \/ UNCHANGED vars \/ pc' = "done" \/ IsValue(out)
          \/ (pc \notin {"parse", "done", "assert"} /\ pc' \notin {"parse", "done", "assert"})
      <4>1. \/ ParsePanics \/ StartNotFound \/ NoFirstChange \/ BadChecksum \/ NoTimestamp
            => pc' = "done"
          BY DEF ParsePanics, StartNotFound, NoFirstChange, BadChecksum, NoTimestamp, Return
      <4>2. CountEnds \/ ChecksumsEnd \/ ConvergenceEnds => pc' = "done" \/ IsValue(out)
          BY <1>5 DEF CountEnds, ChecksumsEnd, ConvergenceEnds, Finish, Return, Number, Time,
                      IsValue
      <4>3. Switch => pc' = "done" \/ (pc = "switch" /\ pc' \in {"first", "count", "checksums"})
          BY DEF IInv, TypeOK, MeasurementText, Quantities, Switch, Return
      <4>4. \/ WholeFile \/ SeekStart \/ CountLine \/ Checksum \/ FirstChange \/ LastChange
            => pc \notin {"parse", "done", "assert"} /\ pc' \notin {"parse", "done", "assert"}
          BY DEF WholeFile, SeekStart, CountLine, Checksum, FirstChange, LastChange
      <4> QED
          BY <2>3, <4>1, <4>2, <4>3, <4>4 DEF Next, vars
    <3>3. CASE ParseMeasurement
      <4>1. verdict' = "none" /\ ~IsValue(out) /\ pc' = "seek"
          BY <1>1, <3>1, <3>3 DEF ParseMeasurement, Returned
      <4> QED
          BY <1>0, <1>5, <2>1, <4>1 DEF Returned, IsValue
    <3>8. pc # "parse" \/ pc' # "seek" => assertion' = assertion
        BY <1>0 DEF ParseMeasurement
    <3>4. CASE UNCHANGED vars
        BY <1>1, <2>1, <3>4 DEF vars, Returned, Parses, Holds, IsValue, Equal, Less, IsNaN
    <3>5. CASE pc' = "done"
      <4>1. Holds(assertion, out)' <=> Holds(assertion, out)
          BY <1>5, <3>5, <3>8
      <4> QED
          BY <1>0, <1>1, <1>5, <2>1, <3>1, <3>5, <4>1 DEF Returned, IsValue
    <3>6. CASE pc \notin {"parse", "done", "assert"} /\ pc' \notin {"parse", "done", "assert"}
      <4>1. verdict' = "none" /\ ~IsValue(out)
          BY <1>1, <3>1, <3>6 DEF Returned
      <4> QED
          BY <1>0, <1>5, <2>1, <3>6, <4>1 DEF Returned, IsValue
    <3>7. CASE IsValue(out)
      <4>1. pc \in {"assert", "done"}
          BY <1>1, <3>7 DEF Returned
      <4>2. UNCHANGED vars
          BY <2>3, <4>1 DEF Next, ParseMeasurement, ParsePanics, WholeFile, SeekStart,
             StartNotFound, Switch, CountLine, CountEnds, Checksum, BadChecksum, ChecksumsEnd,
             FirstChange, NoFirstChange, LastChange, ConvergenceEnds, NoTimestamp
      <4> QED
          BY <3>4, <4>2 DEF vars
    <3> QED
        BY <3>2, <3>3, <3>4, <3>5, <3>6, <3>7
  <2> QED
      BY <2>2, <2>3
<1>6. CASE ~IsValue(out') /\ pc' = "done" /\ verdict' = "none"
    BY <1>0, <1>3, <1>4, <1>6 DEF Returned, IsValue
<1>7. ASSUME pc \in Loops, pc' = "assert", verdict' = verdict, ~Scan, ~ReadFailed, IsValue(o),
             Unambiguous => Expected(o), pc = "rest" => Stamped
      PROVE  Returned'
  <2>1. Unambiguous => GoodFile
      BY <1>7, SectionRead
  <2>2. verdict' = "none"
      BY <1>1, <1>7 DEF Returned, Loops
  <2> QED
      BY <1>0, <1>3, <1>4, <1>7, <2>1, <2>2 DEF Returned, IsValue
<1>8. CASE CountEnds /\ ~ReadFailed
  <2>1. o = Number(count) /\ IsValue(o) /\ pc \in Loops /\ pc' = "assert" /\ verdict' = verdict
      BY <1>3, <1>8 DEF CountEnds, Finish, Return, Number, IsValue, Loops
  <2> QED
      BY <1>7, <1>8, <2>1, CountReturned DEF CountEnds
<1>9. CASE ChecksumsEnd /\ ~ReadFailed
  <2>1. o = Number(Uniq) /\ IsValue(o) /\ pc \in Loops /\ pc' = "assert" /\ verdict' = verdict
      BY <1>3, <1>9 DEF ChecksumsEnd, Finish, Return, Number, IsValue, Loops
  <2> QED
      BY <1>7, <1>9, <2>1, ChecksumsReturned DEF ChecksumsEnd
<1>10. CASE ConvergenceEnds /\ ~ReadFailed
  <2>1. /\ o = Time(Truncated(file[lastChange].time - file[firstChange].time))
        /\ IsValue(o) /\ pc \in Loops /\ pc' = "assert" /\ verdict' = verdict
      BY <1>3, <1>10 DEF ConvergenceEnds, Finish, Return, Time, IsValue, Loops
  <2> QED
      BY <1>7, <1>10, <2>1, ConvergenceReturned DEF ConvergenceEnds
<1>11. \/ ParsePanics \/ StartNotFound \/ NoFirstChange \/ BadChecksum \/ NoTimestamp
       \/ ReadFailed /\ (CountEnds \/ ChecksumsEnd \/ ConvergenceEnds)
       => ~IsValue(out') /\ pc' = "done" /\ verdict' = "none"
    BY <1>1 DEF ParsePanics, StartNotFound, NoFirstChange, BadChecksum, CountEnds, ChecksumsEnd,
                ConvergenceEnds, NoTimestamp, Finish, Return, Outcome, Invalid, IsValue, Returned
<1>12. Switch => out' = out \/ (~IsValue(out') /\ pc' = "done" /\ verdict' = "none")
    BY <1>1 DEF Switch, Return, Outcome, IsValue, Returned
<1>13. \/ ParseMeasurement \/ WholeFile \/ SeekStart \/ CountLine \/ Checksum \/ FirstChange
       \/ LastChange \/ MakeAssertion \/ UNCHANGED vars
       => out' = out
    BY DEF ParseMeasurement, WholeFile, SeekStart, CountLine, Checksum, FirstChange, LastChange,
           MakeAssertion, vars
<1> QED
    BY <1>5, <1>6, <1>8, <1>9, <1>10, <1>11, <1>12, <1>13 DEF Next

-----------------------------------------------------------------------------
LEMMA Invariant == Spec => []IInv
<1>1. IInv /\ [Next]_vars => IInv'
    BY TypeStep, PositionStep, CountStep, ChecksumsStep, ChangesStep, ReturnedStep DEF IInv
<1> QED
    BY <1>1, InitInvariant, PTL DEF Spec

(* The state of a measurement is well typed, for every file and text: no   *)
(* position outside the file is read, no result has a type of its own.     *)
THEOREM TypeCorrect == Spec => []TypeOK
<1>1. IInv => TypeOK
    BY DEF IInv
<1> QED
    BY <1>1, Invariant, PTL

(* Each analysis computes what it is to compute, of its section and of     *)
(* nothing else, whatever the file.                                        *)
THEOREM AnalysesCorrect == Spec => []MeasuresItsWindow
<1>1. IInv => MeasuresItsWindow
    BY DEF IInv, Returned
<1> QED
    BY <1>1, Invariant, PTL

(* No value comes from a file that is incomplete or broken in its section. *)
THEOREM BadFilesGiveNoValue == Spec => []NoValueFromBadFile
<1>1. IInv => NoValueFromBadFile
    BY DEF IInv, Returned
<1> QED
    BY <1>1, Invariant, PTL

(* A pass needs the value of the section, and a value the text asks for.   *)
THEOREM PassesEarned == Spec => []PassIsEarned
<1>1. IInv => PassIsEarned
  <2> SUFFICES ASSUME IInv, Unambiguous, verdict = "pass"
               PROVE  PassIsEarned
      BY DEF PassIsEarned
  <2>1. /\ IsValue(out) /\ Holds(assertion, out) /\ Parses(assertion)
        /\ MeasuresItsWindow
      BY DEF IInv, Returned
  <2>2. Expected(out)
      BY <2>1 DEF MeasuresItsWindow
  <2>3. out \in [type: {"float64", "Duration"}, num: {out.num}, den: {1}]
    <3>1. out = [type |-> out.type, num |-> out.num, den |-> 1] /\ out.num \in Int
        BY DEF IInv, TypeOK
    <3> QED
        BY <2>1, <3>1 DEF IsValue
  <2>4. assertion.op = "is" => assertion.v1 = out
      BY <2>1 DEF Holds, Equal
  <2>5. ASSUME assertion.op = "in"
        PROVE  /\ assertion.v1.type = out.type /\ assertion.v2.type = out.type
               /\ ~IsNaN(assertion.v1) => AtMost(assertion.v1, out)
               /\ ~IsNaN(assertion.v2) => AtMost(out, assertion.v2)
    <3>1. assertion.v1 \in Value /\ assertion.v2 \in Value
        BY <2>1, <2>5 DEF Parses, Assertion
    <3>2. ~Less(out, assertion.v1) /\ ~Less(assertion.v2, out)
        BY <2>1, <2>5 DEF Holds
    <3>3. out.num \in Int /\ out.den = 1 /\ ~IsNaN(out)
        BY DEF IInv, TypeOK, IsNaN
    <3>4. ~IsNaN(assertion.v1) => AtMost(assertion.v1, out)
        BY <3>1, <3>2, <3>3 DEF Less, AtMost, Value
    <3>5. ~IsNaN(assertion.v2) => AtMost(out, assertion.v2)
        BY <3>1, <3>2, <3>3 DEF Less, AtMost, Value
    <3> QED
        BY <2>1, <2>5, <3>4, <3>5 DEF Holds, Parses
  <2> QED
      BY <2>2, <2>3, <2>4, <2>5 DEF PassIsEarned
<1> QED
    BY <1>1, Invariant, PTL
=============================================================================
