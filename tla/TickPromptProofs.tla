-------------------------- MODULE TickPromptProofs ---------------------------
(***************************************************************************)
(* Theorems about the keyboard of tick-cluster, for any number of hosts,   *)
(* digits and commands under way.  That it implements the process control  *)
(* carries the theorems of TickClusterProofs over to it.                   *)
(***************************************************************************)
EXTENDS TickPrompt, FiniteSetTheorems, WellFoundedInduction, TLAPS

----------------------------------------------------------------------------
(* Every step is a step of the table or leaves it alone.                   *)
LEMMA StepOfTable == [Next]_vars => [Table!Next]_(Table!vars)
<1> SUFFICES ASSUME [Next]_vars PROVE Table!Next \/ UNCHANGED Table!vars
  OBVIOUS
<1> USE DEF Table!Next, Table!Keys
<1>1. UNCHANGED table => UNCHANGED Table!vars
  BY DEF table, Table!vars
<1>2. CASE Quit \/ Revive
  BY <1>2 DEF Quit, Revive
<1>3. CASE Enter
  <2>1. PICK slots \in Samples(num) :
           Table!SuspendProc(slots) \/ Table!KillProc(slots) \/ Table!TerminateProc(slots)
    BY <1>3 DEF Enter
  <2>2. slots \in SUBSET Table!HostsUp
    BY DEF Samples
  <2> QED BY <2>1, <2>2
<1>4. CASE Command \/ Flag
  BY <1>1, <1>4 DEF Command, Flag, Send
<1>5. CASE AskCount \/ AskFlag \/ (\E d \in Digits : Digit(d))
  BY <1>1, <1>5 DEF AskCount, AskFlag, Digit
<1>6. CASE \E isQuit \in BOOLEAN : Unexpected(isQuit)
  BY <1>1, <1>6 DEF Unexpected
<1>7. ASSUME NEW c \in DOMAIN calls, NEW h \in calls[c].pending, Answer(c, h)
      PROVE  Table!Next \/ UNCHANGED Table!vars
  BY <1>1, <1>7 DEF Answer
<1>8. CASE Elsewhere
  BY <1>8 DEF Elsewhere
<1>9. CASE UNCHANGED vars
  BY <1>1, <1>9 DEF vars
<1> QED BY <1>2, <1>3, <1>4, <1>5, <1>6, <1>7, <1>8, <1>9 DEF Next

(* The keyboard implements the process control.                            *)
THEOREM KeyboardDrivesTable == Spec => KeysDriveTable
<1>1. Init => Table!Init
  BY DEF Init
<1> QED BY <1>1, StepOfTable, PTL DEF Spec, KeysDriveTable, Table!Spec

----------------------------------------------------------------------------
(* A key that quits is the last, or was the first in a prompt, which it    *)
(* has left.                                                               *)
QuitsLeave == quits = 0 \/ tool # "up" \/ (quits = 1 /\ state = "top")

LEMMA ToolStaysDown ==
    ASSUME Table!Next \/ UNCHANGED Table!vars, tool # "up"
    PROVE  tool' # "up"
BY DEF Table!Next, Table!Keys, Table!KillProc, Table!SuspendProc, Table!TerminateProc,
   Table!ReviveProcs, Table!Shutdown, Table!CallbackThrows, Table!HardKill, Table!ExitByItself,
   Table!ExitOnTerm, Table!Reap, Table!vars

LEMMA NextQuits == QuitsLeave /\ [Next]_vars => QuitsLeave'
<1> SUFFICES ASSUME QuitsLeave, [Next]_vars PROVE QuitsLeave'
  OBVIOUS
<1>1. CASE Quit
  BY <1>1 DEF Quit, Table!Shutdown, QuitsLeave
<1>2. CASE Command \/ AskCount \/ AskFlag \/ Revive \/ Enter \/ Flag
           \/ (\E d \in Digits : Digit(d))
  BY <1>2 DEF Command, AskCount, AskFlag, Revive, Enter, Flag, Digit, QuitsLeave
<1>3. ASSUME NEW isQuit \in BOOLEAN, Unexpected(isQuit) PROVE QuitsLeave'
  <2>1. quits = 0
    BY <1>3 DEF Unexpected, QuitsLeave
  <2> QED BY <1>3, <2>1 DEF Unexpected, ToTop, QuitsLeave
<1>4. CASE UNCHANGED <<quits, state>>
  BY <1>4, StepOfTable, ToolStaysDown DEF QuitsLeave
<1>5. CASE \/ UNCHANGED vars \/ Elsewhere
           \/ \E c \in DOMAIN calls : \E h \in calls[c].pending : Answer(c, h)
  BY <1>4, <1>5 DEF vars, prompt, Elsewhere, Answer
<1> QED BY <1>1, <1>2, <1>3, <1>5 DEF Next

(* q or control-c twice always ends the tool.                              *)
THEOREM QuitTwiceEnds == Spec => []TwoQuitsQuit
<1>1. Init => QuitsLeave
  BY DEF Init, QuitsLeave
<1>2. QuitsLeave => TwoQuitsQuit
  BY DEF QuitsLeave, TwoQuitsQuit
<1> QED BY <1>1, <1>2, NextQuits, PTL DEF Spec

----------------------------------------------------------------------------
(* What the callbacks of a command hold: who has not answered is not       *)
(* counted, and the summary comes with the last answer.                    *)
CallInv(call) ==
    /\ call \in Call /\ call.pending \subseteq call.list
    /\ call.completed + Cardinality(call.pending) = Cardinality(call.list)
    /\ call.printed = IF call.list = {} \/ call.pending # {} THEN <<>>
                      ELSE <<IF call.parses THEN call.results ELSE call.list>>

CallsInv == calls \in Seq(Call) /\ \A c \in DOMAIN calls : CallInv(calls[c])

LEMMA Cardinals ==
    ASSUME NEW S \in SUBSET (1..N)
    PROVE  IsFiniteSet(S) /\ Cardinality(S) \in Nat /\ Cardinality(S) <= N
           /\ (Cardinality(S) = 0 <=> S = {})
<1>1. IsFiniteSet(1..N) /\ Cardinality(1..N) = N
  BY PromptAssumption, FS_Interval
<1>2. IsFiniteSet(S) /\ Cardinality(S) <= N
  BY <1>1, FS_Subset
<1>3. Cardinality(S) \in Nat
  BY <1>2, FS_CardinalityType
<1>4. Cardinality(S) = 0 <=> S = {}
  BY <1>2, FS_EmptySet
<1> QED BY <1>2, <1>3, <1>4

LEMMA NewCallInv ==
    ASSUME NEW list \in SUBSET (1..N), NEW parses \in BOOLEAN
    PROVE  CallInv(NewCall(list, parses))
<1>1. Cardinality(list) \in Nat /\ (Cardinality(list) = 0 <=> list = {})
  BY Cardinals
<1>2. <<>> \in Seq(SUBSET (1..N)) /\ 0 \in 0..N
  BY PromptAssumption
<1> QED BY <1>1, <1>2 DEF NewCall, CallInv, Call

LEMMA PrintedCall ==
    ASSUME NEW call \in Call, NEW summary \in SUBSET (1..N), NEW done,
           done = [call EXCEPT !.printed = <<summary>>]
    PROVE  /\ done \in Call /\ done.printed = <<summary>>
           /\ done.list = call.list /\ done.parses = call.parses /\ done.pending = call.pending
           /\ done.completed = call.completed /\ done.results = call.results
<1>1. <<summary>> \in Seq(SUBSET (1..N))
  OBVIOUS
<1> QED BY <1>1 DEF Call

LEMMA SummedUpInv ==
    ASSUME NEW call \in Call, call.printed = <<>>, call.list # {},
           call.pending \subseteq call.list,
           call.completed + Cardinality(call.pending) = Cardinality(call.list)
    PROVE  CallInv(SummedUp(call))
<1>1. /\ call.list \in SUBSET (1..N) /\ call.pending \in SUBSET (1..N)
      /\ call.results \in SUBSET (1..N) /\ call.completed \in 0..N
  BY DEF Call
<1>2. /\ Cardinality(call.pending) \in Nat /\ Cardinality(call.list) \in Nat
      /\ Cardinality(call.pending) = 0 <=> call.pending = {}
  BY <1>1, Cardinals
<1>3. CASE call.pending = {}
  <2> DEFINE summary == IF call.parses THEN call.results ELSE call.list
  <2>1. call.completed = Cardinality(call.list)
    BY <1>1, <1>2, <1>3
  <2>2. summary \in SUBSET (1..N)
    BY <1>1
  <2>3. SummedUp(call) = [call EXCEPT !.printed = <<summary>>]
    <3>1. SummedUp(call) = [call EXCEPT !.printed = Append(call.printed, summary)]
      BY <2>1, Zenon DEF SummedUp
    <3>2. Append(call.printed, summary) = <<summary>>
      OBVIOUS
    <3> QED BY <3>1, <3>2, Zenon
  <2> HIDE DEF summary
  <2>4. /\ SummedUp(call) \in Call /\ SummedUp(call).printed = <<summary>>
        /\ SummedUp(call).list = call.list /\ SummedUp(call).parses = call.parses
        /\ SummedUp(call).pending = call.pending
        /\ SummedUp(call).completed = call.completed
        /\ SummedUp(call).results = call.results
    BY <2>2, <2>3, PrintedCall, Zenon
  <2> QED BY <1>3, <2>4 DEF CallInv, summary
<1>4. CASE call.pending # {}
  <2>1. call.completed # Cardinality(call.list)
    BY <1>1, <1>2, <1>4
  <2>2. SummedUp(call) = call
    BY <2>1 DEF SummedUp
  <2> QED BY <1>4, <2>2 DEF CallInv
<1> QED BY <1>3, <1>4

LEMMA AnsweredInv ==
    ASSUME NEW call, CallInv(call), NEW h \in call.pending, NEW err \in BOOLEAN
    PROVE  CallInv(SummedUp(Counted(call, h, err)))
<1> DEFINE next == Counted(call, h, err)
<1>1. /\ call.list \in SUBSET (1..N) /\ call.pending \in SUBSET (1..N)
      /\ call.results \in SUBSET (1..N) /\ call.completed \in Nat /\ call.parses \in BOOLEAN
      /\ call.pending \subseteq call.list /\ call.printed = <<>> /\ call.list # {}
      /\ call.completed + Cardinality(call.pending) = Cardinality(call.list)
  BY DEF CallInv, Call
<1>2. /\ IsFiniteSet(call.pending)
      /\ Cardinality(call.pending) \in Nat /\ Cardinality(call.list) \in Nat
      /\ Cardinality(call.list) <= N
  BY <1>1, Cardinals
<1>3. Cardinality(call.pending \ {h}) = Cardinality(call.pending) - 1
  BY <1>2, FS_RemoveElement
<1>4. Cardinality(call.pending \ {h}) \in Nat
  <2>1. call.pending \ {h} \in SUBSET (1..N)
    BY <1>1
  <2> QED BY <2>1, Cardinals
<1>5. /\ next.list = call.list /\ next.printed = <<>>
      /\ next.pending = call.pending \ {h} /\ next.completed = call.completed + 1
      /\ next.results \in SUBSET (1..N)
  BY <1>1 DEF Counted, CallInv, Call
<1>6. call.completed + 1 \in 0..N
  BY <1>1, <1>2, <1>3, <1>4, PromptAssumption
<1>7. next \in Call
  BY <1>1, <1>5, <1>6 DEF Counted, CallInv, Call
<1>8. next.completed + Cardinality(next.pending) = Cardinality(next.list)
  BY <1>1, <1>2, <1>3, <1>5
<1>9. next.list # {} /\ next.pending \subseteq next.list
  BY <1>1, <1>5
<1> HIDE DEF next
<1>10. CallInv(SummedUp(next))
  BY <1>5, <1>7, <1>8, <1>9, SummedUpInv
<1> QED BY <1>10 DEF next

LEMMA NextCalls ==
    CallsInv /\ [Next]_vars => CallsInv'
<1> SUFFICES ASSUME CallsInv, [Next]_vars PROVE CallsInv'
  OBVIOUS
<1>1. ASSUME NEW list \in SUBSET (1..N), NEW parses \in BOOLEAN, Send(list, parses)
      PROVE  CallsInv'
  <2>1. CallInv(NewCall(list, parses)) /\ NewCall(list, parses) \in Call
    BY NewCallInv DEF CallInv
  <2>2. calls' = Append(calls, NewCall(list, parses)) /\ calls \in Seq(Call)
    BY <1>1 DEF Send, CallsInv
  <2>3. /\ calls' \in Seq(Call) /\ Len(calls') = Len(calls) + 1
        /\ \A c \in DOMAIN calls' :
             calls'[c] = IF c = Len(calls) + 1 THEN NewCall(list, parses) ELSE calls[c]
        /\ \A c \in DOMAIN calls' : c = Len(calls) + 1 \/ c \in DOMAIN calls
    BY <2>1, <2>2
  <2>4. \A c \in DOMAIN calls' : CallInv(calls'[c])
    BY <2>1, <2>3 DEF CallsInv
  <2> QED BY <2>3, <2>4 DEF CallsInv, CallInv
<1>2. Table!HostsUp \in SUBSET (1..N) /\ Table!Slots \in SUBSET (1..N)
  BY DEF Table!HostsUp, Table!Slots
<1>3. ASSUME NEW c \in DOMAIN calls, NEW h \in calls[c].pending, Answer(c, h)
      PROVE  CallsInv'
  <2>1. CASE UNCHANGED calls
    BY <2>1 DEF CallsInv, CallInv
  <2>2. ASSUME NEW err \in BOOLEAN,
               calls' = [calls EXCEPT ![c] = SummedUp(Counted(@, h, err))]
        PROVE  CallsInv'
    <3>1. CallInv(SummedUp(Counted(calls[c], h, err)))
      BY AnsweredInv DEF CallsInv
    <3>2. SummedUp(Counted(calls[c], h, err)) \in Call
      BY <3>1 DEF CallInv
    <3>3. /\ calls' \in Seq(Call) /\ DOMAIN calls' = DOMAIN calls
          /\ \A d \in DOMAIN calls : calls'[d] =
               IF d = c THEN SummedUp(Counted(calls[c], h, err)) ELSE calls[d]
      BY <2>2, <3>2 DEF CallsInv
    <3> QED BY <3>1, <3>3 DEF CallsInv, CallInv
  <2> QED BY <1>3, <2>1, <2>2 DEF Answer
<1>4. CASE UNCHANGED calls
  BY <1>4 DEF CallsInv, CallInv
<1>5. CASE Quit \/ AskCount \/ AskFlag \/ Revive \/ Enter \/ Elsewhere
           \/ (\E d \in Digits : Digit(d)) \/ (\E isQuit \in BOOLEAN : Unexpected(isQuit))
           \/ UNCHANGED vars
  BY <1>4, <1>5 DEF Quit, AskCount, AskFlag, Revive, Enter, Elsewhere, Digit, Unexpected, vars
<1>6. CASE Command
  BY <1>1, <1>2, <1>6 DEF Command
<1>7. CASE Flag
  BY <1>1, <1>2, <1>7 DEF Flag
<1> QED BY <1>3, <1>5, <1>6, <1>7 DEF Next

(* Every summary is printed once, in full and not before the last answer.  *)
THEOREM OneSummary == Spec => []OneFullSummary
<1>1. Init => CallsInv
  BY DEF Init, CallsInv
<1>2. CallsInv => OneFullSummary
  BY DEF CallsInv, CallInv, OneFullSummary
<1> QED BY <1>1, <1>2, NextCalls, PTL DEF Spec

----------------------------------------------------------------------------
(* The prompt: a count is asked for by one of three keys.                  *)
PromptTypes ==
    /\ state \in {"top", "readnum", "readchar"}
    /\ func \in CountFuncs \cup {"null", "debugSet"}
    /\ state = "readnum" => func \in CountFuncs
    /\ num \in Nat
    /\ typed \in [func: CountFuncs \cup {"null"}, digits: Seq(Digits)]
    /\ quits \in Nat

LEMMA NextPromptTypes == PromptTypes /\ [Next]_vars => PromptTypes'
<1> SUFFICES ASSUME PromptTypes, [Next]_vars PROVE PromptTypes'
  OBVIOUS
<1> USE DEF PromptTypes
<1>1. NotTyped \in [func: CountFuncs \cup {"null"}, digits: Seq(Digits)]
  BY DEF NotTyped
<1>2. CASE Quit \/ Command \/ Revive
  <2>1. UNCHANGED prompt /\ quits' \in {0, quits + 1}
    BY <1>2, Zenon DEF Quit, Command, Revive
  <2> QED BY <2>1 DEF prompt
<1>3. CASE AskCount
  <2>1. [func |-> func', digits |-> <<>>] \in [func: CountFuncs \cup {"null"}, digits: Seq(Digits)]
    BY <1>3 DEF AskCount
  <2> QED BY <1>3, <2>1 DEF AskCount
<1>4. CASE AskFlag
  BY <1>4 DEF AskFlag
<1>5. ASSUME NEW d \in Digits, Digit(d) PROVE PromptTypes'
  <2>1. /\ num' = num * 10 + d /\ quits' = 0 /\ UNCHANGED <<state, func>>
        /\ typed' = [typed EXCEPT !.digits = Append(@, d)]
    BY <1>5, Zenon DEF Digit
  <2>2. num' \in Nat
    <3>1. d \in 0..9
      BY PromptAssumption, Zenon
    <3> HIDE DEF PromptTypes
    <3>2. num \in Nat
      BY Zenon DEF PromptTypes
    <3> QED BY <2>1, <3>1, <3>2
  <2>3. typed.digits \in Seq(Digits) /\ Append(typed.digits, d) \in Seq(Digits)
    OBVIOUS
  <2>4. typed' \in [func: CountFuncs \cup {"null"}, digits: Seq(Digits)]
    BY <2>1, <2>3, Zenon
  <2> QED BY <2>1, <2>2, <2>4
<1>6. CASE Enter \/ Flag
  <2>1. /\ state' = "top" /\ typed' = NotTyped /\ func' = "null" /\ quits' = 0
        /\ num' \in {0, num}
    BY <1>6, Zenon DEF Enter, Flag, ToTop
  <2> QED BY <1>1, <2>1
<1>7. ASSUME NEW isQuit \in BOOLEAN, Unexpected(isQuit) PROVE PromptTypes'
  BY <1>1, <1>7 DEF Unexpected, ToTop
<1>8. CASE \/ UNCHANGED vars \/ Elsewhere
           \/ \E c \in DOMAIN calls : \E h \in calls[c].pending : Answer(c, h)
  BY <1>8 DEF vars, prompt, Elsewhere, Answer
<1> QED BY <1>2, <1>3, <1>4, <1>5, <1>6, <1>7, <1>8 DEF Next

(* The type invariant of the keyboard.                                     *)
THEOREM TypeCorrect == Spec => []TypeOK
<1>1. Init => PromptTypes /\ CallsInv
  BY DEF Init, PromptTypes, NotTyped, CallsInv
<1>2. PromptTypes /\ CallsInv => TypeOK
  BY DEF PromptTypes, CallsInv, TypeOK
<1> QED BY <1>1, <1>2, NextPromptTypes, NextCalls, PTL DEF Spec

----------------------------------------------------------------------------
(* The table's own theorems, for the table under the keyboard.            *)
TableProofs == INSTANCE TickClusterProofs

LEMMA SameAssumption == TableProofs!TickAssumption
BY PromptAssumption DEF TableProofs!TickAssumption

(* The instance with the theorems has the same steps.                      *)
LEMMA SameTable ==
    /\ Table!Init <=> TableProofs!Init
    /\ Table!Next <=> TableProofs!Next
    /\ Table!vars = TableProofs!vars
<1> USE DEF Table!Slots, TableProofs!Slots, Table!Pids, TableProofs!Pids, Table!Active,
   TableProofs!Active, Table!Stopped, TableProofs!Stopped, Table!Reaped,
   TableProofs!Reaped, Table!After, TableProofs!After, Table!PidsOf, TableProofs!PidsOf,
   Table!Signalled, TableProofs!Signalled, Table!SetFlag, TableProofs!SetFlag,
   Table!Throwing, TableProofs!Throwing, Table!Sampled, TableProofs!Sampled,
   Table!Before, TableProofs!Before, Table!ToolAfter, TableProofs!ToolAfter
<1>1. \A slots : Table!KillProc(slots) <=> TableProofs!KillProc(slots)
  BY Zenon DEF Table!KillProc, TableProofs!KillProc
<1>2. \A slots : Table!SuspendProc(slots) <=> TableProofs!SuspendProc(slots)
  BY Zenon DEF Table!SuspendProc, TableProofs!SuspendProc
<1>3. \A slots : Table!TerminateProc(slots) <=> TableProofs!TerminateProc(slots)
  BY Zenon DEF Table!TerminateProc, TableProofs!TerminateProc
<1>4. Table!ReviveProcs <=> TableProofs!ReviveProcs
  BY Zenon DEF Table!ReviveProcs, TableProofs!ReviveProcs, Table!NewProc,
     TableProofs!NewProc, Table!Resumed, TableProofs!Resumed, Table!SetToSeq,
     TableProofs!SetToSeq, Table!Cardinality, TableProofs!Cardinality,
     Table!IsInjective, TableProofs!IsInjective
<1>5. Table!Shutdown <=> TableProofs!Shutdown
  BY Zenon DEF Table!Shutdown, TableProofs!Shutdown
<1>6. Table!CallbackThrows <=> TableProofs!CallbackThrows
  BY Zenon DEF Table!CallbackThrows, TableProofs!CallbackThrows
<1>7. \A pid : Table!HardKill(pid) <=> TableProofs!HardKill(pid)
  BY Zenon DEF Table!HardKill, TableProofs!HardKill
<1>8. \A pid : (Table!ExitByItself(pid) <=> TableProofs!ExitByItself(pid))
              /\ (Table!ExitOnTerm(pid) <=> TableProofs!ExitOnTerm(pid))
  BY Zenon DEF Table!ExitByItself, TableProofs!ExitByItself, Table!ExitOnTerm,
     TableProofs!ExitOnTerm
<1>9. \A pid : Table!Reap(pid) <=> TableProofs!Reap(pid)
  BY Zenon DEF Table!Reap, TableProofs!Reap
<1>10. Table!HostsUp = TableProofs!HostsUp
  BY Zenon DEF Table!HostsUp, TableProofs!HostsUp
<1>11. Table!Init <=> TableProofs!Init
  BY Zenon DEF Table!Init, TableProofs!Init, Table!NewProc, TableProofs!NewProc
<1>12. Table!vars = TableProofs!vars
  BY Zenon DEF Table!vars, TableProofs!vars
<1>13. Table!Next <=> TableProofs!Next
  BY <1>1, <1>2, <1>3, <1>4, <1>5, <1>6, <1>7, <1>8, <1>9, <1>10, SMT
     DEF Table!Next, TableProofs!Next, Table!Keys, TableProofs!Keys
<1> QED BY <1>11, <1>12, <1>13

(* What TickClusterProofs shows of the table holds of the tool with its keyboard. *)
THEOREM TableKept ==
    Spec => [](/\ Table!TypeOK /\ Table!NoTwins
               /\ Table!SuspendedIsStopped /\ Table!ExitLeavesNone)
<1>1. Init => TableProofs!IInv
  BY SameAssumption, SameTable, TableProofs!InitInv, Zenon DEF Init
<1>2. TableProofs!IInv /\ [Next]_vars => TableProofs!IInv'
  <2>1. [Next]_vars => [TableProofs!Next]_(TableProofs!vars)
    BY SameTable, StepOfTable, Zenon DEF Table!vars, TableProofs!vars
  <2>2. TableProofs!IInv /\ [TableProofs!Next]_(TableProofs!vars) => TableProofs!IInv'
    BY SameAssumption, TableProofs!NextInv
  <2> QED BY <2>1, <2>2
<1>3. TableProofs!IInv => Table!TypeOK /\ Table!NoTwins /\ Table!SuspendedIsStopped
                            /\ Table!ExitLeavesNone
  <2> SUFFICES ASSUME TableProofs!IInv PROVE Table!TypeOK /\ Table!NoTwins
                            /\ Table!SuspendedIsStopped /\ Table!ExitLeavesNone
    OBVIOUS
  <2> USE DEF Table!Slots, TableProofs!Slots, Table!Pids, TableProofs!Pids, Table!Lives,
        TableProofs!Lives, Table!Active, TableProofs!Active, Table!Stopped, TableProofs!Stopped
  <2>1. TableProofs!TypeOK <=> Table!TypeOK
    BY Zenon DEF TableProofs!TypeOK, Table!TypeOK, Table!Entry, TableProofs!Entry
  <2>2. TableProofs!NoTwins <=> Table!NoTwins
    BY Zenon DEF TableProofs!NoTwins, Table!NoTwins
  <2>3. TableProofs!SuspendedIsStopped <=> Table!SuspendedIsStopped
    BY Zenon DEF TableProofs!SuspendedIsStopped, Table!SuspendedIsStopped
  <2>4. TableProofs!ExitLeavesNone <=> Table!ExitLeavesNone
    BY Zenon DEF TableProofs!ExitLeavesNone, Table!ExitLeavesNone
  <2>5. TableProofs!NoTwins
    BY DEF TableProofs!IInv, TableProofs!LiveIsCurrent, TableProofs!NoTwins
  <2> QED BY <2>1, <2>2, <2>3, <2>4, <2>5 DEF TableProofs!IInv
<1> QED BY <1>1, <1>2, <1>3, PTL DEF Spec

----------------------------------------------------------------------------
(* The number that is typed: the fold of the digits, by the function over  *)
(* sets of positions that the fold is defined with.                        *)
Decimal(digits) == FoldLeft(LAMBDA n, d : 10 * n + d, 0, digits)

(* The function that the fold is defined with, over the sets of positions. *)
Folds(f, n, s) ==
    f = [S \in SUBSET (1..n) |-> IF S = {} THEN 0 ELSE 10 * f[S \ {Max(S)}] + s[Max(S)]]

LEMMA DecimalIs ==
    ASSUME NEW digits, NEW n, DOMAIN digits = 1..n, \E f : Folds(f, n, digits)
    PROVE  \E f : Folds(f, n, digits) /\ Decimal(digits) = f[1..n]
<1> DEFINE iter == CHOOSE f : Folds(f, n, digits)
<1>1. Folds(iter, n, digits)
  BY Zenon
<1>2. Decimal(digits) = iter[1..n]
  BY Zenon DEF Decimal, FoldLeft, MapThenFoldSet, Folds
<1> QED BY <1>1, <1>2

LEMMA Least ==
    ASSUME NEW S \in SUBSET Nat, S # {}
    PROVE  \E x \in S : \A y \in S : x <= y
<1>1. PICK x \in S : \A y \in S : ~(<<y, x>> \in OpToRel(<, Nat))
  BY NatLessThanWellFounded, WFMin
<1>2. ASSUME NEW y \in S, y < x PROVE FALSE
  <2>1. <<y, x>> \in Nat \X Nat /\ <<y, x>>[1] < <<y, x>>[2]
    BY <1>2
  <2> QED BY <1>1, <2>1, Zenon DEF OpToRel
<1> QED BY <1>2

LEMMA MaxOfInterval ==
    ASSUME NEW n \in Nat, NEW S \in SUBSET (1..(n + 1)), n + 1 \in S
    PROVE  Max(S) = n + 1
<1>1. \A y \in S : n + 1 >= y
  OBVIOUS
<1>2. \A x \in S : x >= n + 1 => x = n + 1
  OBVIOUS
<1>3. Max(S) \in S /\ \A y \in S : Max(S) >= y
  BY <1>1, Zenon DEF Max
<1> QED BY <1>2, <1>3

LEMMA Interval ==
    ASSUME NEW n \in Nat
    PROVE  /\ (1..(n + 1)) \ {n + 1} = 1..n /\ n + 1 \in 1..(n + 1)
           /\ 1..(n + 1) # {} /\ 1..n \in SUBSET (1..(n + 1))
<1>1. n + 1 \in 1..(n + 1)
  OBVIOUS
<1>2. \A i : i \in 1..n <=> i \in (1..(n + 1)) \ {n + 1}
  OBVIOUS
<1>3. (1..(n + 1)) \ {n + 1} = 1..n
  BY <1>2, Zenon
<1> QED BY <1>1, <1>2, <1>3, Zenon

LEMMA FoldGrows ==
    ASSUME NEW s, NEW n \in Nat, NEW f, Folds(f, n, s)
    PROVE  \E g : Folds(g, n + 1, s)
<1> DEFINE new == 10 * f[{}] + s[n + 1]
           g == [S \in SUBSET (1..(n + 1)) |->
                   IF n + 1 \in S THEN 10 * f[S \ {n + 1}] + s[n + 1] ELSE f[S]]
           h == [S \in SUBSET (1..(n + 1)) |->
                   IF S = {} THEN 0 ELSE 10 * g[S \ {Max(S)}] + s[Max(S)]]
<1>1. ASSUME NEW S \in SUBSET (1..(n + 1)) PROVE g[S] = h[S]
  <2>1. CASE n + 1 \in S
    <3>1. Max(S) = n + 1
      BY <2>1, MaxOfInterval
    <3>2. S \ {n + 1} \in SUBSET (1..(n + 1)) /\ n + 1 \notin S \ {n + 1}
      OBVIOUS
    <3>3. g[S \ {n + 1}] = f[S \ {n + 1}]
      BY <3>2, Zenon
    <3>4. g[S] = 10 * f[S \ {n + 1}] + s[n + 1] /\ S # {}
      BY <2>1, Zenon
    <3> QED BY <3>1, <3>3, <3>4, Zenon
  <2>2. CASE n + 1 \notin S
    <3>1. S \in SUBSET (1..n)
      BY <2>2
    <3>2. f[S] = IF S = {} THEN 0 ELSE 10 * f[S \ {Max(S)}] + s[Max(S)]
      BY <3>1, Zenon DEF Folds
    <3>3. S \ {Max(S)} \in SUBSET (1..(n + 1)) /\ n + 1 \notin S \ {Max(S)}
      BY <2>2
    <3>4. g[S \ {Max(S)}] = f[S \ {Max(S)}] /\ g[S] = f[S]
      BY <2>2, <3>3, Zenon
    <3> QED BY <3>2, <3>4, Zenon
  <2> QED BY <2>1, <2>2
<1>2. g = h
  BY <1>1, Zenon
<1> QED BY <1>2, Zenon DEF Folds

LEMMA FoldExists ==
    ASSUME NEW s, NEW n \in Nat
    PROVE  \E f : Folds(f, n, s)
<1> DEFINE Bad == {k \in Nat : ~ \E f : Folds(f, k, s)}
<1>1. ASSUME Bad # {} PROVE FALSE
  <2>1. PICK k \in Bad : \A j \in Bad : k <= j
    BY <1>1, Least
  <2>2. k # 0
    <3> DEFINE f == [S \in SUBSET (1..0) |-> 0]
    <3>1. \A S \in SUBSET (1..0) : S = {}
      OBVIOUS
    <3>2. Folds(f, 0, s)
      BY <3>1, Zenon DEF Folds
    <3> QED BY <3>2
  <2>3. k - 1 \in Nat /\ k - 1 \notin Bad /\ k = (k - 1) + 1
    BY <2>1, <2>2
  <2>4. PICK f : Folds(f, k - 1, s)
    BY <2>3
  <2>5. \E g : Folds(g, (k - 1) + 1, s)
    BY <2>3, <2>4, FoldGrows
  <2> QED BY <2>3, <2>5
<1> QED BY <1>1

(* The fold of a prefix does not depend on what is behind it.              *)
LEMMA FoldOfPrefix ==
    ASSUME NEW n \in Nat, NEW s, NEW t, NEW f, NEW g, Folds(f, n, s), Folds(g, n + 1, t),
           \A i \in 1..n : s[i] = t[i]
    PROVE  f[1..n] = g[1..n]
<1> DEFINE Bad == {k \in 0..n : f[1..k] # g[1..k]}
<1>1. ASSUME Bad # {} PROVE FALSE
  <2>1. PICK k \in Bad : \A j \in Bad : k <= j
    <3>1. Bad \in SUBSET Nat
      OBVIOUS
    <3> QED BY <1>1, <3>1, Least
  <2>2. k # 0
    <3>1. f[{}] = 0 /\ g[{}] = 0
      BY Zenon DEF Folds
    <3>2. 1..0 = {}
      OBVIOUS
    <3> QED BY <2>1, <3>1, <3>2
  <2>3. k - 1 \in 0..n /\ k - 1 \notin Bad /\ k = (k - 1) + 1
    BY <2>1, <2>2
  <2>4. /\ 1..k \in SUBSET (1..n) /\ 1..k \in SUBSET (1..(n + 1)) /\ 1..k # {}
        /\ (1..k) \ {k} = 1..(k - 1) /\ k \in 1..n
    <3>1. k - 1 \in Nat /\ k \in 1..n
      BY <2>1, <2>3
    <3>2. (1..k) \ {k} = 1..(k - 1) /\ 1..k # {}
      BY <2>3, <3>1, Interval
    <3>3. 1..k \in SUBSET (1..n) /\ 1..k \in SUBSET (1..(n + 1))
      BY <3>1
    <3> QED BY <3>1, <3>2, <3>3
  <2>5. Max(1..k) = k
    <3>1. 1..k \in SUBSET (1..((k - 1) + 1)) /\ (k - 1) + 1 \in 1..k /\ k - 1 \in Nat
      BY <2>3, <2>4
    <3> QED BY <2>3, <3>1, MaxOfInterval
  <2>6. f[1..k] = 10 * f[1..(k - 1)] + s[k] /\ g[1..k] = 10 * g[1..(k - 1)] + t[k]
    BY <2>4, <2>5, Zenon DEF Folds
  <2>7. f[1..(k - 1)] = g[1..(k - 1)]
    BY <2>3
  <2> QED BY <2>4, <2>6, <2>7
<1> QED BY <1>1

LEMMA NextDigit ==
    ASSUME NEW digits \in Seq(Nat), NEW d \in Nat
    PROVE  Decimal(Append(digits, d)) = 10 * Decimal(digits) + d
<1> DEFINE n == Len(digits)
           more == Append(digits, d)
<1>1. /\ n \in Nat /\ DOMAIN digits = 1..n /\ DOMAIN more = 1..(n + 1)
      /\ \A i \in 1..n : digits[i] = more[i]
      /\ more[n + 1] = d
  OBVIOUS
<1> HIDE DEF n, more
<1>2. PICK f : Folds(f, n, digits) /\ Decimal(digits) = f[1..n]
  BY <1>1, FoldExists, DecimalIs
<1>3. PICK g : Folds(g, n + 1, more) /\ Decimal(more) = g[1..(n + 1)]
  <2>1. n + 1 \in Nat
    BY <1>1
  <2> QED BY <1>1, <2>1, FoldExists, DecimalIs
<1>4. g[1..(n + 1)] = 10 * g[1..n] + more[n + 1]
  <2>1. (1..(n + 1)) \ {n + 1} = 1..n /\ n + 1 \in 1..(n + 1) /\ 1..(n + 1) # {}
    BY <1>1, Interval
  <2>2. Max(1..(n + 1)) = n + 1
    BY <1>1, <2>1, MaxOfInterval
  <2>3. 1..(n + 1) \in SUBSET (1..(n + 1))
    OBVIOUS
  <2>4. g[1..(n + 1)] = 10 * g[1..(n + 1) \ {Max(1..(n + 1))}] + more[Max(1..(n + 1))]
    BY <1>3, <2>1, <2>3, Zenon DEF Folds
  <2> QED BY <2>1, <2>2, <2>4
<1>5. f[1..n] = g[1..n]
  <2>1. Folds(f, n, digits) /\ Folds(g, n + 1, more)
    BY <1>2, <1>3
  <2>2. n \in Nat /\ \A i \in 1..n : digits[i] = more[i]
    BY <1>1
  <2> QED BY <2>1, <2>2, FoldOfPrefix
<1> QED BY <1>1, <1>2, <1>3, <1>4, <1>5 DEF more

LEMMA NoDigit == Decimal(<<>>) = 0
<1>1. DOMAIN <<>> = 1..0
  OBVIOUS
<1>2. PICK f : Folds(f, 0, <<>>) /\ Decimal(<<>>) = f[1..0]
  BY <1>1, FoldExists, DecimalIs
<1>3. f[{}] = 0 /\ 1..0 = {}
  BY <1>2 DEF Folds
<1> QED BY <1>2, <1>3

----------------------------------------------------------------------------
(* In a prompt for a count, num is what the digits say; elsewhere it is 0. *)
Counting ==
    /\ state # "readnum" => num = 0
    /\ state = "readnum" => num = Decimal(typed.digits) /\ typed.func = func

LEMMA NextCounting == PromptTypes /\ Counting /\ [Next]_vars => Counting'
<1> SUFFICES ASSUME PromptTypes, Counting, [Next]_vars PROVE Counting'
  OBVIOUS
<1>1. CASE UNCHANGED prompt
  BY <1>1 DEF Counting, prompt
<1>2. CASE \/ Quit \/ Command \/ Revive \/ Elsewhere \/ UNCHANGED vars
           \/ \E c \in DOMAIN calls : \E h \in calls[c].pending : Answer(c, h)
  BY <1>1, <1>2, Zenon DEF Quit, Command, Revive, Elsewhere, Answer, vars
<1>3. CASE AskCount
  <2>1. typed'.digits = <<>> /\ typed'.func = func' /\ num' = num /\ num = 0
    BY <1>3 DEF AskCount, AtTop, Counting
  <2> QED BY <1>3, <2>1, NoDigit DEF AskCount, Counting
<1>4. CASE AskFlag
  BY <1>4 DEF AskFlag, AtTop, Counting
<1>5. ASSUME NEW d \in Digits, Digit(d) PROVE Counting'
  <2>1. d \in Nat /\ typed.digits \in Seq(Nat)
    <3>1. typed.digits \in Seq(Digits)
      BY DEF PromptTypes
    <3>2. \A e \in Digits : e \in Nat
      BY PromptAssumption
    <3>3. Len(typed.digits) \in Nat /\ DOMAIN typed.digits = 1..Len(typed.digits)
          /\ \A i \in 1..Len(typed.digits) : typed.digits[i] \in Digits
      BY <3>1
    <3> QED BY <3>1, <3>2, <3>3
  <2>2. /\ typed' = [typed EXCEPT !.digits = Append(@, d)] /\ num' = num * 10 + d
        /\ UNCHANGED <<state, func>> /\ state = "readnum"
    BY <1>5, Zenon DEF Digit
  <2>3. typed'.digits = Append(typed.digits, d) /\ typed'.func = typed.func
    BY <2>2 DEF PromptTypes
  <2>4. Decimal(typed'.digits) = 10 * Decimal(typed.digits) + d
    BY <2>1, <2>3, NextDigit
  <2>5. num = Decimal(typed.digits) /\ typed.func = func /\ num \in Nat
    BY <2>2 DEF Counting, PromptTypes
  <2>6. num' = Decimal(typed'.digits)
    BY <2>1, <2>2, <2>4, <2>5
  <2> QED BY <2>2, <2>3, <2>5, <2>6 DEF Counting
<1>6. CASE Enter
  BY <1>6 DEF Enter, ToTop, Counting
<1>7. CASE Flag
  BY <1>7 DEF Flag, ToTop, Counting
<1>8. ASSUME NEW isQuit \in BOOLEAN, Unexpected(isQuit) PROVE Counting'
  BY <1>8 DEF Unexpected, ToTop, Counting
<1> QED BY <1>2, <1>3, <1>4, <1>5, <1>6, <1>7, <1>8 DEF Next

LEMMA UpSamples ==
    ASSUME NEW count \in Nat, NEW slots \in Samples(count)
    PROVE  /\ slots \subseteq Table!HostsUp /\ slots \in SUBSET (1..N)
           /\ Cardinality(slots) = IF count <= Cardinality(Table!HostsUp) THEN count
                                   ELSE Cardinality(Table!HostsUp)
BY DEF Samples, Table!HostsUp, Table!Slots

(* What SIGKILL and the flags do to the entries that are hit.              *)
LEMMA KillHits ==
    ASSUME Table!TypeOK, NEW slots \in SUBSET Table!HostsUp, Table!KillProc(slots),
           tool' = "up"
    PROVE  /\ Hit("killProc") = slots
           /\ Hit("suspendProc") = {} /\ Hit("terminateProc") = {}
<1>1. Table!Throwing(slots) = {} /\ hardKill' = hardKill
  BY DEF Table!KillProc, Table!ToolAfter
<1>2. os' = Table!Signalled(slots, "KILL") /\ procs' = Table!SetFlag(slots, "killed", TRUE)
  BY <1>1, Zenon DEF Table!KillProc, Table!Sampled
<1>3. procs \in [1..N -> Table!Entry] /\ \A i \in 1..N : procs[i].pid \in DOMAIN os
  BY DEF Table!TypeOK, Table!Slots, Table!Pids
<1>4. \A i \in 1..N : /\ procs'[i].pid = procs[i].pid
                      /\ procs'[i].suspended = procs[i].suspended
                      /\ i \in slots => procs'[i].killed = TRUE
                      /\ i \notin slots => procs'[i].killed = procs[i].killed
  BY <1>2, <1>3 DEF Table!SetFlag, Table!Slots, Table!Entry
<1>5. \A i \in slots : i \in 1..N /\ ~procs[i].killed /\ os[procs[i].pid] # "reaped"
  BY <1>1 DEF Table!HostsUp, Table!Slots, Table!Throwing, Table!Reaped
<1>6. \A i \in slots : os'[procs[i].pid] # "reaped"
  <2> TAKE i \in slots
  <2>1. procs[i].pid \in Table!Pids /\ procs[i].pid \in Table!PidsOf(slots)
    BY <1>3, <1>5 DEF Table!PidsOf, Table!Pids
  <2>2. os'[procs[i].pid] = Table!After(os[procs[i].pid], "KILL")
    BY <1>2, <2>1 DEF Table!Signalled
  <2> QED BY <1>5, <2>2 DEF Table!After
<1>7. \A i \in 1..N : i \in Hit("killProc") <=> i \in slots
  BY <1>4, <1>5, <1>6 DEF Hit, Table!Reaped
<1>8. Hit("killProc") \subseteq 1..N /\ slots \subseteq 1..N
  BY DEF Hit, Table!HostsUp, Table!Slots
<1>9. Hit("suspendProc") = {}
  BY <1>4 DEF Hit
<1>10. Hit("terminateProc") = {}
  BY <1>1 DEF Hit
<1> QED BY <1>7, <1>8, <1>9, <1>10

LEMMA SuspendHits ==
    ASSUME Table!TypeOK, NEW slots \in SUBSET Table!HostsUp, Table!SuspendProc(slots),
           tool' = "up"
    PROVE  /\ Hit("suspendProc") = slots
           /\ Hit("killProc") = {} /\ Hit("terminateProc") = {}
<1>1. Table!Throwing(slots) = {} /\ hardKill' = hardKill
  BY DEF Table!SuspendProc, Table!ToolAfter
<1>2. procs' = Table!SetFlag(slots, "suspended", TRUE)
  BY <1>1, Zenon DEF Table!SuspendProc, Table!Sampled
<1>3. procs \in [1..N -> Table!Entry]
  BY DEF Table!TypeOK, Table!Slots
<1>4. \A i \in 1..N : /\ procs'[i].killed = procs[i].killed
                      /\ i \in slots => procs'[i].suspended = TRUE
                      /\ i \notin slots => procs'[i].suspended = procs[i].suspended
  BY <1>2, <1>3 DEF Table!SetFlag, Table!Slots, Table!Entry
<1>5. \A i \in slots : i \in 1..N /\ ~procs[i].suspended
  BY DEF Table!HostsUp, Table!Slots
<1>6. Hit("suspendProc") = slots
  BY <1>4, <1>5 DEF Hit
<1>7. Hit("killProc") = {}
  BY <1>4 DEF Hit
<1>8. Hit("terminateProc") = {}
  BY <1>1 DEF Hit
<1> QED BY <1>6, <1>7, <1>8

LEMMA TerminateHits ==
    ASSUME NEW slots \in SUBSET Table!HostsUp, Table!TerminateProc(slots)
    PROVE  /\ Cardinality(Hit("terminateProc")) <= Cardinality(slots)
           /\ Hit("killProc") = {} /\ Hit("suspendProc") = {}
<1>1. procs' = procs /\ hardKill' = hardKill \cup Table!PidsOf(slots)
  BY DEF Table!TerminateProc
<1>2. IsFiniteSet(slots) /\ Cardinality(slots) \in Nat
  <2>1. slots \in SUBSET (1..N)
    BY DEF Table!HostsUp, Table!Slots
  <2> QED BY <2>1, Cardinals
<1>3. IsFiniteSet(Table!PidsOf(slots)) /\ Cardinality(Table!PidsOf(slots)) <= Cardinality(slots)
  <2> DEFINE f == [i \in slots |-> procs[i].pid]
  <2>1. f \in Surjection(slots, Table!PidsOf(slots))
    BY DEF Surjection, Table!PidsOf
  <2> QED BY <1>2, <2>1, FS_Surjection, Zenon
<1>4. Hit("terminateProc") \subseteq Table!PidsOf(slots)
  BY <1>1 DEF Hit
<1>5. Cardinality(Hit("terminateProc")) <= Cardinality(Table!PidsOf(slots))
      /\ Cardinality(Hit("terminateProc")) \in Nat /\ Cardinality(Table!PidsOf(slots)) \in Nat
  BY <1>3, <1>4, FS_Subset, FS_CardinalityType
<1>6. Hit("killProc") = {} /\ Hit("suspendProc") = {}
  BY <1>1 DEF Hit
<1> QED BY <1>2, <1>3, <1>5, <1>6

(* No other step hits an entry: an exit marks what is reaped by then.      *)
LEMMA QuietHits ==
    ASSUME hardKill' \subseteq hardKill,
           \A i \in 1..N : procs'[i].suspended => procs[i].suspended,
           \A i \in 1..N : procs'[i].killed => \/ procs[i].killed
                                               \/ Table!Reaped(procs[i].pid)'
                                                  /\ ~Table!Reaped(procs[i].pid)
    PROVE  \A by \in CountFuncs : Hit(by) = {}
<1>1. Hit("killProc") = {}
  BY DEF Hit
<1>2. Hit("suspendProc") = {}
  BY DEF Hit
<1>3. Hit("terminateProc") = {}
  BY DEF Hit
<1> QED BY <1>1, <1>2, <1>3 DEF CountFuncs

LEMMA ReapHits ==
    ASSUME Table!TypeOK, NEW pid \in Table!Pids, Table!Reap(pid)
    PROVE  \A by \in CountFuncs : Hit(by) = {}
<1>1. procs \in [1..N -> Table!Entry]
  BY DEF Table!TypeOK, Table!Slots
<1>2. os[pid] = "exiting" /\ os' = [os EXCEPT ![pid] = "reaped"] /\ pid \in DOMAIN os
  BY DEF Table!Reap, Table!Pids
<1>3. CASE pid \notin onExit
  <2>1. UNCHANGED <<hardKill, procs>>
    BY <1>3 DEF Table!Reap
  <2> QED BY <2>1, QuietHits
<1>4. CASE pid \in onExit
  <2> DEFINE own == {i \in Table!Slots : procs[i].pid = pid}
  <2>1. hardKill' = hardKill \ {pid} /\ procs' = Table!SetFlag(own, "killed", TRUE)
    BY <1>4, Zenon DEF Table!Reap
  <2>2. \A i \in 1..N : /\ procs'[i].pid = procs[i].pid
                        /\ procs'[i].suspended = procs[i].suspended
                        /\ i \notin own => procs'[i].killed = procs[i].killed
    BY <1>1, <2>1 DEF Table!SetFlag, Table!Slots, Table!Entry
  <2>3. \A i \in own : Table!Reaped(procs[i].pid)' /\ ~Table!Reaped(procs[i].pid)
    BY <1>2, <2>2 DEF Table!Reaped, Table!Slots
  <2>4. \A i \in 1..N : procs'[i].killed => \/ procs[i].killed
                                            \/ Table!Reaped(procs[i].pid)'
                                               /\ ~Table!Reaped(procs[i].pid)
    BY <2>2, <2>3
  <2> QED BY <2>1, <2>2, <2>4, QuietHits
<1> QED BY <1>3, <1>4

LEMMA ReviveHits ==
    ASSUME Table!TypeOK, Table!ReviveProcs
    PROVE  \A by \in CountFuncs : Hit(by) = {}
<1>1. procs \in [1..N -> Table!Entry] /\ hardKill' = hardKill
  BY DEF Table!TypeOK, Table!Slots, Table!ReviveProcs
<1>2. \A i \in 1..N : \/ procs'[i] = procs[i] \/ procs'[i] = Table!Resumed(procs[i])
                      \/ \E pid : procs'[i] = Table!NewProc(pid)
  BY DEF Table!ReviveProcs, Table!Slots
<1>3. \A i \in 1..N : /\ procs'[i].suspended => procs[i].suspended
                      /\ procs'[i].killed => procs[i].killed
  <2> TAKE i \in 1..N
  <2>1. procs[i] \in Table!Entry
    BY <1>1
  <2>2. ASSUME NEW pid, procs'[i] = Table!NewProc(pid)
        PROVE  ~procs'[i].suspended /\ ~procs'[i].killed
    BY <2>2 DEF Table!NewProc
  <2>3. CASE procs'[i] = Table!Resumed(procs[i])
    BY <2>1, <2>3 DEF Table!Resumed, Table!Entry
  <2> QED BY <1>2, <2>2, <2>3
<1> QED BY <1>1, <1>3, QuietHits

LEMMA EnterHits ==
    ASSUME PromptTypes, Table!TypeOK, Counting, Enter, tool' = "up", NEW by \in CountFuncs,
           Hit(by) # {}
    PROVE  /\ typed.func = by
           /\ by # "terminateProc" => Cardinality(Hit(by)) = CountTyped
           /\ by = "terminateProc" => Cardinality(Hit(by)) <= CountTyped
<1>1. num = Decimal(typed.digits) /\ typed.func = func /\ num \in Nat
  BY DEF Enter, Counting, PromptTypes
<1>2. PICK slots \in Samples(num) :
         \/ func = "suspendProc"   /\ Table!SuspendProc(slots)
         \/ func = "killProc"      /\ Table!KillProc(slots)
         \/ func = "terminateProc" /\ Table!TerminateProc(slots)
  BY DEF Enter
<1>3. slots \in SUBSET Table!HostsUp /\ Cardinality(slots) = CountTyped
  <2>1. CountTyped = IF Decimal(typed.digits) <= Cardinality(Table!HostsUp)
                     THEN Decimal(typed.digits) ELSE Cardinality(Table!HostsUp)
    BY Zenon DEF CountTyped, Decimal
  <2> QED BY <1>1, <2>1, UpSamples
<1>4. CASE func = "suspendProc" /\ Table!SuspendProc(slots)
  BY <1>1, <1>3, <1>4, SuspendHits DEF CountFuncs
<1>5. CASE func = "killProc" /\ Table!KillProc(slots)
  BY <1>1, <1>3, <1>5, KillHits DEF CountFuncs
<1>6. CASE func = "terminateProc" /\ Table!TerminateProc(slots)
  BY <1>1, <1>3, <1>6, TerminateHits DEF CountFuncs
<1> QED BY <1>2, <1>4, <1>5, <1>6

LEMMA StepHits ==
    ASSUME PromptTypes, Table!TypeOK, Counting, [Next]_vars, NEW by \in CountFuncs,
           Hit(by) # {}, tool' = "up"
    PROVE  /\ typed.func = by
           /\ by # "terminateProc" => Cardinality(Hit(by)) = CountTyped
           /\ by = "terminateProc" => Cardinality(Hit(by)) <= CountTyped
<1>1. ASSUME UNCHANGED procs, hardKill' \subseteq hardKill PROVE FALSE
  BY <1>1, QuietHits
<1>2. CASE UNCHANGED table
  BY <1>1, <1>2 DEF table
<1>3. CASE \/ Command \/ AskCount \/ AskFlag \/ Flag \/ UNCHANGED vars
           \/ (\E d \in Digits : Digit(d)) \/ (\E isQuit \in BOOLEAN : Unexpected(isQuit))
  BY <1>2, <1>3, Zenon DEF Command, AskCount, AskFlag, Flag, Send, Digit, Unexpected, vars
<1>4. CASE Quit
  BY <1>1, <1>4 DEF Quit, Table!Shutdown
<1>5. CASE Revive
  BY <1>5, ReviveHits DEF Revive
<1>6. CASE \E c \in DOMAIN calls : \E h \in calls[c].pending : Answer(c, h)
  BY <1>1, <1>2, <1>6 DEF Answer, Table!CallbackThrows
<1>7. CASE Elsewhere
  <2>1. CASE Table!Shutdown
    BY <1>1, <2>1 DEF Table!Shutdown
  <2>2. ASSUME NEW pid \in Table!Pids,
               Table!HardKill(pid) \/ Table!ExitByItself(pid) \/ Table!ExitOnTerm(pid)
        PROVE  FALSE
    BY <1>1, <2>2 DEF Table!HardKill, Table!ExitByItself, Table!ExitOnTerm
  <2>3. ASSUME NEW pid \in Table!Pids, Table!Reap(pid) PROVE FALSE
    BY <2>3, ReapHits
  <2> QED BY <1>7, <2>1, <2>2, <2>3 DEF Elsewhere
<1> QED BY <1>3, <1>4, <1>5, <1>6, <1>7, EnterHits DEF Next

(* The count that was typed is the number of processes that are hit.       *)
THEOREM CountedHits == Spec => HitsAsTyped
<1>1. Init => PromptTypes /\ Counting
  BY DEF Init, PromptTypes, NotTyped, Counting
<1>2. PromptTypes /\ Counting /\ Table!TypeOK /\ [Next]_vars =>
        [\A by \in CountFuncs :
           Hit(by) # {} /\ tool' = "up" =>
              /\ typed.func = by
              /\ by # "terminateProc" => Cardinality(Hit(by)) = CountTyped
              /\ by = "terminateProc" => Cardinality(Hit(by)) <= CountTyped]_vars
  BY StepHits, Zenon
<1> QED BY <1>1, <1>2, NextPromptTypes, NextCounting, TableKept, PTL DEF Spec, HitsAsTyped
=============================================================================
