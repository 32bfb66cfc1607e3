# A TLA+ model of ringpop-common

This directory holds TLA+ specifications of the programs of this repository,
the TLC configurations that check them on small instances, and proofs that the
TLA+ proof system checks for all instances. ringpop-common is not ringpop: it is
what the implementations of ringpop share, an integration test suite, an
orchestrator for tests of whole clusters, and tools to run a cluster by hand.

## Inventory

| component | source | state | operations | what is hard |
|---|---|---|---|---|
| scheme runner | `test/ringpop-assert.js` (`validate`), closures there and in the `*-tests.js` | cursor, `inProgress`, the current event list, all events, deadline timer | run the closure at the cursor, its callback with a list or `null`, an event, completion, timeout, crash of the system under test (SUT) | callbacks into the runner from inside its own calls; closures that capture and edit the shared list; answers racing the deadline; requests that never call back |
| test coordinator | `test/test-coordinator.js` | SUT process, fake nodes, the admin channel, emitter | start, admin requests, exit of the SUT, shutdown | order of emit and callback, exits |
| fake nodes and handlers | `test/fake-node.js`, `test/protocol-*.js` | address, status, incarnation number, enabled | answer join, ping, ping-req; send them | errors that swallow the callback |
| membership checksum, piggybacks and incarnation numbers | `test/membership-checksum.js`, `ringpop-assert.js` 1056-1104 | incarnation numbers | checksum of a membership, a change to piggyback | which members count, deltas |
| test suite entry | `test/it-tests.js`, `test-util.js`, `events.js`, `util.js` | failure count, feature selection | select and require the tests | the exit code |
| stat ingester | `cluster-test/test-orchestrator/stat_ingester.go`, `udp_scanner.go`, `command.go` | `emptyNodes`, `wasUnstable`, the file | handle a stat, write it, label, wait for stability | two goroutines, one of them without the lock; lossy, reordering input |
| section scanner and analyses | `section_scanner.go`, `stat_analysis.go` | position in the file | count, checksums, convergence time over a section | prefixes of labels, end of a section |
| measurements, assertions | `measurement.go`, `assertion.go` | none | measure a quantity over a section, hold it against the expected value | errors on the way, values of two types |
| scenario parser | `scenario.go`, `calc.go`, `test_yaml_parser.go` | none | parse, substitute, evaluate | text processing |
| tick-cluster, process control | `tools/tick-cluster.js` 263-266, 385-528 | the table `procs`, child processes, timers | kill, suspend, terminate, revive, quit | exits and timers between keys, signals to processes that are gone |
| tick-cluster, prompt and fan-out | `tools/tick-cluster.js` 70-261, 268-365, 581-614 | prompt state | commands to every host | partial answers |
| make_partition | `tools/make_partition` | firewall rules | make and remove a partition | |
| generate-hosts, dashboards | `tools/generate-hosts.js`, `tools/grafana-dash` | none | write a file, templates | nothing |

How they interact: `it-tests.js` requires the test files; each test makes a
coordinator and fake nodes, starts the SUT and gives the runner a scheme. Fake
nodes and coordinator emit every request and response as an event; the runner's
closures act on the coordinator and the fake nodes. The stat ingester reads
what a cluster started by tick-cluster sends over UDP, and decides when the
script goes on; the analyses read its file afterwards.

What makes each component correct: a test that passes has run its scheme, in
order, on all its events, and every test ends (runner); the script moves on when
a command has had its effect and the cluster is stable, and the file shows what
it was decided by (ingester); the numbers and checksums a test expects are those
the SUT has (fake cluster); a value is its section's and a pass has earned it
(measurements); the table agrees with the processes, no port has
two, none is left behind, and a key does what was typed (tick-cluster). `PROJECT.json` lists the hazards at
their lines, with the properties that watch them.

## Modules

| module | models |
|---|---|
| `SchemeRunner`, `SchemeContract` | the runner with coordinator, fake nodes and SUT; abstract: what the comment above `validate()` promises |
| `MCSchemeRunner` | schemes of the repository's tests, for TLC |
| `SchemeRunnerProofs`, `SchemeWakeProofs` | theorems: order, verdicts and refinement; what holds of every scheme, wake-ups and the events of a passing test |
| `FakeCluster`, `MCFakeCluster`, `FakeClusterProofs` | the cluster that fake nodes and coordinator play: statuses, incarnation numbers, changes, checksums, answers to probes and joins; fake nodes that may be exchanged, for TLC; theorems |
| `StatIngester`, `MCStatIngester`, `StatIngesterProofs` | the stat ingester with script, hosts and network; scripts for TLC; theorems |
| `Calc` | variables, expressions, durations and values of a scenario's text |
| `Measurement`, `MCMeasurement`, `MeasurementProofs` | a measurement: its text, the section of the stats file, the three analyses, the assertion; files and texts for TLC; theorems |
| `ExpressionProofs` | theorems: the calculator and the replacement of variables, for every text |
| `TickCluster`, `TickClusterProofs` | tick-cluster's table, signals, timers and processes; theorems |
| `TickPrompt`, `TickPromptProofs` | the keyboard and the commands to every host, on top of `TickCluster`; theorems |

How they are composed: `SchemeRunner` refines `SchemeContract`; `TickPrompt` has
the variables of `TickCluster` and instantiates it, each key and each timer being
one of its actions, so it refines `TickCluster`; `Measurement` extends `Calc` and
reads any file that `StatIngester` may have written. `SchemeRunner` and
`FakeCluster` are two views of the same test: the first has the order of
callbacks and events and abstracts their bodies, the second has the bodies and
takes the order from the first (one closure at a time).

### SchemeRunner

JavaScript runs one callback to its end, but the runner is entered from inside
itself: `progressFromCursor` calls a closure, which calls back, which calls
`progressFromCursor`. A turn of the event loop is therefore a sequence of micro
steps. `phase = "run"` stands in front of a call of `progressFromCursor`,
`"return"` behind one, and `frames` holds what the callers still have to do: the
callback after an emit (`requestPing`, `requestPingReq`), the emit after a
callback (`requestJoin`, `callEndpoint`, `getAdminStats`), or the rest of the
loop of `checkSutMergedWithB`. The environment moves only when `phase = "idle"`.

Arrays have an identity (`heap`, `eventList`) because closures capture and edit
them: an asynchronous closure calls back with the array it was given, and events
were pushed to that array meanwhile. An event is its number; its body is
abstracted to a kind, fine enough for what the closures select by. Verdicts on
bodies only add to `failed`, which no code reads.

The twelve kinds of closure (`take`, `peek`, `gather`, `sift`, `splice`, `only`,
`drop`, `sync`, `wait`, `request`, `exit`, `multi`) are described in the module. A
request has an answer (an event and the callback, in either order), a loud error
(callback without event) or a silent one (neither). `splice` is
`assertStateChange`: its index comes from the filtered pings and is used on the
whole list (`Spliced`), so that with another event in front it removes that one
and leaves the ping. `exit` attaches a listener to the SUT's process; when the SUT
has exited before without anybody noticing (code 0, or a signal), the exit event
is over and the callback is lost (`TooLate`): the closure goes to `dropped`, like
one whose request failed silently. `takenBy` and `yielded` are history variables.

### FakeCluster

The state is the fake nodes (status, incarnation number, whether they answer and
listen), the coordinator's number for the SUT, and the ping under way with its
changes and checksum. A closure that sends a ping (`sendPing`, `changeStatus`,
`sendPing` about the SUT, a ping without changes) is a step, and the answer to it
is another; no closure runs in between. The answer may be missing in both of the
ways of `requestPing`. Identification of the channel fails (`PingNotSent`): the
callback is called with the error, `sendPing` ignores it and the next closure
runs, though nothing was sent; what `piggyback` has recorded by then stays
recorded. The request fails (`RequestFails`, also when the SUT had handled the
ping and only its answer is lost): the callback is not called and the scheme
stops for good (`stuck`), while the SUT goes on. `untold` keeps the nodes whose
number was raised on record by a ping that was not sent, until a later ping or a
full sync tells it. Deltas are -1, 0 and 1: the code asks
only for their sign (a number is recorded when the delta is positive) and adds
them. A checksum stands for the members it is computed from, without tombstones
and without their order; collisions of the hash are left out.

The SUT is external. It takes changes by the SWIM rules that the tests ask for
(ping and reaping tests: the higher number wins, then the worse status; what is
said against itself it refutes), probes by ping and ping-req, ages suspects to
faulty, tombstone and eviction, and may answer a foreign checksum with a join to
the sender (`bidirectional full sync`), which the sender answers with the
coordinator's list. The join is answered by disabled nodes, too, as in the code.

### StatIngester

`handleStat` and `IsClusterStable` hold the mutex and are one step each;
`WaitForStable` is three steps, because it reads and writes `wasUnstable` outside
of it. Reading a flag without the lock is a data race in Go; the model lets the
read see the last value written, and the polling loops sleep between reads. The
file is kept as the last stat of every host. Faults: a read of the socket fails
and the ingestion ends while the script goes on, because `Scan()` says only
`false` (`ReadFails`); a stat without a host or a failing write ends the process
(`StatIsFatal`); a label is lost and nobody looks. The script's loop is not in
the repository and is modelled from the commands that `command.go` documents: a
command says which hosts are up, or waits. Its effect has `Waves` waves: hosts
become busy with changes, report them for more periods than stats can be lost,
and settle.

### Calc and Measurement

What the file of the ingester is for. A behaviour is one measurement: its text
has the run's variables replaced and is parsed (or the parser panics, which
`parse` turns into an error), the scanner seeks the start label, one line per
step, then the loop of `CountAnalysis`, `ChecksumsAnalysis` or
`ConvergenceTimeAnalysis` runs until the section scanner says no, and the result
is asserted. The file, and whether reading it fails at its end, are chosen at the
start. A line is what the analyses tell apart. Whether a line matches a pattern
is data: it is of the kind counted or it is not. The caller that takes the value
of `Measure` to `Assert` is not in the repository.

A text is a sequence of tokens. `replace` puts the text of one variable after the
other into it, so a value may hold the name of a later variable and an operator
may bind across a value's edge, as in the code. `Eval` applies the operators by
strength and from the left, with the arithmetic of float64 on fractions,
including the infinities and NaN; rounding and overflow are left out.
`parseValue` tries `Eval` first and then a duration, and values keep their Go
type, which `reflect.DeepEqual` and `rangeAssert` compare.

`Section` and `Expected` say the same without a loop or a scan; they are the
reference, not the code. So is `Meaning` of an expression, and it shares nothing
with `Calc`: the tree is calculated by hand, as one ratio of integers that is never
reduced (`Ratio`, `Calculated`), with no `evalBin`, no `Gcd`, no infinity and no
order of operators; it is a set, empty when some variable's text has no value.

### TickCluster

The table has one entry per port; a process is running, terminating, stopped or
both, exiting, or reaped. A signal by `process.kill` to a reaped process throws,
nothing catches it and the tool is gone; a signal by the child's own `kill()`
does nothing then. Of a random sample any subset may have been handled before
the throw, of a loop over the table the entries before it. `CallbackThrows` is an
exception in any other callback (an answer that cannot be parsed). Processes may
exit by themselves and may ignore SIGTERM.

### TickPrompt

`onData` is a machine of three states: at the top, in the prompt for a count, in
the prompt for a flag. An unexpected key leaves a prompt and is lost, `q` and
control-c among them; `func` stays as it was. A command sent to the hosts has the
closure of its callback as a record: the list it was sent to, what is pending,
what was counted, whose answers were parsed, and the summaries printed (history).
The list is taken when the key is pressed, the table may change before the last
answer. `typed` and `quits` are history variables.

## What the checks show

| run | question | result |
|---|---|---|
| `SchemeTest` | the ordinary closures, in a scheme that joins those of `prepareCluster`, ping, healing and self-eviction tests | holds, about 306 000 states |
| `SchemeMerge` | the merge test, with the closure that calls back several times: is an operation started twice? | no, about 20 000 states |
| `SchemeMergeSkips` | does a passing merge test run all of its closures? | **no** |
| `SchemeSignal` | can a test pass when the SUT died by a signal? | **yes** |
| `FakeCluster` | pings, sent or not, answered or not, changes, probes, syncs and ageing in any order: do the numbers the tests assert agree with the SUT's, and do the checksums? | holds, about 2 120 000 states |
| `IngesterScript` | kill and restart with loss, reordering and failing reads | holds, about 34 000 states |
| `IngesterEffect` | has a command taken effect before the next one? | **not always** |
| `IngesterForgets` | is an instability only forgotten while the cluster is stable? | **no** |
| `Measurement` | all files of up to four lines, for each quantity, and all expressions of up to two operators: do the loops compute what the section says, and the parser what the text means? | holds, about 950 000 states |
| `TickTable` | any keys, exits, timers and exceptions over a table of two | holds, about 97 000 states |
| `TickPrompt` | the keyboard over that table, with commands under way: does it drive the table as typed, and sum up once? | holds, about 810 000 states |
| `TickQuit` | is nothing left when the user has quit? | **no** |

Properties of `SchemeTest`: one closure is in flight at a time, with the current
array (`SingleFlight`); an event is in the list until a closure discards it and
never again (`EventConservation`); a closure in progress has a callback coming,
that of an exit only while the SUT lives, except after a silent error and an exit
that nobody noticed (`NoWedge`); the runner rests only on a closure that
lacks events (`NoMissedWakeup`); passing means that every closure called back
once (`PassedRanAll`); the deadline and a pass exclude each other (`EndsOnce`,
`DeadlineStops`); when a test that asserts that nothing else is left passes with
all its assertions, each event was discarded by a closure that names its kind, or
by an `assertStateChange`, which discards one event at most, of any kind
(`AllEventsExpected`); the contract is implemented (`ImplementsContract`); every
test ends (`TestEnds`).
`EndsOnce` leaves out one thing the code does: after `sut-died` the runner is
not stopped, and a closure whose callback is pending may bring the scheme to its
end and call `t.end()` again.

The violations are recorded in `PROJECT.json` under `findings`, each with the
comment or message that it contradicts:

1. `checkSutMergedWithB` calls back for each of several pings, so the second
   callback answers for the closure after it, which is then passed over while it
   is in flight (the counterexample needs two pings before the closure runs).
2. A SUT that ends by a signal has no exit code; `if (code)` takes that for a
   clean exit.
3. A host's busy stat that is handled just after the reset of `WaitForStable`
   satisfies the wait of the next command, which has had no effect yet.
4. The reset itself wipes out an instability handled just before it.
5. An exit that the tool did not cause leaves the entry unmarked; on quitting
   `process.kill` throws for it and the processes after it are left running.

Two more of the kind have no run of their own; the models do what the code does,
and a property leaves it out by name:

* `assertStateChange` discards the wrong event when another one is in front of the
  ping it has asserted, though the comment of `validate()` has a closure remove
  what it found. A scheme as in `join-tests.js` passes with a ping-req discarded
  that no closure looked for; `AllEventsExpected` excepts that one event, and says
  that it is one.
* When a ping cannot be sent, its closure calls back all the same. The number that
  its change raised is expected of the SUT from then on, and the SUT was never told;
  `NumbersAgree` leaves the node out until it is (`untold`).

Properties of `FakeCluster`: between two closures the incarnation numbers that
`assertStats` expects are the SUT's own, although changes are ignored, refuted,
delayed by a full sync and told again (`NumbersAgree`; it leaves out the nodes in
`untold`, and evicted members: an old change brings them back with an old
number); where SUT and coordinator had one checksum they have one again after a `changeStatus` that is taken, so
that a test's change alone sets off no full sync (`ChangeKeepsInSync`); fake nodes
that are disabled all at once never make the SUT suspect one, which the comment in
`ping-req-tests.js` claims (`DisabledUnsuspected`).

Properties of `IngesterScript`: the estimate is what the file says, but for the
stat in hand (`FileExplainsEstimate`); a wait does not use an instability twice
(`EachReturnEarned`); when the ingestion has ended unseen, one wait at most returns
on the old estimate (`BlindAtMostOnce`); the script ends (`ScriptEnds`).

Properties of `TickTable`: no two live processes on one port (`NoTwins`), an
entry marked as suspended is stopped (`SuspendedIsStopped`), a normal exit leaves
nothing running (`ExitLeavesNone`), a terminated process dies by itself or by the
timer (`TerminatedDies`). Of `TickPrompt`: it refines the table (`KeysDriveTable`);
a command's summary is printed once, when every host of its list has answered or
failed (`OneFullSummary`), and is printed (`CallsEnd`); what a prompt's command
hits is the count typed since that prompt was opened (`HitsAsTyped`: digits of a
prompt that was left do not count); two `q` or control-c in a row always end the
tool (`TwoQuitsQuit`).

Properties of `Measurement`: a value is what its section says and does not
depend on what is around it (`MeasuresItsWindow`), it needs a file that is sound
up to the section's end (`NoValueFromBadFile`), and a pass needs that value, of
the right type (`PassIsEarned`). A bound written as an expression is the number
that arithmetic by hand makes of the tree, whatever fractions come up on the way,
and a scenario whose bound has none is rejected (`RunMeansItsValues`). It says
nothing of two things. The values of the variables are to be numbers or in
parentheses (`Operand`): with `1+2` for a variable, twice the variable is another
number, which the run has and leaves alone; no comment or test says what it should
be. And where a division by zero is in the tree, arithmetic has no number; the
code goes on with an infinity or NaN, as `Calc` does. The first three have `Unambiguous` as a premise:
labels are compared by prefix, and in a file where `t10` comes before `t1` the
section of `t1` starts at `t10`. The run has such files and leaves them alone.

### Bounds

`MaxEvents` stops the SUT's own requests, not the answers. Six events in
`SchemeTest` are enough for each of the closures that wait to be woken by a wrong
and by the right event, for events that arrive while each asynchronous closure is
in flight, and for leftovers at the end, with an `assertStateChange` among the
closures and a SUT that may exit unnoticed before the one that waits for its exit.
The merge finding needs five. Two hosts,
one stat of a host in flight and one loss let an old stat of one host overtake
the news of the other; deeper queues add only states. A second wave of a
command's effect only repeats the first. A table of two is the least with a
process after one that throws; in `TickTable` four pids allow both entries to be revived, or
one of them twice; one exit by itself is enough to make a signal throw, and
terminations are not bounded.

Four lines are enough for a start and an end label with two lines between them or
around them, for a label that comes twice, an end before the start, two sums of
one host or sums of two.

`TickPrompt` has the same table with two pids, so that its own state fits: a
revival wakes the suspended and starts no process, which `TickTable` covers, and
every step of `TickPrompt` is checked to be one of the table. Digits 0 and 1, two of them at a prompt, give counts below,
at and above the table's size (0, 1, 10, 11) and leading zeros. One command under
way at a time is enough for `OneFullSummary`, which speaks of one command;
the theorem has no bound.

`FakeCluster` has two fake nodes, which may be exchanged (`SYMMETRY`), two pings
and incarnation numbers up to two: a member told of by itself and by the other,
an old change after a new one, a second change while the first may be in a full
sync, or after one that was not sent, as in the tests of state transitions, which tell of two changes. A probe
with one helper has both outcomes. Ageing and evictions are not bounded.

The expressions of `Measurement` have up to two operators, the least where
strength, association and parentheses tell; values include a variable in a
variable, a sum with and without parentheses, parentheses around no value, and 0
as a divisor.

Where a configuration says `CHECK_DEADLOCK FALSE` the system stops by itself: a
test ends, a script is through or the process dead, a measurement is made, the
tool exits or dies, a scheme has no ping left.

### Fairness

`SchemeRunner`: a turn runs to its end (weak fairness of `Turn`), and timers that
are due are served between turns, even while messages keep arriving (strong
fairness of `Deadline`). Nothing is assumed of the SUT or the network.
`StatIngester`: both goroutines run, a stat that is sent again and again
arrives, hosts report each period, and changes settle. `TickCluster`: timers
fire and exits are reaped. Nothing is assumed of the user, or of a process that
was told to terminate. `TickPrompt`: each request is answered, fails or times out
(`send` sets a timeout). `FakeCluster` has no liveness: the SUT promises nothing.

## What is proved

`SchemeRunnerProofs`, for every scheme, every set of kinds and every bound,
from `SchemeAssumption` alone:

* `TypeCorrect`. The type invariant is not inductive: a callback on the stack
  brings back an array, so the arrays in `frames` have to exist as well
  (`FramesInHeap`). The lemmas follow the invariant in four parts.
* With the further hypothesis `NoMulti` (no closure like `checkSutMergedWithB`,
  for which the run `SchemeMergeSkips` refutes the claims): `OneInFlight`,
  `EventsConserved`, `PassMeansAllRan`, `TestEndsOnce` and
  `RunnerImplementsContract`, the refinement of `SchemeContract`.

All of the latter are read off one inductive invariant, `Order`. No single
property is inductive: that a pass means that all have run needs that exactly
the closures before the cursor have called back (`Progress`), hence that a
callback belongs to the closure at the cursor, hence that there is one callback
at most, in the environment or on the stack (`Flight`), and that a turn has one
caller at most (`TurnShape`); that `t.end()` is called once needs to know who
still listens (`Verdict`). `NextOrder` puts the lemmas for the actions together.
For the refinement a callback is a `Yield`, a pushed event a `Receive` (whoever
listens has not ended the test), and a second `t.end()` after a crash a stutter.

`SchemeWakeProofs` begins with what needs no `NoMulti`: `NeverWedged` and
`DeadlineIsFinal` hold of every scheme, and `OperationsStartOnce` of every scheme
in which asynchronous closures behind one that calls back several times are
wrapped in `_.once` (`OnceBehindMulti`; the merge test has it so, and without it
the second callback starts the operation behind it again). `Order` is of no use
here: with several callbacks in flight the cursor runs ahead of the closure that
answers. What remains true is `Promises`: nothing ahead of the cursor has been
started (`Reached`); the closure at the cursor, once started, has its callback in
the environment, on the stack or lost (`Owed`); so has one in progress,
unless a loop of several callbacks is still on the stack, which ends with a
callback too (`Held`); such a loop belongs to a closure at or behind the cursor
(`Behind`); and the deadline comes between two turns, when no such loop is there
(`Late`). `Started` adds that a second start needs a closure in progress at the
cursor, or a `_.once`.

Under `NoMulti` and on top of `Order`, the module has `NoWakeupMissed` and
`EventsAccounted`. For the first, the runner rests with a reason behind a call of
`progressFromCursor` (`Watched`; it holds on the way out of nested calls as well,
since the innermost call has looked at the same list). `EventsAccounted` is
read off `Account`: each event was taken by a closure that names its kind,
or alone, by one that splices (`TakenByKind`, on which `SplicedIsOne`: at most one
event of a list has a given number of others before it), callbacks on the stack are those of requests and exits
(`FrameOps`), and a runner past its last closure, if that is the `only` of
`prepareCluster`, has an empty list or has failed (`Finished`).

`FakeClusterProofs`, for any nodes, pings and numbers: `TypeCorrect`,
`NumbersKept`, `DisabledStayUnsuspected`, `ChangesStayInSync`. The invariant
`IInv` adds to the types what keeps them (`Shapes`: numbers start at 1, a list
names each member, a ping has one change); that nothing under way, ping or full
sync, is ahead of the record, and a member not evicted has the number on record,
or a ping is about to tell it, or the ping that was to tell it was not sent
(`Agreement`); that nodes disabled at once leave
nobody to accuse one (`Disabling`); and that the checksum on a ping is the one
before, with the change in place (`Recorded`).

`StatIngesterProofs`, from `IngesterAssumption`: `TypeCorrect` (strengthened by
`InScript`: between two labels there is a command), `FileIsTheEstimate` (by
`InHand`: what the file lacks is the stat in hand, with the verdict that the
estimate has), `NoReturnForFree` (by `Earned`) and `BlindOnlyOnce` (by
`BlindIsLast`: after a blind return `wasUnstable` is reset, and nobody sets it).

`MeasurementProofs`, from `MeasurementAssumption`, for every file: `TypeCorrect`,
`AnalysesCorrect`, `BadFilesGiveNoValue`, `PassesEarned`. The invariant `IInv` has
the loop invariants as its parts: where the scanner is (`BeforeStart`,
`InSection`: behind a start label, with no end label in between) and what the
analysis knows of the lines of the section read so far (`CountSoFar`,
`ChecksumsSoFar`, `ChangesSoFar`). `NextLine` says that a line the scanner yields
is the section's next, `EndLine` that nothing of the section is left when it
yields none; together they turn the loop invariants into the reference.

`ExpressionProofs` proves `RunsMeanTheirValues`: what TLC checks of three pairs of
values holds of all of them, of any length and depth of parentheses. The prover
has no induction over data, so what a recursive function is comes first, by
least counterexamples (`Least`, from the well-foundedness of `<`): functions that
satisfy Eval's recursion on texts up to a length exist for every length
(`EvaluatesUpTo`) and agree where both are defined (`EvaluatesOneWay`); glued
together they give `Eval`'s own recursion (`EvalEquation`). In the same way `FlattenSeq` distributes over
texts put together (`FlattenTwo`), and the fold in `replace` is one replacement
after the other (`ReplaceIsFilled`). On these stand the laws of an expression. The
depth of parentheses in a text put together is that of its parts (`Behind`), so
operators outside parentheses are those of the parts (`NestedBehind`), the one
applied last is the one that joins them, and the value is the operator applied
to their values (`ValueOfBinary`, for any two texts, with strength and
association as a condition on what is outside parentheses in them); parentheses
keep a value (`ValueInParens`) and make an operand (`EnclosedText`); a variable is
replaced in each part (`FilledBehind`). By these laws a tree of any depth is
`Faithful` (`AnyTreeIsFaithful`, from its smallest parts): its text, filled with the
run's values, is an expression of the tree's strength, and its value is the number
of the tree's ratio, `Meaning`. That last part is about the fractions of `Calc`,
in "The numbers": what `Stands` for a ratio is the same fraction after cancelling
(`GcdDivides`, `Quotients`, `FractionIs`), sums, products and quotients of such
fractions stand for those of the ratios (`OperatorsCalculate`), and Eval's values
are numbers of this kind (`EvalIsNumber`). The trees of the run, of up to two
operators, are an instance. `ValueOfExpression` says that an expression without a
value is no duration either, and `AsWritten`, the only invariant of steps, that
the assertion is what the text parses to.

`TickClusterProofs`, for a table of any size: `TypeCorrect`, `OneProcessPerPort`,
`MarkedIsStopped`, `CleanExit`, all from `IInv`. None of the last three is
inductive: they need that a live process is the one its entry names and that an
entry marked as killed has none (`LiveIsCurrent`), which is what makes
`reviveProcs` free to overwrite it.

`TickPromptProofs`: `KeyboardDrivesTable`, the refinement of `TickCluster`
(`StepOfTable`: each key, answer and timer is an action of the table or leaves it
alone), so that the theorems above hold of the tool with its keyboard;
`QuitTwiceEnds` (by `QuitsLeave`: the first of two quits has left the prompt) and
`OneSummary` (by `CallsInv`: hosts pending and answers counted add up to the list,
so the count equals the list's size once, at the last answer), which also gives
the types of the commands in `TypeCorrect`. `CountedHits`: the command of a prompt
hits as many processes as the digits typed say. That `num` is the number typed
(the code's `num = num * 10 + digit`, the reference a fold over the digits) is an
invariant, once the fold of one more digit is known to be ten times the fold plus
the digit (`NextDigit`, by least counterexamples again). `TableKept` carries the
theorems of the table over: `TickClusterProofs` is instantiated with the keyboard's
table, and the refinement makes its `Spec` true.

Every safety property that a passing run checks is a theorem. Only model-checked:
liveness (`TestEnds`, `ScriptEnds`, `TerminatedDies`, `CallsEnd`), which the prover
does not reach.

## What is not modelled

* Bodies of messages beyond the changes, hashing, text and output.
* ringpop itself: it is the environment, with as much of the protocol as the
  tests ask of it.
* Of the fake cluster: labels, the source of a change (its number is never
  shifted, because of a misspelt option), the subject `new`, later joins
  (`waitForJoins` after the first), `enableNode`, nodes added or removed by a
  closure, and a node with a membership list of its own (the partition tests).
* Of the coordinator: starting the SUT, the hosts file, `lookup`.
* The test suite entry (`it-tests.js`): options, and an exit code read once before
  any test has run; it has no state to relate.
* `make_partition`: one pass from a list of ports to a list of firewall rules.
* `generate-hosts.js` and the dashboards have no behaviour.
* YAML, labels and commands of a scenario are taken as parsed; rounding of
  float64; a pattern that is no regular expression (it counts 0 without an error).
* The stats file has no labels in `StatIngester`: a stat in hand when a label is
  written falls on the far side of it, which no property here tells.

## Plan

What is left, by what it would add:

1. Partition and healing tests in `FakeCluster`: nodes with a membership of their
   own, added and removed nodes, `enableNode`, labels.
2. `FakeCluster` composed with the events of `SchemeRunner`, so that a scheme of
   the repository runs on it; round-robin pings (`expectRoundRobinPings`) against
   a reference.
3. `Measurement` composed with `StatIngester`: a stat in hand when a label is
   written falls on the far side of the label.
4. Theorems for any number of variables, and an abstract ingester that
   `StatIngester` implements.
