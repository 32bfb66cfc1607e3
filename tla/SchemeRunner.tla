---------------------------- MODULE SchemeRunner ----------------------------
(***************************************************************************)
(* The runner of an integration test: validate() of test/ringpop-assert.js *)
(* with the closures it runs (the "scheme"), the emitter and the request   *)
(* functions that feed it (test-coordinator.js, fake-node.js), and the     *)
(* system under test (SUT) as the source of events, replies and exits.     *)
(*                                                                         *)
(* JavaScript runs one callback to completion.  A turn is therefore a      *)
(* sequence of micro steps during which nothing of the environment moves:  *)
(* phase = "run" stands in front of a call of progressFromCursor, phase =  *)
(* "return" behind one, and frames holds what the callers on the stack     *)
(* have left to do once the call returns.                                  *)
(*                                                                         *)
(* Events are numbered in the order they are received, so an array of      *)
(* events is the set of its numbers.  Arrays have an identity, because the *)
(* closures capture and mutate them: heap[a] is the content of array a.    *)
(***************************************************************************)
EXTENDS Naturals, Sequences, FiniteSetsExt

CONSTANTS
    Types,        \* kinds of event: type, direction, receiver and what a body check tells apart
    Requests,     \* those the SUT sends of its own accord
    Scheme,       \* the flattened list of closures, one record each
    MaxEvents,    \* bound on the events after which the SUT sends no more requests
    SutMayCrash   \* whether the SUT may exit by itself in this instance

(***************************************************************************)
(* The closures, by what they do with the list and the callback:           *)
(*   take    waits for an event, asserts its body, removes it in place     *)
(*   peek    waits for an event and leaves it                              *)
(*   gather  waits for n wanted events, asserts there are no more (exact), *)
(*           yields a new array without the events it accepts              *)
(*   sift    removes what it accepts in place at EVERY call, goes on when  *)
(*           a wanted event was among it (verifySuspects)                  *)
(*   splice  waits for a wanted event among those it accepts, counts the   *)
(*           accepted ones before it, and removes in place the event that  *)
(*           has as many before it in the whole list (assertStateChange)   *)
(*   only    asserts that nothing else is left, yields a filtered array    *)
(*   drop    yields a filtered array                                       *)
(*   sync    yields the list at once                                       *)
(*   wait    calls back from a timer or a listen, without an event         *)
(*   request sends a request: the reply is an event and calls back         *)
(*   exit    SIGTERM to the SUT, calls back on its exit                    *)
(*   multi   calls back once for EVERY accepted event, and then with null  *)
(*           (checkSutMergedWithB)                                         *)
(***************************************************************************)
LookStep    == [op: {"take", "peek", "only", "drop", "multi"}, accept: SUBSET Types]
GatherStep  == [op: {"gather"}, accept: SUBSET Types, want: SUBSET Types,
                n: Nat, exact: BOOLEAN]
SiftStep    == [op: {"sift", "splice"}, accept: SUBSET Types, want: SUBSET Types]
PlainStep   == [op: {"sync", "wait", "exit"}]
RequestStep == [op: {"request"}, reply: Types, once: BOOLEAN, eventFirst: BOOLEAN,
                onError: SUBSET {"silent", "callback"}]
Step        == LookStep \cup GatherStep \cup SiftStep \cup PlainStep \cup RequestStep

ASSUME SchemeAssumption ==
    /\ Scheme \in Seq(Step)
    /\ Requests \subseteq Types
    /\ MaxEvents \in Nat
    /\ SutMayCrash \in BOOLEAN

N == Len(Scheme)

VARIABLES
    cursor,      \* the closure to run next
    inProgress,  \* a closure was called and has not called back
    timedOut,    \* the deadline has passed
    eventList,   \* the array the next closure is given
    heap,        \* the arrays made so far
    allEvents,   \* the kind of every event received
    takenBy,     \* history: the closure that removed the event, 0 if none has
    pending,     \* the callbacks held by timers, requests and the exit listener
    dropped,     \* closures whose callback is lost: a failed request that never calls back,
                 \* a listener for an exit that has already happened
    calls,       \* how often an asynchronous closure has started its operation
    yielded,     \* history: how often a closure called back with a list
    timer,       \* the deadline timer
    listening,   \* listeners of 'event' and 'sut-died' are installed, channels are open
    sut,         \* the SUT's process
    ends,        \* the reasons t.end() was called for, in order
    failed,      \* some assertion has failed
    phase, frames

runner == <<cursor, inProgress, eventList, heap, takenBy, calls, yielded>>
log    == <<allEvents, pending, dropped>>
outer  == <<timedOut, timer, listening, sut, ends, failed>>
vars   == <<runner, log, outer, phase, frames>>

----------------------------------------------------------------------------
(* What the closures see in an array.                                      *)

Of(kinds, list) == {e \in list : allEvents[e] \in kinds}

Ready(s, list) ==
    CASE s.op \in {"take", "peek"} -> Of(s.accept, list) # {}
      [] s.op = "gather"           -> Cardinality(Of(s.want, list)) >= s.n
      [] s.op \in {"sift", "splice"} -> Of(s.want, list) # {}
      [] OTHER                     -> TRUE

Before(e, list) == {x \in list : x < e}

(* list.splice(index, 1): the index is that of the first wanted event in   *)
(* the filtered list, what is removed is the event there in the whole one. *)
Spliced(s, list) ==
    LET index == Cardinality(Before(Min(Of(s.want, list)), Of(s.accept, list)))
    IN {e \in list : Cardinality(Before(e, list)) = index}

(* The events the closure removes from the array it is called with.        *)
Removed(s, list) ==
    CASE s.op = "take"                             -> {Min(Of(s.accept, list))}
      [] s.op = "splice"                           -> Spliced(s, list)
      [] s.op \in {"gather", "sift", "only", "drop"} -> Of(s.accept, list)
      [] OTHER                                     -> {}

(* Mutant: expectOnlyPings forgets that other events are left.             *)
AssertedCountOnly(s, list) ==
    s.op = "gather" /\ s.exact => Cardinality(Of(s.want, list)) = s.n

(* The assertion the closure makes on the array: t.equal(length, n).       *)
Asserted(s, list) ==
    /\ s.op = "gather" /\ s.exact => Cardinality(Of(s.want, list)) = s.n
    /\ s.op = "only" => list \subseteq Of(s.accept, list)

Mark(events, i) == [e \in DOMAIN takenBy |-> IF e \in events THEN i ELSE takenBy[e]]

(* Mutant: the callback does not run the next closure.                     *)
CallbackRests(i, list) ==
    /\ eventList' = list
    /\ cursor' = cursor + 1
    /\ inProgress' = FALSE
    /\ yielded' = [yielded EXCEPT ![i] = @ + 1]
    /\ phase' = "return"

(* The callback of closure i with a list: adopt the list, move the cursor, *)
(* and run progressFromCursor.                                             *)
Callback(i, list) ==
    /\ eventList' = list
    /\ cursor' = cursor + 1
    /\ inProgress' = FALSE
    /\ yielded' = [yielded EXCEPT ![i] = @ + 1]
    /\ phase' = "run"

(* Mutant: the callback with null leaves inProgress set.                   *)
CallbackNullBusy == inProgress' = TRUE /\ UNCHANGED <<eventList, cursor, yielded>>

(* The callback with null: wait for more events.                           *)
CallbackNull == inProgress' = FALSE /\ UNCHANGED <<eventList, cursor, yielded>>

(* Mutant: the event is pushed but not recorded for the schema check.      *)
PushUnrecorded(kind) ==
    /\ heap' = [heap EXCEPT ![eventList] = @ \cup {Len(allEvents) + 1}]
    /\ takenBy' = Append(takenBy, 0)
    /\ phase' = "run"
    /\ UNCHANGED allEvents

(* The listener of 'event'.                                                *)
Push(kind) ==
    /\ heap' = [heap EXCEPT ![eventList] = @ \cup {Len(allEvents) + 1}]
    /\ allEvents' = Append(allEvents, kind)
    /\ takenBy' = Append(takenBy, 0)
    /\ phase' = "run"

Init ==
    /\ cursor = 1 /\ inProgress = FALSE /\ timedOut = FALSE
    /\ eventList = 1 /\ heap = <<{}>> /\ allEvents = <<>> /\ takenBy = <<>>
    /\ pending = {} /\ dropped = {}
    /\ calls = [i \in 1..N |-> 0] /\ yielded = [i \in 1..N |-> 0]
    /\ timer = "armed" /\ listening = TRUE /\ sut = "up"
    /\ ends = <<>> /\ failed = FALSE
    /\ phase = "idle" /\ frames = <<>>

----------------------------------------------------------------------------
(* The micro steps of a turn: progressFromCursor and the closure it calls. *)

Blocked ==
    /\ phase = "run" /\ (timedOut \/ inProgress)
    /\ phase' = "return"
    /\ UNCHANGED <<runner, log, outer, frames>>

(* Mutant: an early return of progressFromCursor is dropped.               *)
MayRunLate == phase = "run" /\ ~inProgress

MayRun == phase = "run" /\ ~timedOut /\ ~inProgress

(* Mutants: complete one closure early; complete with the timer running.   *)
ProgressionCompleteEarly ==
    /\ MayRun /\ cursor >= N
    /\ timer' = "off" /\ listening' = FALSE
    /\ ends' = Append(ends, "passed")
    /\ failed' \in {failed, TRUE}
    /\ phase' = "return"
    /\ UNCHANGED <<runner, log, timedOut, sut, frames>>

ProgressionCompleteArmed ==
    /\ MayRun /\ cursor > N
    /\ listening' = FALSE
    /\ ends' = Append(ends, "passed")
    /\ failed' \in {failed, TRUE}
    /\ phase' = "return"
    /\ UNCHANGED <<runner, log, timer, timedOut, sut, frames>>

(* progressionComplete.  The verdicts on bodies, those of the schema check *)
(* here and those of the closures before, are data and no code reads them: *)
(* they are accounted for here, together, and may be either.               *)
ProgressionComplete ==
    /\ MayRun /\ cursor > N
    /\ timer' = "off" /\ listening' = FALSE
    /\ ends' = Append(ends, "passed")
    /\ failed' \in {failed, TRUE}
    /\ phase' = "return"
    /\ UNCHANGED <<runner, log, timedOut, sut, frames>>

Calling(ops) == MayRun /\ cursor <= N /\ Scheme[cursor].op \in ops

NotYet ==
    /\ Calling({"take", "peek", "gather", "sift", "splice"})
    /\ ~Ready(Scheme[cursor], heap[eventList])
    /\ LET gone == IF Scheme[cursor].op = "sift"
                     THEN Removed(Scheme[cursor], heap[eventList]) ELSE {}
       IN /\ heap' = [heap EXCEPT ![eventList] = @ \ gone]
          /\ takenBy' = Mark(gone, cursor)
    /\ CallbackNull
    /\ phase' = "return"
    /\ UNCHANGED <<calls, log, outer, frames>>

(* The closures that leave the list or edit it in place.                   *)
RunInPlace ==
    /\ Calling({"take", "peek", "sift", "splice", "sync"})
    /\ Ready(Scheme[cursor], heap[eventList])
    /\ LET gone == Removed(Scheme[cursor], heap[eventList])
       IN /\ heap' = [heap EXCEPT ![eventList] = @ \ gone]
          /\ takenBy' = Mark(gone, cursor)
    /\ Callback(cursor, eventList)
    /\ UNCHANGED <<calls, log, outer, frames>>

(* The closures that yield a new array (_.reject).                         *)
RunFilter ==
    /\ Calling({"gather", "only", "drop"})
    /\ Ready(Scheme[cursor], heap[eventList])
    /\ LET gone == Removed(Scheme[cursor], heap[eventList])
       IN /\ heap' = Append(heap, heap[eventList] \ gone)
          /\ takenBy' = Mark(gone, cursor)
    /\ failed' = (failed \/ ~Asserted(Scheme[cursor], heap[eventList]))
    /\ Callback(cursor, Len(heap) + 1)
    /\ UNCHANGED <<calls, log, timedOut, timer, listening, sut, ends, frames>>

(* Mutant: requests are not wrapped in _.once.                             *)
OnceWaitsOnly(s) == s.op = "wait"

(* _.once: a second call of the closure does nothing and calls nothing.    *)
Once(s) == s.op = "wait" \/ (s.op = "request" /\ s.once)

(* Mutant: the closure captures a copy of the list.                        *)
RunAsyncCopy ==
    /\ Calling({"wait", "request", "exit"})
    /\ inProgress' = TRUE
    /\ heap' = Append(heap, heap[eventList])
    /\ calls' = [calls EXCEPT ![cursor] = @ + 1]
    /\ pending' = pending \cup
         {[step |-> cursor, list |-> Len(heap) + 1, call |-> calls[cursor] + 1]}
    /\ phase' = "return"
    /\ UNCHANGED <<cursor, eventList, takenBy, yielded, allEvents, dropped, outer, frames>>

(* waitForGracefulShutdown listens for the exit of a process that may have *)
(* exited unnoticed; the event is over, and SIGTERM brings no other.       *)
TooLate(s) == s.op = "exit" /\ sut # "up"

RunAsync ==
    /\ Calling({"wait", "request", "exit"})
    /\ inProgress' = TRUE
    /\ IF Once(Scheme[cursor]) /\ calls[cursor] > 0
         THEN UNCHANGED <<calls, pending, dropped>>
         ELSE /\ calls' = [calls EXCEPT ![cursor] = @ + 1]
              /\ IF TooLate(Scheme[cursor])
                   THEN dropped' = dropped \cup {cursor} /\ UNCHANGED pending
                   ELSE /\ pending' = pending \cup
                             {[step |-> cursor, list |-> eventList, call |-> calls[cursor] + 1]}
                        /\ UNCHANGED dropped
    /\ phase' = "return"
    /\ UNCHANGED <<cursor, eventList, heap, takenBy, yielded, allEvents, outer, frames>>

RunMulti ==
    /\ Calling({"multi"})
    /\ inProgress' = TRUE
    /\ frames' = <<[kind |-> "multi", step |-> cursor, list |-> eventList,
                    left |-> Of(Scheme[cursor].accept, heap[eventList])]>> \o frames
    /\ phase' = "return"
    /\ UNCHANGED <<cursor, eventList, heap, takenBy, calls, yielded, log, outer>>

(* What the callers on the stack do when progressFromCursor returns.       *)

Top(kind) == phase = "return" /\ frames # <<>> /\ Head(frames).kind = kind

TurnEnds ==
    /\ phase = "return" /\ frames = <<>>
    /\ phase' = "idle"
    /\ UNCHANGED <<runner, log, outer, frames>>

(* requestPing and requestPingReq emit the response and then call back; on *)
(* an exit the coordinator's listener runs before the closure's.           *)
ThenCallback ==
    /\ Top("callback")
    /\ Callback(Head(frames).step, Head(frames).list)
    /\ frames' = Tail(frames)
    /\ UNCHANGED <<heap, takenBy, calls, log, outer>>

(* requestJoin, callEndpoint and getAdminStats call back and then emit.    *)
ThenEmit ==
    /\ Top("emit")
    /\ IF listening THEN Push(Head(frames).type)
                    ELSE UNCHANGED <<heap, allEvents, takenBy, phase>>
    /\ frames' = Tail(frames)
    /\ UNCHANGED <<cursor, inProgress, eventList, calls, yielded, pending, dropped, outer>>

(* One more callback of the multi closure, with a copy without the event.  *)
MultiYields ==
    /\ Top("multi") /\ Head(frames).left # {}
    /\ LET f == Head(frames)
           e == Min(f.left)
       IN /\ heap' = Append(heap, heap[f.list] \ {e})
          /\ takenBy' = Mark({e}, f.step)
          /\ Callback(f.step, Len(heap) + 1)
          /\ frames' = <<[f EXCEPT !.left = @ \ {e}]>> \o Tail(frames)
    /\ UNCHANGED <<calls, log, outer>>

MultiReturns ==
    /\ Top("multi") /\ Head(frames).left = {}
    /\ CallbackNull
    /\ frames' = Tail(frames)
    /\ UNCHANGED <<heap, takenBy, calls, log, outer, phase>>

Turn ==
    \/ Blocked \/ ProgressionComplete \/ NotYet \/ RunInPlace \/ RunFilter \/ RunAsync
    \/ RunMulti \/ TurnEnds \/ ThenCallback \/ ThenEmit \/ MultiYields \/ MultiReturns

----------------------------------------------------------------------------
(* What starts a turn.                                                     *)

Idle == phase = "idle"

(* A request of the SUT reaches a fake node, which emits it; a message may *)
(* still be in a socket when the SUT is gone.                              *)
Arrive(kind) ==
    /\ Idle /\ listening /\ Len(allEvents) < MaxEvents
    /\ Push(kind)
    /\ UNCHANGED <<cursor, inProgress, eventList, calls, yielded, pending, dropped,
                   outer, frames>>

TimerFires(p) ==
    /\ Idle /\ p \in pending /\ Scheme[p.step].op = "wait"
    /\ pending' = pending \ {p}
    /\ Callback(p.step, p.list)
    /\ UNCHANGED <<heap, takenBy, calls, allEvents, dropped, outer, frames>>

Reply(p) ==
    /\ Idle /\ listening /\ p \in pending /\ Scheme[p.step].op = "request"
    /\ pending' = pending \ {p}
    /\ LET s == Scheme[p.step]
       IN IF s.eventFirst
            THEN /\ Push(s.reply)
                 /\ frames' = <<[kind |-> "callback", step |-> p.step, list |-> p.list]>>
                 /\ UNCHANGED <<cursor, inProgress, eventList, yielded>>
            ELSE /\ Callback(p.step, p.list)
                 /\ frames' = <<[kind |-> "emit", type |-> s.reply]>>
                 /\ UNCHANGED <<heap, allEvents, takenBy>>
    /\ UNCHANGED <<calls, dropped, outer>>

(* A timeout or a closed channel.  The error path calls back without an    *)
(* event, or logs the error and never calls back.                          *)
RequestFailsLoudly(p) ==
    /\ Idle /\ p \in pending /\ Scheme[p.step].op = "request"
    /\ "callback" \in Scheme[p.step].onError
    /\ pending' = pending \ {p}
    /\ Callback(p.step, p.list)
    /\ UNCHANGED <<heap, takenBy, calls, allEvents, dropped, outer, frames>>

RequestFailsSilently(p) ==
    /\ Idle /\ p \in pending /\ Scheme[p.step].op = "request"
    /\ "silent" \in Scheme[p.step].onError
    /\ pending' = pending \ {p}
    /\ dropped' = dropped \cup {p.step}
    /\ UNCHANGED <<runner, allEvents, outer, phase, frames>>

(* The SUT exits: with code 0, with another code, by a signal of its own   *)
(* (the code is then null), or killed by the SIGKILL of shutdown().  The   *)
(* exit closure sends SIGTERM.  Only a truthy code emits 'sut-died'.       *)
ExitPending == {p \in pending : Scheme[p.step].op = "exit"}

(* Listeners are called in the order they were attached in, all of them.   *)
Attached(p, q) == p.step < q.step \/ (p.step = q.step /\ p.call < q.call)

ExitListeners ==
    {queue \in [1..Cardinality(ExitPending) -> ExitPending] :
        /\ \A j, k \in DOMAIN queue : j < k => Attached(queue[j], queue[k])
        /\ \A p \in ExitPending : \E k \in DOMAIN queue : queue[k] = p}

SutExits(how) ==
    /\ Idle /\ sut = "up"
    /\ how = "clean" => SutMayCrash \/ ExitPending # {}
    /\ how \in {"code", "signal"} => SutMayCrash /\ listening
    /\ how = "killed" => ~listening
    /\ sut' = how
    /\ IF how = "code"
         THEN /\ timer' = "off" /\ listening' = FALSE
              /\ ends' = Append(ends, "crash")
         ELSE UNCHANGED <<timer, listening, ends>>
    /\ failed' = (failed \/ how = "code" \/ (how # "clean" /\ ExitPending # {}))
    /\ pending' = pending \ ExitPending
    /\ phase' = "return"
    /\ \E queue \in ExitListeners :
         frames' = [k \in DOMAIN queue |->
                     [kind |-> "callback", step |-> queue[k].step, list |-> queue[k].list]]
    /\ UNCHANGED <<runner, allEvents, dropped, timedOut>>

(* Mutant: the deadline spares a closure in progress.                      *)
DeadlineWhenResting ==
    /\ Idle /\ timer = "armed" /\ ~inProgress
    /\ timer' = "off" /\ timedOut' = TRUE /\ failed' = TRUE /\ listening' = FALSE
    /\ ends' = Append(ends, "timeout")
    /\ UNCHANGED <<runner, log, sut, phase, frames>>

(* The deadline: fail, stop listening, shut down, end the test.            *)
Deadline ==
    /\ Idle /\ timer = "armed"
    /\ timer' = "off" /\ timedOut' = TRUE /\ failed' = TRUE /\ listening' = FALSE
    /\ ends' = Append(ends, "timeout")
    /\ UNCHANGED <<runner, log, sut, phase, frames>>

Environment ==
    \/ \E kind \in Requests : Arrive(kind)
    \/ \E p \in pending : TimerFires(p) \/ Reply(p) \/ RequestFailsLoudly(p)
                                        \/ RequestFailsSilently(p)
    \/ \E how \in {"clean", "code", "signal", "killed"} : SutExits(how)
    \/ Deadline

Next == Turn \/ Environment

(* A turn runs to its end.  The event loop serves due timers between any   *)
(* two turns, so a deadline that keeps being due is not passed over for    *)
(* ever, however many messages arrive.                                     *)
Fairness == WF_vars(Turn) /\ SF_vars(Deadline)

Spec == Init /\ [][Next]_vars

FairSpec == Spec /\ Fairness

----------------------------------------------------------------------------
(* Type invariant.                                                         *)

Callbacks == [step: 1..N, list: Nat \ {0}, call: Nat \ {0}]
Frames == [kind: {"callback"}, step: 1..N, list: Nat \ {0}]
            \cup [kind: {"emit"}, type: Types]
            \cup [kind: {"multi"}, step: 1..N, list: Nat \ {0}, left: SUBSET Nat]

TypeOK ==
    /\ cursor \in Nat \ {0} /\ inProgress \in BOOLEAN /\ timedOut \in BOOLEAN
    /\ heap \in Seq(SUBSET Nat) /\ eventList \in DOMAIN heap
    /\ allEvents \in Seq(Types)
    /\ takenBy \in Seq(0..N) /\ Len(takenBy) = Len(allEvents)
    /\ pending \in SUBSET Callbacks /\ \A p \in pending : p.list \in DOMAIN heap
    /\ dropped \in SUBSET (1..N)
    /\ calls \in [1..N -> Nat] /\ yielded \in [1..N -> Nat]
    /\ timer \in {"armed", "off"} /\ listening \in BOOLEAN
    /\ sut \in {"up", "clean", "code", "signal", "killed"}
    /\ ends \in Seq({"passed", "timeout", "crash"}) /\ failed \in BOOLEAN
    /\ phase \in {"idle", "run", "return"} /\ frames \in Seq(Frames)

(* The callbacks that are still to come: those the environment holds and   *)
(* those on the stack of the current turn.                                 *)
Outstanding ==
    {[step |-> p.step, list |-> p.list] : p \in pending}
      \cup {[step |-> frames[j].step, list |-> frames[j].list] :
              j \in {k \in DOMAIN frames : frames[k].kind = "callback"}}

(* One closure is in flight at a time, it is the one the cursor points to, *)
(* and the array it captured is still the array events are pushed to       *)
(* (a closure that calls back with its captured list, e.g. sendPing, would *)
(* otherwise throw away what arrived meanwhile).                           *)
SingleFlight ==
    \A a \in Outstanding : a = [step |-> cursor, list |-> eventList] /\ inProgress

(* No event is lost or comes back: a received event is in the current list *)
(* until a closure discards it, and never after.                           *)
EventConservation ==
    \A e \in DOMAIN allEvents : (e \in heap[eventList]) <=> (takenBy[e] = 0)

(* The runner is never stuck with nobody to wake it: between two turns a   *)
(* closure marked in progress has a callback coming (the exit listener's   *)
(* only while the SUT lives), unless its callback is lost for a reason:    *)
(* the error path of its request swallowed it, or the SUT had exited       *)
(* unnoticed before the closure listened for its exit.                     *)
NoWedge ==
    Idle /\ inProgress =>
      \/ \E p \in pending : Scheme[p.step].op = "exit" => sut = "up"
      \/ /\ cursor \in dropped
         /\ \/ Scheme[cursor].op = "request" /\ "silent" \in Scheme[cursor].onError
            \/ TooLate(Scheme[cursor])

(* No missed wake-up: between two turns, once an event was received, the   *)
(* runner rests only on a closure that really lacks events.  Events that   *)
(* arrive while a closure is in flight are looked at when it calls back.   *)
NoMissedWakeup ==
    Idle /\ listening /\ ~inProgress /\ allEvents # <<>> =>
        cursor <= N /\ ~Ready(Scheme[cursor], heap[eventList])

(* "When all the functions in the scheme have ran, the test is a success": *)
(* a test that passes has had every closure call back with a list, once.   *)
PassedRanAll ==
    "passed" \in {ends[j] : j \in DOMAIN ends} => \A i \in 1..N : yielded[i] = 1

(* The operation of a closure is started once: no second ping, no second   *)
(* SIGTERM while an event wakes the runner during the first.               *)
StartedOnce == \A i \in 1..N : calls[i] <= 1

(* t.end() is called once, and the deadline and a pass exclude each other; *)
(* after a crash the closures go on, and may end the test a second time.   *)
EndsOnce == Len(ends) > 1 => ends[1] = "crash"

(* When its last closure asserts there is nothing else (prepareCluster     *)
(* adds one), a test that passes with all its assertions has discarded     *)
(* each event it received, by a closure that names that kind of event, or  *)
(* alone, by an assertStateChange, which takes whatever it finds at its    *)
(* index.                                                                  *)
LeavesNothing == N > 0 /\ Scheme[N].op = "only"

PassedClean == ends # <<>> /\ ends[1] = "passed" /\ ~failed

Alone(e) == \A d \in DOMAIN allEvents : takenBy[d] = takenBy[e] => d = e

AllEventsExpected ==
    LeavesNothing /\ PassedClean
      => \A e \in DOMAIN allEvents :
           /\ takenBy[e] # 0
           /\ \/ allEvents[e] \in Scheme[takenBy[e]].accept
              \/ Scheme[takenBy[e]].op = "splice" /\ Alone(e)

(* A test during which the SUT died (a non-clean exit) never passes.       *)
CrashNeverPasses ==
    sut \in {"code", "signal"} /\ "passed" \in {ends[j] : j \in DOMAIN ends} => failed

(* The runner implements the contract its comment states.  The first call  *)
(* of t.end() decides the verdict.                                         *)
Contract == INSTANCE SchemeContract WITH
    ran     <- cursor - 1,
    seen    <- Len(allEvents),
    live    <- heap[eventList],
    verdict <- IF ends = <<>> THEN "running" ELSE ends[1]

ImplementsContract == Contract!ContractSpec

(* After the deadline no closure is started and no event is taken in.      *)
DeadlineStops ==
    [][timedOut => UNCHANGED <<calls, heap, allEvents, takenBy, timedOut, ends>>]_vars

(* Every test ends.                                                        *)
TestEnds == <>(ends # <<>>)
=============================================================================
