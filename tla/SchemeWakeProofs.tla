-------------------------- MODULE SchemeWakeProofs --------------------------
(***************************************************************************)
(* More theorems about the scheme runner: what holds of every scheme, also *)
(* of one with closures that call back several times; who wakes the runner *)
(* and where the events of a passing test went.                            *)
(***************************************************************************)
EXTENDS SchemeRunnerProofs, WellFoundedInduction

Stack(fs) == {fs[k] : k \in DOMAIN fs}

(* The callback of closure c is still to come, or it was swallowed.        *)
Answer(c) ==
    \/ \E p \in pending : p.step = c
    \/ \E f \in Stack(frames) : f.kind = "callback" /\ f.step = c
    \/ c \in dropped

(* No closure behind the cursor has been started.                          *)
Reached == \A i \in 1..N : calls[i] >= 1 => i <= cursor

(* The closure at the cursor, once started, will call back: _.once cannot  *)
(* leave the runner in progress with nothing under way.                    *)
Owed == cursor \in 1..N /\ calls[cursor] >= 1 => Answer(cursor)

(* A closure in progress calls back, or it is one that calls back several  *)
(* times and is still on the stack: it ends with a callback too.           *)
Held == inProgress = TRUE => Answer(cursor) \/ \E f \in Stack(frames) : f.kind = "multi"

(* The deadline comes between two turns and closes the channels.           *)
Late ==
    /\ phase = "idle" => frames = <<>>
    /\ timedOut = TRUE =>
         listening = FALSE /\ timer = "off" /\ \A f \in Stack(frames) : f.kind # "multi"

(* A multi closure on the stack is at the cursor, or the cursor has been   *)
(* moved on from it.                                                       *)
Behind ==
    \A f \in Stack(frames) :
      f.kind = "multi" => f.step \in 1..N /\ f.step <= cursor /\ Scheme[f.step].op = "multi"

(* An exit listener is held only while the SUT lives, and a callback is    *)
(* lost only for the reasons NoWedge names.                                *)
Reasons ==
    /\ sut # "up" => ExitPending = {}
    /\ \A c \in dropped : \/ Scheme[c].op = "request" /\ "silent" \in Scheme[c].onError
                          \/ TooLate(Scheme[c])

Promises == Reached /\ Owed /\ Held /\ Late /\ Behind /\ Reasons

LEMMA InitPromises == Init => Promises
BY DEF Init, Promises, Reached, Owed, Held, Late, Behind, Reasons, Stack

LEMMA ReasonsKept ==
    ASSUME Reasons, pending' \subseteq pending, UNCHANGED <<dropped, sut>>
    PROVE  Reasons'
BY DEF Reasons, ExitPending, TooLate

LEMMA StackFacts ==
    ASSUME NEW fs \in Seq(Frames)
    PROVE  /\ fs # <<>> => Stack(fs) = {Head(fs)} \cup Stack(Tail(fs))
           /\ fs # <<>> => Tail(fs) \in Seq(Frames)
           /\ \A f : Stack(<<f>> \o fs) = {f} \cup Stack(fs)
<1>1. ASSUME fs # <<>>
      PROVE  Stack(fs) = {Head(fs)} \cup Stack(Tail(fs)) /\ Tail(fs) \in Seq(Frames)
  <2> DEFINE ts == Tail(fs)
  <2>1. /\ Len(fs) \in Nat /\ Len(fs) >= 1 /\ Len(ts) = Len(fs) - 1 /\ ts \in Seq(Frames)
        /\ DOMAIN fs = 1..Len(fs) /\ DOMAIN ts = 1..Len(fs) - 1 /\ Head(fs) = fs[1]
        /\ \A k \in DOMAIN ts : ts[k] = fs[k + 1]
    BY <1>1
  <2> HIDE DEF ts
  <2>2. \A k \in DOMAIN fs : k = 1 \/ (k - 1 \in DOMAIN ts /\ ts[k - 1] = fs[k])
    BY <2>1
  <2>3. 1 \in DOMAIN fs /\ \A k \in DOMAIN ts : k + 1 \in DOMAIN fs
    BY <2>1
  <2>4. ASSUME NEW x PROVE x \in Stack(fs) <=> x = fs[1] \/ x \in Stack(ts)
    BY <2>1, <2>2, <2>3 DEF Stack
  <2>5. Stack(fs) = {Head(fs)} \cup Stack(ts)
    BY <2>1, <2>4
  <2> QED BY <2>1, <2>5 DEF ts
<1>2. ASSUME NEW f PROVE Stack(<<f>> \o fs) = {f} \cup Stack(fs)
  <2> DEFINE gs == <<f>> \o fs
  <2>1. /\ DOMAIN gs = 1..Len(fs) + 1 /\ gs[1] = f /\ Len(fs) \in Nat /\ DOMAIN fs = 1..Len(fs)
        /\ \A k \in DOMAIN fs : gs[k + 1] = fs[k]
    OBVIOUS
  <2>2. \A k \in DOMAIN gs : k = 1 \/ (k - 1 \in DOMAIN fs /\ fs[k - 1] = gs[k])
    BY <2>1
  <2>3. 1 \in DOMAIN gs /\ \A k \in DOMAIN fs : k + 1 \in DOMAIN gs
    BY <2>1
  <2> HIDE DEF gs
  <2>4. Stack(gs) = {f} \cup Stack(fs)
    BY <2>1, <2>2, <2>3 DEF Stack
  <2> QED BY <2>4 DEF gs
<1> QED BY <1>1, <1>2

(* A callback of any closure moves the cursor to one that has not been     *)
(* started, and leaves nothing in progress.                                *)
LEMMA CallbackPromises ==
    ASSUME TypeInv, Promises, NEW i, NEW list, Callback(i, list),
           UNCHANGED <<calls, timedOut, timer, listening, dropped, sut>>,
           pending' \subseteq pending,
           \A f \in Stack(frames') : f.kind = "multi" =>
             \E g \in Stack(frames) : g.kind = "multi" /\ g.step = f.step
    PROVE  Promises'
<1> USE DEF Promises
<1>1. /\ cursor' = cursor + 1 /\ inProgress' = FALSE /\ phase' = "run" /\ cursor \in Nat
      /\ N \in Nat /\ calls \in [1..N -> Nat]
  BY StepFields DEF Callback, TypeInv, TypeOK
<1>2. Reached'
  BY <1>1 DEF Reached
<1>3. Owed'
  <2> SUFFICES ASSUME cursor' \in 1..N, calls[cursor'] >= 1 PROVE FALSE
    BY DEF Owed
  <2>1. cursor' <= cursor
    BY DEF Reached
  <2> QED BY <1>1, <2>1
<1>4. Behind'
  BY <1>1 DEF Behind
<1>5. Held' /\ Late'
  BY <1>1 DEF Held, Late
<1> QED BY <1>2, <1>3, <1>4, <1>5, ReasonsKept

(* What keeps what a closure owes.                                         *)
LEMMA AnswerKept ==
    ASSUME NEW c, Answer(c), UNCHANGED <<pending, dropped, frames>>
    PROVE  Answer(c)'
BY DEF Answer

LEMMA PromisesKept ==
    ASSUME Promises, UNCHANGED <<calls, cursor, pending, dropped, frames, sut>>,
           inProgress' = TRUE => inProgress = TRUE,
           phase' = "idle" => frames = <<>>,
           /\ timedOut' = timedOut
           /\ listening = FALSE => listening' = FALSE
           /\ timer = "off" => timer' = "off"
    PROVE  Promises'
<1>1. Reasons'
  BY ReasonsKept DEF Promises
<1> QED BY <1>1 DEF Promises, Reached, Owed, Held, Late, Behind, Answer

(* progressFromCursor and the synchronous closures.                        *)
LEMMA ClosureStepsPromises ==
    ASSUME TypeInv, Promises, Blocked \/ ProgressionComplete \/ NotYet \/ RunInPlace \/ RunFilter
    PROVE  Promises'
<1>1. CASE Blocked
  BY <1>1, PromisesKept DEF Blocked, runner, log, outer
<1>2. CASE ProgressionComplete
  BY <1>2, PromisesKept DEF ProgressionComplete, runner, log
<1>3. CASE NotYet
  <2>1. /\ UNCHANGED <<cursor, calls, log, outer, frames>> /\ inProgress' = FALSE
        /\ phase' = "return"
    BY <1>3 DEF NotYet, CallbackNull
  <2> QED BY <2>1, PromisesKept DEF log, outer
<1>4. CASE RunInPlace \/ RunFilter
  <2>1. /\ UNCHANGED <<calls, timedOut, timer, listening, frames, dropped, sut, pending>>
        /\ \E i, list : Callback(i, list)
    BY <1>4 DEF RunInPlace, RunFilter, outer, log
  <2> QED BY <2>1, CallbackPromises
<1> QED BY <1>1, <1>2, <1>3, <1>4

(* _.once bites only where the first call still owes its callback.         *)
LEMMA RunAsyncPromises ==
    ASSUME TypeInv, Promises, RunAsync
    PROVE  Promises'
<1> USE DEF Promises
<1> DEFINE p == [step |-> cursor, list |-> eventList, call |-> calls[cursor] + 1]
<1>1. /\ cursor \in 1..N /\ cursor' = cursor /\ UNCHANGED <<outer, frames>>
      /\ phase' = "return" /\ calls \in [1..N -> Nat]
  BY CallingCursor DEF RunAsync, TypeInv, TypeOK
<1>2. Answer(cursor)' /\ Reached' /\ Reasons'
  <2>1. CASE Once(Scheme[cursor]) /\ calls[cursor] > 0
    <3>1. UNCHANGED <<calls, pending, dropped>>
      BY <2>1 DEF RunAsync
    <3>2. calls[cursor] >= 1
      BY <1>1, <2>1
    <3>3. Answer(cursor)
      BY <1>1, <3>2 DEF Owed
    <3> QED BY <1>1, <3>1, <3>3, ReasonsKept DEF Answer, Reached, outer
  <2>2. CASE ~(Once(Scheme[cursor]) /\ calls[cursor] > 0)
    <3>1. calls' = [calls EXCEPT ![cursor] = @ + 1]
      BY <2>2 DEF RunAsync
    <3>2. Reached'
      BY <1>1, <3>1 DEF Reached
    <3>3. CASE TooLate(Scheme[cursor])
      <4>1. dropped' = dropped \cup {cursor} /\ UNCHANGED <<pending, sut>>
        BY <1>1, <2>2, <3>3 DEF RunAsync, outer
      <4> QED BY <1>1, <3>2, <3>3, <4>1 DEF Answer, Reasons, ExitPending, TooLate
    <3>4. CASE ~TooLate(Scheme[cursor])
      <4>1. pending' = pending \cup {p} /\ UNCHANGED <<dropped, sut>>
        BY <1>1, <2>2, <3>4 DEF RunAsync, outer
      <4>2. p.step = cursor
        OBVIOUS
      <4> HIDE DEF p
      <4>3. Answer(cursor)'
        BY <1>1, <4>1, <4>2 DEF Answer
      <4>4. Reasons'
        BY <3>4, <4>1, <4>2 DEF Reasons, ExitPending, TooLate
      <4> QED BY <3>2, <4>3, <4>4
    <3> QED BY <3>3, <3>4
  <2> QED BY <2>1, <2>2
<1>3. Owed' /\ Held'
  BY <1>1, <1>2 DEF Owed, Held
<1>4. Late' /\ Behind'
  BY <1>1 DEF Late, Behind, outer
<1> QED BY <1>2, <1>3, <1>4

LEMMA RunMultiPromises ==
    ASSUME TypeInv, Promises, RunMulti
    PROVE  Promises'
<1> USE DEF Promises
<1> DEFINE f == [kind |-> "multi", step |-> cursor, list |-> eventList,
                 left |-> Of(Scheme[cursor].accept, heap[eventList])]
<1>1. /\ UNCHANGED <<cursor, calls, log, outer>> /\ phase' = "return" /\ timedOut # TRUE
      /\ cursor \in 1..N /\ Scheme[cursor].op = "multi" /\ frames' = <<f>> \o frames
  BY CallingCursor DEF RunMulti, Calling, MayRun
<1>2. Stack(frames') = {f} \cup Stack(frames)
  BY <1>1, StackFacts DEF TypeInv, TypeOK
<1>3. f.kind = "multi" /\ f.step = cursor
  OBVIOUS
<1> HIDE DEF f
<1>4. Behind'
  BY <1>1, <1>2, <1>3 DEF Behind
<1>5. Held' /\ Late'
  BY <1>1, <1>2, <1>3 DEF Held, Late, outer
<1>6. Answer(cursor) => Answer(cursor)'
  BY <1>1, <1>2 DEF Answer, log
<1>7. Owed' /\ Reached' /\ Reasons'
  BY <1>1, <1>6, ReasonsKept DEF Owed, Reached, log, outer
<1> QED BY <1>4, <1>5, <1>7

(* What the callers on the stack do.                                       *)
LEMMA ReturnStepsPromises ==
    ASSUME TypeInv, Promises,
           TurnEnds \/ ThenCallback \/ ThenEmit \/ MultiYields \/ MultiReturns
    PROVE  Promises'
<1> USE DEF Promises
<1>0. frames \in Seq(Frames)
  BY DEF TypeInv, TypeOK
<1>1. CASE TurnEnds
  BY <1>1, PromisesKept DEF TurnEnds, runner, log, outer
<1>2. ASSUME frames # <<>>
      PROVE  Stack(frames) = {Head(frames)} \cup Stack(Tail(frames)) /\ Tail(frames) \in Seq(Frames)
  BY <1>0, <1>2, StackFacts
<1>3. CASE ThenCallback
  <2>1. /\ UNCHANGED <<calls, timedOut, timer, listening, dropped, sut, pending>>
        /\ \E i, list : Callback(i, list)
        /\ Stack(frames') \subseteq Stack(frames)
    BY <1>2, <1>3 DEF ThenCallback, Top, outer, log
  <2> QED BY <2>1, CallbackPromises
<1>4. CASE ThenEmit
  <2>1. /\ UNCHANGED <<cursor, inProgress, calls, pending, dropped, outer>>
        /\ Head(frames).kind = "emit" /\ frames' = Tail(frames) /\ phase' # "idle"
        /\ frames # <<>>
    BY <1>4 DEF ThenEmit, Top, Push
  <2>2. Answer(cursor) => Answer(cursor)'
    BY <1>2, <2>1 DEF Answer
  <2>3. Owed' /\ Reached' /\ Reasons'
    BY <2>1, <2>2, ReasonsKept DEF Owed, Reached, outer
  <2>4. Held'
    BY <1>2, <2>1, <2>2 DEF Held
  <2>5. Late' /\ Behind'
    BY <1>2, <2>1 DEF Late, Behind, outer
  <2> QED BY <2>3, <2>4, <2>5
<1>5. CASE MultiYields
  <2> DEFINE f == Head(frames)
             g == [f EXCEPT !.left = @ \ {Min(f.left)}]
  <2>1. /\ UNCHANGED <<calls, timedOut, timer, listening, dropped, sut, pending>>
        /\ \E i, list : Callback(i, list)
        /\ frames # <<>> /\ f.kind = "multi" /\ frames' = <<g>> \o Tail(frames)
    BY <1>5 DEF MultiYields, Top, outer, log
  <2>2. Stack(frames') = {g} \cup Stack(Tail(frames))
    BY <1>2, <2>1, StackFacts
  <2>3. g.step = f.step
    <3>1. f \in Frames /\ f.kind = "multi"
      BY <2>1, FramesType
    <3> QED BY <3>1 DEF Frames
  <2> HIDE DEF g
  <2>4. ASSUME NEW h \in Stack(frames'), h.kind = "multi"
        PROVE  \E k \in Stack(frames) : k.kind = "multi" /\ k.step = h.step
    BY <1>2, <2>1, <2>2, <2>3, <2>4
  <2> QED BY <2>1, <2>4, CallbackPromises
<1>6. CASE MultiReturns
  <2>1. /\ inProgress' = FALSE /\ UNCHANGED <<cursor, calls, log, outer, phase>> /\ phase = "return"
        /\ frames # <<>> /\ frames' = Tail(frames) /\ Head(frames).kind = "multi"
    BY <1>6 DEF MultiReturns, CallbackNull, Top
  <2>2. Answer(cursor) => Answer(cursor)'
    BY <1>2, <2>1 DEF Answer, log
  <2>3. Owed' /\ Reached' /\ Held' /\ Reasons'
    BY <2>1, <2>2, ReasonsKept DEF Owed, Reached, Held, log, outer
  <2>4. Late' /\ Behind'
    BY <1>2, <2>1 DEF Late, Behind, outer
  <2> QED BY <2>3, <2>4
<1> QED BY <1>1, <1>3, <1>4, <1>5, <1>6

(* The callback of an entry the environment held moves to the stack.       *)
LEMMA StackedPromises ==
    ASSUME TypeInv, Promises, NEW p \in pending, phase = "idle",
           UNCHANGED <<calls, cursor, inProgress, dropped, timedOut, sut>>, phase' # "idle",
           listening = FALSE => listening' = FALSE, timer = "off" => timer' = "off",
           pending' = pending \ {p},
           frames' = <<[kind |-> "callback", step |-> p.step, list |-> p.list]>>
    PROVE  Promises'
<1> USE DEF Promises
<1> DEFINE f == [kind |-> "callback", step |-> p.step, list |-> p.list]
<1>1. Stack(frames) = {} /\ Stack(frames') = {f} /\ f.kind = "callback" /\ f.step = p.step
  BY DEF Late, Stack
<1> HIDE DEF f
<1>2. ASSUME NEW c, Answer(c) PROVE Answer(c)'
  BY <1>1, <1>2 DEF Answer
<1>3. Owed' /\ Reached' /\ Held'
  BY <1>1, <1>2 DEF Owed, Reached, Held
<1>4. Late' /\ Behind' /\ Reasons'
  BY <1>1, ReasonsKept DEF Late, Behind
<1> QED BY <1>3, <1>4

LEMMA EnvironmentPromises ==
    ASSUME TypeInv, Promises, Environment
    PROVE  Promises'
<1> USE DEF Promises
<1>0. phase = "idle" => frames = <<>> /\ Stack(frames) = {}
  BY DEF Late, Stack
<1>1. ASSUME NEW kind \in Requests, Arrive(kind) PROVE Promises'
  <2>1. /\ UNCHANGED <<cursor, inProgress, calls, pending, dropped, outer, frames>> /\ phase' = "run"
    BY <1>1 DEF Arrive, Push
  <2> QED BY <2>1, PromisesKept DEF outer
<1>2. ASSUME NEW p \in pending, TimerFires(p) \/ RequestFailsLoudly(p) PROVE Promises'
  <2>1. /\ UNCHANGED <<calls, timedOut, timer, listening, frames, dropped, sut>>
        /\ Callback(p.step, p.list) /\ pending' \subseteq pending
    BY <1>2 DEF TimerFires, RequestFailsLoudly, outer
  <2> QED BY <2>1, CallbackPromises
<1>3. ASSUME NEW p \in pending, RequestFailsSilently(p) PROVE Promises'
  <2>1. /\ UNCHANGED <<runner, allEvents, outer, phase, frames>>
        /\ pending' = pending \ {p} /\ dropped' = dropped \cup {p.step}
        /\ Scheme[p.step].op = "request" /\ "silent" \in Scheme[p.step].onError
    BY <1>3 DEF RequestFailsSilently
  <2>2. ASSUME NEW c, Answer(c) PROVE Answer(c)'
    BY <2>1, <2>2 DEF Answer
  <2>3. Owed' /\ Reached' /\ Held'
    BY <2>1, <2>2 DEF Owed, Reached, Held, runner
  <2>4. Late' /\ Behind' /\ Reasons'
    BY <2>1 DEF Late, Behind, Reasons, ExitPending, TooLate, outer, runner
  <2> QED BY <2>3, <2>4
<1>4. ASSUME NEW p \in pending, Reply(p) PROVE Promises'
  <2>0. phase = "idle" /\ UNCHANGED <<calls, dropped, outer>> /\ pending' = pending \ {p}
    BY <1>4 DEF Reply, Idle
  <2>1. CASE Scheme[p.step].eventFirst
    <3>1. /\ UNCHANGED <<cursor, inProgress>> /\ phase' = "run"
          /\ frames' = <<[kind |-> "callback", step |-> p.step, list |-> p.list]>>
      BY <1>4, <2>1 DEF Reply, Push
    <3> QED BY <2>0, <3>1, StackedPromises DEF outer
  <2>2. CASE ~Scheme[p.step].eventFirst
    <3>1. /\ Callback(p.step, p.list)
          /\ frames' = <<[kind |-> "emit", type |-> Scheme[p.step].reply]>>
      BY <1>4, <2>2 DEF Reply
    <3>2. \A f \in Stack(frames') : f.kind # "multi"
      BY <3>1 DEF Stack
    <3> QED BY <2>0, <3>1, <3>2, CallbackPromises DEF outer
  <2> QED BY <2>1, <2>2
<1>5. ASSUME NEW how \in {"clean", "code", "signal", "killed"}, SutExits(how) PROVE Promises'
  <2>1. /\ UNCHANGED <<runner, allEvents, dropped, timedOut>> /\ phase = "idle"
        /\ listening = FALSE => listening' = FALSE
        /\ timer = "off" => timer' = "off"
        /\ pending' = pending \ ExitPending /\ phase' = "return" /\ sut = "up"
    BY <1>5 DEF SutExits, Idle
  <2>2. PICK queue \in ExitListeners :
          frames' = [k \in DOMAIN queue |->
                      [kind |-> "callback", step |-> queue[k].step, list |-> queue[k].list]]
    BY <1>5 DEF SutExits
  <2>3. \A f \in Stack(frames') : f.kind = "callback"
    BY <2>2 DEF Stack
  <2>4. ASSUME NEW p \in ExitPending
        PROVE  \E f \in Stack(frames') : f.kind = "callback" /\ f.step = p.step
    <3>1. PICK k \in DOMAIN queue : queue[k] = p
      BY DEF ExitListeners
    <3>2. k \in DOMAIN frames' /\ frames'[k].kind = "callback" /\ frames'[k].step = p.step
      BY <2>2, <3>1
    <3> QED BY <3>2 DEF Stack
  <2>5. ASSUME NEW c, Answer(c) PROVE Answer(c)'
    BY <1>0, <2>1, <2>4, <2>5 DEF Answer
  <2>6. Owed' /\ Reached' /\ Held'
    <3>1. UNCHANGED <<calls, cursor, inProgress>>
      BY <2>1 DEF runner
    <3> QED BY <1>0, <2>1, <2>5, <3>1 DEF Owed, Reached, Held
  <2>7. Late' /\ Behind'
    BY <2>1, <2>3 DEF Late, Behind
  <2>8. Reasons'
    BY <2>1 DEF Reasons, ExitPending, TooLate
  <2> QED BY <2>6, <2>7, <2>8
<1>6. CASE Deadline
  <2>1. /\ UNCHANGED <<runner, log, phase, frames>> /\ listening' = FALSE /\ timer' = "off"
        /\ phase = "idle"
    BY <1>6 DEF Deadline, Idle
  <2>2. Owed' /\ Reached' /\ Held' /\ Behind'
    BY <2>1 DEF Owed, Reached, Held, Behind, Answer, runner, log
  <2>3. Late' /\ Reasons'
    BY <1>0, <1>6, <2>1, ReasonsKept DEF Late, Deadline, log
  <2> QED BY <2>2, <2>3
<1> QED BY <1>1, <1>2, <1>3, <1>4, <1>5, <1>6 DEF Environment

LEMMA NextPromises ==
    ASSUME TypeInv, Promises, [Next]_vars
    PROVE  Promises'
<1>1. CASE UNCHANGED vars
  <2>1. UNCHANGED <<runner, log, outer, phase, frames>>
    BY <1>1 DEF vars
  <2>2. phase' = "idle" => frames = <<>>
    BY <2>1 DEF Promises, Late
  <2> QED BY <2>1, <2>2, PromisesKept DEF runner, log, outer
<1> QED BY <1>1, ClosureStepsPromises, RunAsyncPromises, RunMultiPromises, ReturnStepsPromises,
        EnvironmentPromises DEF Next, Turn

LEMMA PromiseInvariant == Spec => [](TypeInv /\ Promises)
<1>1. Init => TypeInv /\ Promises
  BY InitType, InitPromises
<1>2. TypeInv /\ Promises /\ [Next]_vars => (TypeInv /\ Promises)'
  BY NextType, NextPromises
<1> QED BY <1>1, <1>2, PTL DEF Spec

(* Whatever the scheme, a closure in progress between two turns has a      *)
(* callback to wait for that can come (_.once, and the callback(null) that *)
(* ends a multi closure), unless it is a request whose error path has      *)
(* swallowed it, or an exit closure that came after the SUT's exit.        *)
THEOREM NeverWedged == Spec => []NoWedge
<1>1. TypeInv /\ Promises => NoWedge
  <2> SUFFICES ASSUME TypeInv, Promises, Idle, inProgress = TRUE
               PROVE  \/ \E p \in pending : Scheme[p.step].op = "exit" => sut = "up"
                      \/ /\ cursor \in dropped
                         /\ \/ /\ Scheme[cursor].op = "request"
                               /\ "silent" \in Scheme[cursor].onError
                            \/ TooLate(Scheme[cursor])
    BY DEF NoWedge, TypeInv, TypeOK
  <2>1. Stack(frames) = {}
    BY DEF Promises, Late, Idle, Stack
  <2>2. (\E p \in pending : p.step = cursor) \/ cursor \in dropped
    BY <2>1 DEF Promises, Held, Answer
  <2>3. ASSUME NEW p \in pending PROVE Scheme[p.step].op = "exit" => sut = "up"
    BY DEF Promises, Reasons, ExitPending
  <2>4. CASE \E p \in pending : p.step = cursor
    BY <2>3, <2>4
  <2>5. CASE cursor \in dropped
    BY <2>5 DEF Promises, Reasons
  <2> QED BY <2>2, <2>4, <2>5
<1> QED BY <1>1, PromiseInvariant, PTL

(* Whatever the scheme, after the deadline nothing is started, received or *)
(* decided any more.                                                       *)
THEOREM DeadlineIsFinal == Spec => DeadlineStops
<1> DEFINE Still == UNCHANGED <<calls, heap, allEvents, takenBy, timedOut, ends>>
<1>1. ASSUME TypeInv, Promises, [Next]_vars, timedOut PROVE Still
  <2>1. timedOut = TRUE /\ listening = FALSE /\ timer = "off" /\ ~MayRun
    BY <1>1 DEF Promises, Late, MayRun, TypeInv, TypeOK
  <2>2. ~MultiYields
    <3>1. \A f \in Stack(frames) : f.kind # "multi"
      BY <1>1, <2>1 DEF Promises, Late
    <3>2. frames # <<>> => Head(frames) \in Stack(frames)
      BY <1>1, StackFacts DEF TypeInv, TypeOK
    <3> QED BY <3>1, <3>2 DEF MultiYields, Top
  <2>3. CASE Turn
    <3>1. CASE Blocked \/ TurnEnds \/ MultiReturns
      BY <3>1 DEF Blocked, TurnEnds, MultiReturns, runner, log, outer
    <3>2. CASE ThenCallback
      BY <3>2 DEF ThenCallback, log, outer
    <3>3. CASE ThenEmit
      BY <2>1, <3>3 DEF ThenEmit, outer
    <3> QED BY <2>1, <2>2, <2>3, <3>1, <3>2, <3>3
            DEF Turn, ProgressionComplete, NotYet, RunInPlace, RunFilter, RunAsync, RunMulti, Calling
  <2>4. CASE Environment
    <3>1. ASSUME NEW p \in pending, TimerFires(p) \/ RequestFailsLoudly(p) \/ RequestFailsSilently(p)
          PROVE Still
      BY <3>1 DEF TimerFires, RequestFailsLoudly, RequestFailsSilently, runner, outer
    <3>2. ASSUME NEW how, SutExits(how) PROVE Still
      BY <2>1, <3>2 DEF SutExits, runner
    <3> QED BY <2>1, <2>4, <3>1, <3>2 DEF Environment, Arrive, Reply, Deadline
  <2>5. CASE UNCHANGED vars
    BY <2>5 DEF vars, runner, log, outer
  <2> QED BY <1>1, <2>3, <2>4, <2>5 DEF Next
<1>2. TypeInv /\ Promises /\ [Next]_vars => [timedOut => Still]_vars
  BY <1>1
<1> QED BY <1>2, PromiseInvariant, PTL DEF Spec, DeadlineStops

----------------------------------------------------------------------------
(* What is started.                                                        *)

Async == {"wait", "request", "exit"}

(* Operations behind a closure that calls back several times are wrapped   *)
(* in _.once, as they are in the tests.                                    *)
OnceBehindMulti ==
    \A i, j \in 1..N : Scheme[i].op = "multi" /\ i < j /\ Scheme[j].op \in Async => Once(Scheme[j])

(* What has been started is behind the cursor, or in progress at it, or it *)
(* is at it and _.once stops a second start.                               *)
Started ==
    \A i \in 1..N :
      /\ calls[i] <= 1
      /\ calls[i] = 1 => /\ Scheme[i].op \in Async
                         /\ i < cursor \/ (i = cursor /\ (inProgress = TRUE \/ Once(Scheme[i])))

(* What a step does to the cursor and to what has been started.            *)
LEMMA CursorSteps ==
    ASSUME TypeInv, [Next]_vars
    PROVE  \/ UNCHANGED <<calls, cursor, inProgress>>
           \/ UNCHANGED <<calls, cursor>> /\ inProgress # TRUE
           \/ UNCHANGED calls /\ \E i, list : Callback(i, list)
           \/ RunAsync
           \/ MultiReturns
<1>1. CASE Blocked \/ ProgressionComplete \/ TurnEnds \/ ThenEmit \/ Deadline \/ UNCHANGED vars
  BY <1>1 DEF Blocked, ProgressionComplete, TurnEnds, ThenEmit, Deadline, vars, runner
<1>2. CASE NotYet \/ RunMulti
  <2>1. UNCHANGED <<calls, cursor>> /\ Calling({"take", "peek", "gather", "sift", "splice", "multi"})
    BY <1>2 DEF NotYet, RunMulti, CallbackNull, Calling
  <2> QED BY <2>1, CallingCursor
<1>3. CASE RunInPlace \/ RunFilter \/ ThenCallback \/ MultiYields
  BY <1>3 DEF RunInPlace, RunFilter, ThenCallback, MultiYields
<1>4. CASE Environment
  <2>1. ASSUME NEW kind, Arrive(kind) PROVE UNCHANGED <<calls, cursor, inProgress>>
    BY <2>1 DEF Arrive
  <2>2. ASSUME NEW p, TimerFires(p) \/ RequestFailsLoudly(p)
        PROVE  UNCHANGED calls /\ \E i, list : Callback(i, list)
    BY <2>2 DEF TimerFires, RequestFailsLoudly
  <2>3. ASSUME NEW p, RequestFailsSilently(p) PROVE UNCHANGED <<calls, cursor, inProgress>>
    BY <2>3 DEF RequestFailsSilently, runner
  <2>4. ASSUME NEW p, Reply(p)
        PROVE  UNCHANGED calls /\ (UNCHANGED <<cursor, inProgress>> \/ \E i, list : Callback(i, list))
    BY <2>4 DEF Reply
  <2>5. ASSUME NEW how, SutExits(how) PROVE UNCHANGED <<calls, cursor, inProgress>>
    BY <2>5 DEF SutExits, runner
  <2> QED BY <1>1, <1>4, <2>1, <2>2, <2>3, <2>4, <2>5 DEF Environment
<1> QED BY <1>1, <1>2, <1>3, <1>4 DEF Next, Turn

LEMMA NextStarted ==
    ASSUME OnceBehindMulti, TypeInv, Promises, Started, [Next]_vars
    PROVE  Started'
<1>0. cursor \in Nat /\ calls \in [1..N -> Nat] /\ N \in Nat
  BY StepFields DEF TypeInv, TypeOK
<1>1. CASE UNCHANGED <<calls, cursor, inProgress>>
  BY <1>1 DEF Started
<1>2. CASE UNCHANGED <<calls, cursor>> /\ inProgress # TRUE
  BY <1>2 DEF Started
<1>3. ASSUME UNCHANGED calls, NEW i, NEW list, Callback(i, list) PROVE Started'
  <2>1. cursor' = cursor + 1
    BY <1>3 DEF Callback
  <2> QED BY <1>0, <1>3, <2>1 DEF Started
<1>4. CASE RunAsync
  <2>1. /\ cursor \in 1..N /\ inProgress # TRUE /\ Scheme[cursor].op \in Async
        /\ inProgress' = TRUE /\ cursor' = cursor
    BY <1>0, <1>4, CallingCursor DEF RunAsync, Calling, Async
  <2>2. CASE UNCHANGED calls
    BY <1>0, <2>1, <2>2 DEF Started
  <2>3. CASE /\ ~(Once(Scheme[cursor]) /\ calls[cursor] > 0)
             /\ calls' = [calls EXCEPT ![cursor] = @ + 1]
    <3>1. calls[cursor] = 0
      <4>1. calls[cursor] \in Nat /\ calls[cursor] <= 1 /\ ~(cursor < cursor)
        BY <1>0, <2>1 DEF Started
      <4>2. calls[cursor] = 1 => Once(Scheme[cursor])
        BY <2>1, <4>1 DEF Started
      <4> QED BY <2>3, <4>1, <4>2
    <3>2. \A i \in 1..N : calls'[i] = IF i = cursor THEN 1 ELSE calls[i]
      BY <1>0, <2>3, <3>1
    <3> QED BY <1>0, <2>1, <3>2 DEF Started
  <2> QED BY <1>4, <2>2, <2>3 DEF RunAsync
<1>5. CASE MultiReturns
  <2> DEFINE f == Head(frames)
  <2>1. UNCHANGED <<calls, cursor>> /\ frames # <<>> /\ f.kind = "multi"
    BY <1>5 DEF MultiReturns, CallbackNull, Top
  <2>2. f \in Stack(frames)
    BY <2>1, StackFacts DEF TypeInv, TypeOK
  <2> HIDE DEF f
  <2>3. f.step \in 1..N /\ f.step <= cursor /\ Scheme[f.step].op = "multi"
    BY <2>1, <2>2 DEF Promises, Behind
  <2>4. ASSUME cursor \in 1..N, Scheme[cursor].op \in Async PROVE Once(Scheme[cursor])
    <3>1. f.step # cursor
      BY <2>3, <2>4 DEF Async
    <3>2. f.step < cursor
      BY <1>0, <2>3, <3>1
    <3> QED BY <2>3, <2>4, <3>2 DEF OnceBehindMulti
  <2> QED BY <1>0, <2>1, <2>4 DEF Started
<1> QED BY <1>1, <1>2, <1>3, <1>4, <1>5, CursorSteps

(* No closure starts its operation twice (RunAsync: the request or the     *)
(* timer of an asynchronous closure), not even behind a closure that calls *)
(* back for every event and makes the runner call its successors again.    *)
THEOREM OperationsStartOnce ==
    ASSUME OnceBehindMulti
    PROVE  Spec => []StartedOnce
<1>1. Init => Started
  BY DEF Init, Started
<1>2. OnceBehindMulti /\ TypeInv /\ Promises /\ Started /\ [Next]_vars => Started'
  BY NextStarted
<1>3. Started => StartedOnce
  BY DEF Started, StartedOnce
<1> QED BY <1>1, <1>2, <1>3, PromiseInvariant, PTL DEF Spec

----------------------------------------------------------------------------
(* Who wakes the runner, when closures call back once.                     *)

Lacking == cursor <= N /\ ~Ready(Scheme[cursor], heap[eventList])

(* Behind a call of progressFromCursor the runner rests with a reason.     *)
Watched ==
    phase # "run" /\ listening = TRUE /\ inProgress # TRUE /\ allEvents # <<>> => Lacking

(* Taking events away makes no closure ready that was not.                 *)
LEMMA LessIsNotReady ==
    ASSUME NEW s \in Step, s.op \in {"take", "peek", "gather", "sift", "splice"}, ~Ready(s, heap[eventList]),
           NEW gone, s.op # "sift" => gone = {}
    PROVE  ~Ready(s, heap[eventList] \ gone)
<1>1. CASE s.op = "sift"
  BY <1>1 DEF Ready, Of
<1>2. CASE s.op # "sift"
  <2>1. heap[eventList] \ gone = heap[eventList]
    BY <1>2
  <2> QED BY <2>1
<1> QED BY <1>1, <1>2

(* Without multi closures the steps are the others.                        *)
LEMMA PlainSteps ==
    ASSUME NoMulti, Order, [Next]_vars
    PROVE  \/ Blocked \/ ProgressionComplete \/ NotYet \/ RunInPlace \/ RunFilter
           \/ RunAsync
           \/ TurnEnds \/ ThenCallback \/ ThenEmit
           \/ Environment
           \/ UNCHANGED <<runner, log, outer, phase, frames>>
<1>1. ~RunMulti
  BY CallingCursor DEF NoMulti, Order, RunMulti, Calling
<1>2. ~MultiYields /\ ~MultiReturns
  BY TheFrame DEF MultiYields, MultiReturns, Top
<1> QED BY <1>1, <1>2 DEF Next, Turn, vars

LEMMA NotYetWatched ==
    ASSUME TypeInv, NotYet
    PROVE  Lacking'
<1> DEFINE s == Scheme[cursor]
           gone == IF s.op = "sift" THEN Removed(s, heap[eventList]) ELSE {}
<1>1. /\ heap' = [heap EXCEPT ![eventList] = @ \ gone] /\ UNCHANGED <<eventList, cursor, allEvents>>
      /\ s.op \in {"take", "peek", "gather", "sift", "splice"} /\ ~Ready(s, heap[eventList])
      /\ cursor \in 1..N
  BY CallingCursor DEF NotYet, CallbackNull, Calling, log
<1>2. s \in Step
  BY <1>1, StepFields
<1>3. heap'[eventList'] = heap[eventList] \ gone
  BY <1>1 DEF TypeInv, TypeOK
<1>4. s.op # "sift" => gone = {}
  OBVIOUS
<1> HIDE DEF gone
<1>5. ~Ready(s, heap[eventList] \ gone)
  BY <1>1, <1>2, <1>4, LessIsNotReady
<1> QED BY <1>1, <1>3, <1>5 DEF Lacking, Ready, Of

(* A step that leaves the runner resting has looked at the events; every   *)
(* other one calls it, has a closure in progress, or stops listening.      *)
LEMMA NextWatched ==
    ASSUME NoMulti, Order, Watched, [Next]_vars
    PROVE  Watched'
<1>0. TypeInv
  BY DEF Order
<1>1. CASE Blocked
  <2>1. /\ UNCHANGED <<runner, outer>>
        /\ timedOut = TRUE \/ inProgress = TRUE
    BY <1>0, <1>1 DEF Blocked, TypeInv, TypeOK
  <2>2. listening' # TRUE \/ inProgress' = TRUE
    BY <2>1 DEF Order, Verdict, runner, outer
  <2> QED BY <2>2 DEF Watched
<1>2. CASE ProgressionComplete \/ Deadline
  <2>1. listening' = FALSE
    BY <1>2 DEF ProgressionComplete, Deadline
  <2> QED BY <2>1 DEF Watched
<1>3. CASE NotYet
  BY <1>0, <1>3, NotYetWatched DEF Watched
<1>4. CASE RunInPlace \/ RunFilter \/ ThenCallback
  <2>1. phase' = "run"
    BY <1>4 DEF RunInPlace, RunFilter, ThenCallback, Callback
  <2> QED BY <2>1 DEF Watched
<1>5. CASE RunAsync
  BY <1>5 DEF RunAsync, Watched
<1>6. ASSUME phase # "run", UNCHANGED <<runner, allEvents>>, listening' = TRUE => listening = TRUE
      PROVE  Watched'
  BY <1>6 DEF Watched, Lacking, Ready, Of, runner
<1>7. CASE TurnEnds \/ UNCHANGED <<runner, log, outer, phase, frames>>
  <2>1. UNCHANGED <<runner, allEvents, listening>>
    BY <1>7 DEF TurnEnds, log, outer
  <2>2. CASE phase # "run"
    BY <1>6, <2>1, <2>2
  <2>3. CASE phase = "run"
    BY <1>7, <2>3 DEF TurnEnds, Watched
  <2> QED BY <2>2, <2>3
<1>8. CASE ThenEmit
  <2>1. phase' = "run" \/ listening' # TRUE
    BY <1>0, <1>8 DEF ThenEmit, Push, outer, TypeInv, TypeOK
  <2> QED BY <2>1 DEF Watched
<1>9. CASE Environment
  <2>1. ASSUME NEW kind, Arrive(kind) PROVE phase' = "run"
    BY <2>1 DEF Arrive, Push
  <2>2. ASSUME NEW p, TimerFires(p) \/ RequestFailsLoudly(p) \/ Reply(p) PROVE phase' = "run"
    BY <2>2 DEF TimerFires, RequestFailsLoudly, Reply, Callback, Push
  <2>3. ASSUME NEW p, RequestFailsSilently(p) PROVE Watched'
    <3>1. phase # "run" /\ UNCHANGED <<runner, allEvents, listening>>
      BY <2>3 DEF RequestFailsSilently, Idle, outer
    <3> QED BY <1>6, <3>1
  <2>4. ASSUME NEW how, SutExits(how) PROVE Watched'
    <3>1. phase # "run" /\ UNCHANGED <<runner, allEvents>> /\ (listening' = TRUE => listening = TRUE)
      BY <2>4 DEF SutExits, Idle
    <3> QED BY <1>6, <3>1
  <2>5. phase' = "run" => Watched'
    BY DEF Watched
  <2> QED BY <1>2, <1>9, <2>1, <2>2, <2>3, <2>4, <2>5 DEF Environment
<1> QED BY <1>1, <1>2, <1>3, <1>4, <1>5, <1>7, <1>8, <1>9, PlainSteps

(* Between two turns the runner rests only on a closure that lacks events. *)
THEOREM NoWakeupMissed ==
    ASSUME NoMulti
    PROVE  Spec => []NoMissedWakeup
<1>1. Init => Order /\ Watched
  BY InitOrder DEF Init, Watched
<1>2. NoMulti /\ Order /\ Watched /\ [Next]_vars => (Order /\ Watched)'
  BY NextOrder, NextWatched
<1>3. Order /\ Watched => NoMissedWakeup
  BY DEF Order, TypeInv, TypeOK, Watched, Lacking, NoMissedWakeup, Idle
<1> QED BY <1>1, <1>2, <1>3, PTL DEF Spec

----------------------------------------------------------------------------
(* Where the events went.                                                  *)

(* Who removes an event accepts its kind, or removes this one only.        *)
TakenByKind ==
    \A e \in DOMAIN allEvents :
      takenBy[e] # 0 => IF Scheme[takenBy[e]].op = "splice"
                          THEN Alone(e) ELSE allEvents[e] \in Scheme[takenBy[e]].accept

(* The closure at the cursor has removed nothing, unless it sifts.         *)
TakenBehind ==
    \A e \in DOMAIN allEvents :
      takenBy[e] # 0 => \/ takenBy[e] < cursor
                        \/ takenBy[e] = cursor /\ Scheme[cursor].op = "sift"

Taken == TakenByKind /\ TakenBehind

(* A callback on the stack is that of a request or an exit.                *)
FrameOps ==
    \A k \in DOMAIN frames : frames[k].kind = "callback" =>
      Scheme[frames[k].step].op \in {"request", "exit"}

(* Behind the last closure nothing is in progress and nobody listens, and  *)
(* if it did not fail it has left nothing.                                 *)
Finished ==
    /\ inProgress = TRUE => cursor <= N
    /\ N > 0 /\ cursor = N + 1 /\ phase # "run" => listening # TRUE
    /\ LeavesNothing /\ failed = FALSE /\ cursor = N + 1 => heap[eventList] = {}

Account == Taken /\ FrameOps /\ Finished

LEMMA InitAccount == Init => Account
BY StepFields DEF Init, Account, Taken, TakenByKind, TakenBehind, FrameOps, Finished, LeavesNothing

LEMMA MinIsMember ==
    ASSUME NEW S \in SUBSET Nat, S # {}
    PROVE  Min(S) \in S
<1>1. PICK x \in S : \A y \in S : ~(<<y, x>> \in OpToRel(<, Nat))
  BY NatLessThanWellFounded, WFMin
<1>2. ASSUME NEW y \in S, y < x PROVE FALSE
  <2>1. <<y, x>> \in Nat \X Nat /\ <<y, x>>[1] < <<y, x>>[2]
    BY <1>2
  <2> QED BY <1>1, <2>1, Zenon DEF OpToRel
<1>3. \A y \in S : x <= y
  BY <1>2
<1> QED BY <1>3 DEF Min

(* What a closure removes it accepts.                                      *)
LEMMA RemovedIsAccepted ==
    ASSUME NEW s \in Step, NEW list \in SUBSET Nat,
           s.op \in {"take", "peek", "gather", "sift", "sync", "only", "drop"},
           s.op = "take" => Ready(s, list)
    PROVE  \A e \in Removed(s, list) : e \in list /\ allEvents[e] \in s.accept
<1>1. CASE s.op = "take"
  <2>1. Of(s.accept, list) # {} /\ Of(s.accept, list) \in SUBSET Nat
    BY <1>1 DEF Ready, Of
  <2>2. Min(Of(s.accept, list)) \in Of(s.accept, list)
    BY <2>1, MinIsMember
  <2>3. Removed(s, list) = {Min(Of(s.accept, list))}
    BY <1>1 DEF Removed
  <2> QED BY <2>2, <2>3 DEF Of
<1>2. CASE s.op \in {"gather", "sift", "only", "drop"}
  BY <1>2 DEF Removed, Of
<1>3. CASE s.op \in {"peek", "sync"}
  BY <1>3 DEF Removed
<1> QED BY <1>1, <1>2, <1>3

(* At one index there is one event.                                        *)
LEMMA SplicedIsOne ==
    ASSUME NEW s, NEW list \in SUBSET Nat
    PROVE  \A e, d \in Spliced(s, list) : e = d
<1>1. ASSUME NEW e \in list, NEW d \in list, e < d
      PROVE  Cardinality(Before(e, list)) # Cardinality(Before(d, list))
  <2>1. IsFiniteSet(Before(d, list))
    BY FS_BoundedSetOfNaturals DEF Before
  <2>2. Before(e, list) \in SUBSET Before(d, list) /\ Before(e, list) # Before(d, list)
    <3>1. e \in Before(d, list) /\ e \notin Before(e, list)
      BY <1>1 DEF Before
    <3>2. \A x \in list : x < e => x < d
      BY <1>1
    <3> QED BY <3>1, <3>2 DEF Before
  <2> QED BY <2>1, <2>2, FS_Subset
<1>2. ASSUME NEW e \in Spliced(s, list), NEW d \in Spliced(s, list) PROVE e = d
  <2>1. /\ e \in list /\ d \in list
        /\ Cardinality(Before(e, list)) = Cardinality(Before(d, list))
    BY DEF Spliced
  <2>2. ~(e < d) /\ ~(d < e)
    BY <1>1, <2>1
  <2> QED BY <2>1, <2>2
<1> QED BY <1>2

(* Marking what is removed.                                                *)
LEMMA MarkKind ==
    ASSUME TypeInv, Taken, cursor \in 1..N, NEW gone,
           Scheme[cursor].op # "splice" => \A e \in gone : allEvents[e] \in Scheme[cursor].accept,
           Scheme[cursor].op = "splice" => \A e, d \in gone : e = d,
           takenBy' = Mark(gone, cursor), UNCHANGED allEvents,
           \/ cursor' = cursor + 1
           \/ cursor' = cursor /\ (Scheme[cursor].op # "sift" => gone = {})
    PROVE  Taken'
<1>0. /\ takenBy \in Seq(0..N) /\ Len(takenBy) = Len(allEvents) /\ allEvents \in Seq(Types)
      /\ cursor \in Nat /\ cursor # 0 /\ N \in Nat
  BY StepFields DEF TypeInv, TypeOK
<1>1. /\ DOMAIN allEvents = DOMAIN takenBy /\ cursor \in Nat /\ N \in Nat /\ cursor # 0
      /\ \A e \in DOMAIN allEvents : takenBy[e] \in Nat
  BY <1>0
<1>2. \A e \in DOMAIN allEvents : takenBy'[e] = IF e \in gone THEN cursor ELSE takenBy[e]
  BY <1>1 DEF Mark
<1>3. TakenBehind'
  BY <1>1, <1>2 DEF Taken, TakenBehind
<1>4. TakenByKind'
  <2> SUFFICES ASSUME NEW e \in DOMAIN allEvents, takenBy'[e] # 0
               PROVE  IF Scheme[takenBy'[e]].op = "splice"
                        THEN Alone(e)' ELSE allEvents[e] \in Scheme[takenBy'[e]].accept
    BY DEF TakenByKind
  <2>1. CASE Scheme[takenBy'[e]].op # "splice"
    <3>1. CASE e \in gone
      BY <1>2, <2>1, <3>1
    <3>2. CASE e \notin gone
      BY <1>2, <2>1, <3>2 DEF Taken, TakenByKind
    <3> QED BY <2>1, <3>1, <3>2
  <2>2. CASE Scheme[takenBy'[e]].op = "splice"
    <3> SUFFICES ASSUME NEW d \in DOMAIN allEvents, takenBy'[d] = takenBy'[e]
                 PROVE  d = e
      BY <2>2 DEF Alone
    <3>1. ASSUME NEW x \in DOMAIN allEvents, takenBy[x] = cursor, Scheme[cursor].op = "splice"
          PROVE  FALSE
      BY <1>1, <3>1 DEF Taken, TakenBehind
    <3>2. CASE e \in gone \/ d \in gone
      <4>1. takenBy'[e] = cursor /\ takenBy'[d] = cursor /\ Scheme[cursor].op = "splice"
        BY <1>2, <2>2, <3>2
      <4>2. e \in gone /\ d \in gone
        BY <1>2, <3>1, <4>1
      <4> QED BY <4>1, <4>2
    <3>3. CASE e \notin gone /\ d \notin gone
      <4>1. takenBy'[e] = takenBy[e] /\ takenBy[d] = takenBy[e]
        BY <1>2, <3>3
      <4>2. Alone(e)
        BY <2>2, <4>1 DEF Taken, TakenByKind
      <4> QED BY <4>1, <4>2 DEF Alone
    <3> QED BY <3>2, <3>3
  <2> QED BY <2>1, <2>2
<1> QED BY <1>3, <1>4 DEF Taken

LEMMA KindKept ==
    ASSUME Order, Taken, UNCHANGED <<allEvents, takenBy>>, cursor' = cursor \/ cursor' = cursor + 1
    PROVE  Taken'
<1>1. TakenByKind'
  BY DEF Taken, TakenByKind, Alone
<1>2. /\ cursor \in Nat /\ N \in Nat
      /\ \A e \in DOMAIN allEvents : takenBy[e] \in Nat
  BY StepFields DEF Order, TypeInv, TypeOK
<1>3. TakenBehind'
  BY <1>2 DEF Taken, TakenBehind
<1> QED BY <1>1, <1>3 DEF Taken

LEMMA PushKind ==
    ASSUME TypeInv, Taken, NEW kind, Push(kind), UNCHANGED cursor
    PROVE  Taken'
<1>1. /\ allEvents \in Seq(Types) /\ takenBy \in Seq(0..N) /\ Len(takenBy) = Len(allEvents)
  BY DEF TypeInv, TypeOK
<1>2. DOMAIN allEvents' = 1..(Len(allEvents) + 1) /\ DOMAIN allEvents = 1..Len(allEvents)
  BY <1>1 DEF Push
<1>3. /\ takenBy'[Len(allEvents) + 1] = 0
      /\ \A e \in DOMAIN allEvents : takenBy'[e] = takenBy[e] /\ allEvents'[e] = allEvents[e]
  BY <1>1 DEF Push
<1>4. Len(allEvents) \in Nat
  BY <1>1
<1>5. ASSUME NEW e \in DOMAIN allEvents', takenBy'[e] # 0
      PROVE  /\ e \in DOMAIN allEvents /\ takenBy[e] # 0 /\ takenBy'[e] = takenBy[e]
             /\ allEvents'[e] = allEvents[e]
  BY <1>2, <1>3, <1>4, <1>5
<1>6. ASSUME NEW e \in DOMAIN allEvents', takenBy'[e] # 0, Alone(e) PROVE Alone(e)'
  <2> SUFFICES ASSUME NEW d \in DOMAIN allEvents', takenBy'[d] = takenBy'[e] PROVE d = e
    BY DEF Alone
  <2> QED BY <1>5, <1>6 DEF Alone
<1>7. TakenByKind'
  BY <1>5, <1>6 DEF Taken, TakenByKind
<1>8. TakenBehind'
  BY <1>5 DEF Taken, TakenBehind
<1> QED BY <1>7, <1>8 DEF Taken

LEMMA FramesKept ==
    ASSUME FrameOps, UNCHANGED frames \/ \A k \in DOMAIN frames' : frames'[k].kind # "callback"
    PROVE  FrameOps'
BY DEF FrameOps

LEMMA NotFinished == ASSUME cursor' \in 1..N PROVE Finished'
<1>1. N \in Nat /\ cursor' <= N /\ cursor' # N + 1
  BY StepFields
<1> QED BY <1>1 DEF Finished

(* The callback of a closure that is not the only-closure.                 *)
LEMMA CallbackFinishes ==
    ASSUME TypeInv, Finished, cursor \in 1..N, Scheme[cursor].op # "only",
           NEW list, Callback(cursor, list)
    PROVE  Finished'
<1>1. /\ cursor' = cursor + 1 /\ inProgress' = FALSE /\ phase' = "run" /\ N \in Nat
  BY StepFields DEF Callback
<1> QED BY <1>1 DEF Finished, LeavesNothing

LEMMA ClosureStepsAccount ==
    ASSUME Order, Account, Blocked \/ ProgressionComplete \/ NotYet \/ RunInPlace \/ RunFilter
    PROVE  Account'
<1> USE DEF Account
<1>0. /\ TypeInv /\ UNCHANGED frames /\ N \in Nat /\ cursor \in Nat
      /\ \A a \in DOMAIN heap : heap[a] \in SUBSET Nat
      /\ eventList \in DOMAIN heap
  <2>1. UNCHANGED frames
    BY DEF Blocked, ProgressionComplete, NotYet, RunInPlace, RunFilter
  <2> QED BY <2>1, StepFields DEF Order, TypeInv, TypeOK
<1>1. FrameOps'
  BY <1>0, FramesKept
<1>2. CASE Blocked
  <2>1. /\ UNCHANGED <<runner, log, outer, frames>> /\ phase = "run"
        /\ timedOut = TRUE \/ inProgress = TRUE
    BY <1>0, <1>2 DEF Blocked, TypeInv, TypeOK
  <2>2. listening' # TRUE \/ cursor' # N + 1
    <3>1. listening' = listening /\ cursor' = cursor
      BY <2>1 DEF runner, outer
    <3>2. CASE timedOut = TRUE
      BY <3>1, <3>2 DEF Order, Verdict
    <3>3. CASE inProgress = TRUE
      <4>1. cursor <= N
        BY <3>3 DEF Finished
      <4>2. cursor # N + 1
        BY <1>0, <4>1
      <4> QED BY <3>1, <4>2
    <3> QED BY <2>1, <3>2, <3>3
  <2>3. Finished'
    BY <1>0, <2>1, <2>2 DEF Finished, LeavesNothing, runner, outer
  <2> QED BY <1>1, <2>1, <2>3, KindKept DEF runner, log
<1>3. CASE ProgressionComplete
  <2>1. /\ UNCHANGED <<runner, log, frames>> /\ listening' = FALSE
        /\ failed' \in {failed, TRUE}
    BY <1>3 DEF ProgressionComplete
  <2>2. Finished'
    BY <1>0, <2>1 DEF Finished, LeavesNothing, runner
  <2> QED BY <1>1, <2>1, <2>2, KindKept DEF runner, log
<1>4. CASE NotYet
  <2> DEFINE s == Scheme[cursor]
             gone == IF s.op = "sift" THEN Removed(s, heap[eventList]) ELSE {}
  <2>1. /\ heap' = [heap EXCEPT ![eventList] = @ \ gone] /\ takenBy' = Mark(gone, cursor)
        /\ inProgress' = FALSE /\ UNCHANGED <<eventList, cursor, log>>
        /\ cursor \in 1..N
    BY <1>0, <1>4, CallingCursor DEF NotYet, CallbackNull
  <2>2. /\ \A e \in gone : allEvents[e] \in s.accept
        /\ s.op # "sift" => gone = {}
    BY <1>0, <2>1, StepFields, RemovedIsAccepted
  <2> HIDE DEF gone
  <2>3. Taken'
    BY <1>0, <2>1, <2>2, MarkKind DEF log
  <2>4. Finished'
    BY <2>1, NotFinished
  <2> QED BY <1>1, <2>3, <2>4
<1>5. CASE RunInPlace
  <2> DEFINE s == Scheme[cursor]
             gone == Removed(s, heap[eventList])
  <2>1. /\ takenBy' = Mark(gone, cursor) /\ UNCHANGED log /\ Callback(cursor, eventList)
        /\ cursor \in 1..N /\ s.op \in {"take", "peek", "sift", "splice", "sync"}
        /\ Ready(s, heap[eventList])
    BY <1>0, <1>5, CallingCursor DEF RunInPlace, Calling
  <2>2. s.op # "splice" => \A e \in gone : allEvents[e] \in s.accept
    BY <1>0, <2>1, StepFields, RemovedIsAccepted
  <2>4. s.op = "splice" => \A e, d \in gone : e = d
    BY <1>0, SplicedIsOne DEF Removed
  <2>5. cursor' = cursor + 1
    BY <2>1 DEF Callback
  <2> HIDE DEF gone
  <2>3. Taken' /\ Finished'
    BY <1>0, <2>1, <2>2, <2>4, <2>5, MarkKind, CallbackFinishes DEF log
  <2> QED BY <1>1, <2>3
<1>6. CASE RunFilter
  <2> DEFINE s == Scheme[cursor]
             gone == Removed(s, heap[eventList])
  <2>1. /\ takenBy' = Mark(gone, cursor) /\ UNCHANGED log /\ Callback(cursor, Len(heap) + 1)
        /\ heap' = Append(heap, heap[eventList] \ gone)
        /\ cursor \in 1..N /\ s.op \in {"gather", "only", "drop"}
        /\ failed' = (failed \/ ~Asserted(s, heap[eventList]))
    BY <1>0, <1>6, CallingCursor DEF RunFilter, Calling
  <2>2. \A e \in gone : allEvents[e] \in s.accept
    BY <1>0, <2>1, StepFields, RemovedIsAccepted
  <2>3. s.op = "only" /\ failed' = FALSE => heap[eventList] \ gone = {}
    BY <2>1 DEF Asserted, Removed
  <2> HIDE DEF gone
  <2>4. Taken'
    BY <1>0, <2>1, <2>2, MarkKind DEF log, Callback
  <2>5. /\ cursor' = cursor + 1 /\ inProgress' = FALSE /\ phase' = "run"
        /\ heap'[eventList'] = heap[eventList] \ gone
    BY <1>0, <2>1 DEF Callback, TypeInv, TypeOK
  <2>6. LeavesNothing /\ failed' = FALSE /\ cursor' = N + 1 => heap'[eventList'] = {}
    <3> SUFFICES ASSUME LeavesNothing, failed' = FALSE, cursor' = N + 1
                 PROVE  heap'[eventList'] = {}
      OBVIOUS
    <3>1. cursor = N
      BY <1>0, <2>5
    <3> QED BY <2>3, <2>5, <3>1 DEF LeavesNothing
  <2>7. Finished'
    BY <2>5, <2>6 DEF Finished, LeavesNothing
  <2> QED BY <1>1, <2>4, <2>7
<1> QED BY <1>2, <1>3, <1>4, <1>5, <1>6

LEMMA RunAsyncAccount ==
    ASSUME Order, Account, RunAsync
    PROVE  Account'
<1> USE DEF Account
<1>1. /\ UNCHANGED <<cursor, eventList, heap, takenBy, allEvents, outer, frames>>
      /\ cursor \in 1..N /\ N \in Nat
  BY CallingCursor, StepFields DEF RunAsync, Order
<1>2. Finished'
  BY <1>1, NotFinished
<1> QED BY <1>1, <1>2, KindKept, FramesKept

LEMMA ReturnStepsAccount ==
    ASSUME Order, Account, TurnEnds \/ ThenCallback \/ ThenEmit
    PROVE  Account'
<1> USE DEF Account
<1>0. TypeInv
  BY DEF Order
<1>1. CASE TurnEnds
  <2>1. UNCHANGED <<runner, log, outer, frames>> /\ phase = "return"
    BY <1>1 DEF TurnEnds
  <2>2. Finished'
    BY <2>1 DEF Finished, LeavesNothing, runner, outer
  <2> QED BY <2>1, <2>2, KindKept, FramesKept DEF runner, log
<1>2. CASE ThenCallback
  <2>1. /\ UNCHANGED <<heap, takenBy, calls, log, outer>> /\ frames # <<>>
        /\ Head(frames).kind = "callback" /\ frames' = Tail(frames)
        /\ Callback(Head(frames).step, Head(frames).list)
    BY <1>2 DEF ThenCallback, Top
  <2>2. /\ frames' = <<>> /\ cursor \in 1..N /\ Callback(cursor, eventList)
        /\ Head(frames).step = cursor /\ frames = <<Head(frames)>>
    BY <2>1, TheFrame
  <2>3. Scheme[cursor].op \in {"request", "exit"}
    <3>1. 1 \in DOMAIN frames /\ frames[1] = Head(frames)
      BY <2>2
    <3> QED BY <2>1, <2>2, <3>1 DEF FrameOps
  <2>4. Finished'
    BY <1>0, <2>2, <2>3, CallbackFinishes
  <2>5. FrameOps'
    BY <2>2 DEF FrameOps
  <2> QED BY <2>1, <2>2, <2>4, <2>5, KindKept DEF log, Callback
<1>3. CASE ThenEmit
  <2>1. /\ UNCHANGED <<cursor, inProgress, eventList, calls, yielded, pending, dropped, outer>>
        /\ frames # <<>> /\ Head(frames).kind = "emit" /\ frames' = Tail(frames)
        /\ phase = "return" /\ Tail(frames) = <<>>
        /\ IF listening THEN Push(Head(frames).type)
                        ELSE UNCHANGED <<heap, allEvents, takenBy, phase>>
    BY <1>3, TheFrame DEF ThenEmit, Top
  <2>2. FrameOps'
    BY <2>1 DEF FrameOps
  <2>3. CASE listening = TRUE
    <3>1. Push(Head(frames).type) /\ phase' = "run" /\ UNCHANGED <<cursor, inProgress, outer>>
      BY <2>1, <2>3 DEF Push
    <3>2. N > 0 => cursor # N + 1
      BY <2>1, <2>3 DEF Finished
    <3>3. Finished'
      BY <3>1, <3>2 DEF Finished, LeavesNothing
    <3> QED BY <1>0, <2>2, <3>1, <3>3, PushKind
  <2>4. CASE listening # TRUE
    <3>1. UNCHANGED <<heap, allEvents, takenBy, phase, cursor, inProgress, eventList, outer>>
      BY <1>0, <2>1, <2>4 DEF TypeInv, TypeOK
    <3>2. Finished'
      BY <3>1 DEF Finished, LeavesNothing, outer
    <3> QED BY <2>2, <3>1, <3>2, KindKept
  <2> QED BY <2>3, <2>4
<1> QED BY <1>1, <1>2, <1>3

LEMMA EnvironmentAccount ==
    ASSUME Order, Account, Environment
    PROVE  Account'
<1> USE DEF Account
<1>0. TypeInv /\ Flight /\ N \in Nat /\ cursor \in Nat
  BY StepFields DEF Order, TypeInv, TypeOK
<1>1. ASSUME NEW kind \in Requests, Arrive(kind) PROVE Account'
  <2>1. /\ Push(kind) /\ phase' = "run" /\ phase = "idle" /\ listening = TRUE
        /\ UNCHANGED <<cursor, inProgress, frames>>
    BY <1>0, <1>1 DEF Arrive, Push, Idle, TypeInv, TypeOK
  <2>2. N > 0 => cursor # N + 1
    BY <2>1 DEF Finished
  <2>3. Finished'
    BY <2>1, <2>2 DEF Finished, LeavesNothing
  <2> QED BY <1>0, <2>1, <2>3, PushKind, FramesKept
<1>2. ASSUME NEW p \in pending PROVE p.step = cursor /\ p.list = eventList /\ inProgress = TRUE
                                     /\ cursor \in 1..N
  BY <1>0, <1>2 DEF Flight, TypeInv, TypeOK, Callbacks
<1>3. ASSUME NEW p \in pending, TimerFires(p) \/ RequestFailsLoudly(p) PROVE Account'
  <2>1. /\ UNCHANGED <<takenBy, allEvents, frames>> /\ Callback(cursor, eventList)
        /\ Scheme[cursor].op \in {"wait", "request"}
    BY <1>2, <1>3 DEF TimerFires, RequestFailsLoudly
  <2> QED BY <1>0, <1>2, <2>1, CallbackFinishes, KindKept, FramesKept DEF Callback
<1>4. ASSUME NEW p \in pending, RequestFailsSilently(p) PROVE Account'
  <2>1. UNCHANGED <<runner, allEvents, outer, phase, frames>>
    BY <1>4 DEF RequestFailsSilently
  <2>2. Finished'
    BY <2>1 DEF Finished, LeavesNothing, runner, outer
  <2> QED BY <2>1, <2>2, KindKept, FramesKept DEF runner
<1>5. ASSUME NEW p \in pending, Reply(p) PROVE Account'
  <2>1. Scheme[cursor].op = "request"
    BY <1>2, <1>5 DEF Reply
  <2>2. CASE Scheme[p.step].eventFirst
    <3>1. /\ Push(Scheme[p.step].reply) /\ UNCHANGED <<cursor, inProgress, eventList>> /\ phase' = "run"
          /\ frames' = <<[kind |-> "callback", step |-> cursor, list |-> p.list]>>
      BY <1>2, <1>5, <2>2 DEF Reply, Push
    <3>2. FrameOps'
      BY <2>1, <3>1 DEF FrameOps
    <3>3. Finished'
      BY <1>2, <3>1, NotFinished
    <3> QED BY <1>0, <3>1, <3>2, <3>3, PushKind
  <2>3. CASE ~Scheme[p.step].eventFirst
    <3>1. /\ Callback(cursor, eventList) /\ UNCHANGED <<allEvents, takenBy>>
          /\ frames' = <<[kind |-> "emit", type |-> Scheme[p.step].reply]>>
      BY <1>2, <1>5, <2>3 DEF Reply
    <3>2. FrameOps'
      BY <3>1 DEF FrameOps
    <3>3. Finished'
      BY <1>0, <1>2, <2>1, <3>1, CallbackFinishes
    <3> QED BY <3>1, <3>2, <3>3, KindKept DEF Callback
  <2> QED BY <2>2, <2>3
<1>6. ASSUME NEW how \in {"clean", "code", "signal", "killed"}, SutExits(how) PROVE Account'
  <2>1. /\ UNCHANGED <<runner, allEvents, dropped, timedOut>> /\ phase = "idle"
        /\ listening' = TRUE => listening = TRUE
        /\ failed' = FALSE => failed = FALSE
    BY <1>0, <1>6 DEF SutExits, Idle, TypeInv, TypeOK
  <2>2. Finished'
    BY <2>1 DEF Finished, LeavesNothing, runner
  <2>3. FrameOps'
    <3>1. PICK queue \in ExitListeners :
            frames' = [k \in DOMAIN queue |->
                        [kind |-> "callback", step |-> queue[k].step, list |-> queue[k].list]]
      BY <1>6 DEF SutExits
    <3>2. \A k \in DOMAIN queue : Scheme[queue[k].step].op = "exit"
      BY DEF ExitListeners, ExitPending
    <3> QED BY <3>1, <3>2 DEF FrameOps
  <2> QED BY <2>1, <2>2, <2>3, KindKept DEF runner
<1>7. CASE Deadline
  <2>1. UNCHANGED <<runner, log, phase, frames>> /\ listening' = FALSE /\ failed' = TRUE
    BY <1>7 DEF Deadline
  <2>2. Finished'
    BY <2>1 DEF Finished, runner
  <2> QED BY <2>1, <2>2, KindKept, FramesKept DEF runner, log
<1> QED BY <1>1, <1>3, <1>4, <1>5, <1>6, <1>7 DEF Environment

LEMMA NextAccount ==
    ASSUME NoMulti, Order, Account, [Next]_vars
    PROVE  Account'
<1>1. CASE UNCHANGED <<runner, log, outer, phase, frames>>
  <2>1. Finished'
    BY <1>1 DEF Account, Finished, LeavesNothing, runner, outer
  <2> QED BY <1>1, <2>1, KindKept, FramesKept DEF Account, runner, log
<1> QED BY <1>1, PlainSteps, ClosureStepsAccount, RunAsyncAccount, ReturnStepsAccount,
        EnvironmentAccount

(* A test that passes with all its assertions, and whose last closure      *)
(* asserts that nothing is left (prepareCluster), has discarded every      *)
(* event it received by a closure that names its kind, or alone, by an     *)
(* assertStateChange.                                                      *)
THEOREM EventsAccounted ==
    ASSUME NoMulti
    PROVE  Spec => []AllEventsExpected
<1>1. Init => Order /\ Account
  BY InitOrder, InitAccount
<1>2. NoMulti /\ Order /\ Account /\ [Next]_vars => (Order /\ Account)'
  BY NextOrder, NextAccount
<1>3. Order /\ Account => AllEventsExpected
  <2> SUFFICES ASSUME Order, Account, LeavesNothing, ends # <<>>,
                      ends[1] = "passed", failed # TRUE, NEW e \in DOMAIN allEvents
               PROVE  /\ takenBy[e] # 0
                      /\ \/ allEvents[e] \in Scheme[takenBy[e]].accept
                         \/ Scheme[takenBy[e]].op = "splice" /\ Alone(e)
    BY DEF AllEventsExpected, PassedClean, Order, TypeInv, TypeOK
  <2>1. Passed
    <3>1. ends \in Seq({"passed", "timeout", "crash"})
      BY DEF Order, TypeInv, TypeOK
    <3>2. 1 \in DOMAIN ends
      BY <3>1
    <3> QED BY <3>2 DEF Passed
  <2>2. cursor = N + 1 /\ failed = FALSE
    BY <2>1 DEF Order, Progress, TypeInv, TypeOK
  <2>3. heap[eventList] = {}
    BY <2>2 DEF Account, Finished, LeavesNothing
  <2>4. takenBy[e] # 0
    BY <2>3 DEF Order, EventConservation
  <2> QED BY <2>4 DEF Account, Taken, TakenByKind
<1> QED BY <1>1, <1>2, <1>3, PTL DEF Spec
=============================================================================
