------------------------- MODULE SchemeRunnerProofs -------------------------
(***************************************************************************)
(* Theorems about the scheme runner, for every scheme and every bound.     *)
(***************************************************************************)
EXTENDS SchemeRunner, SequenceTheorems, FiniteSetTheorems, TLAPS

(* The arrays that the callers on the stack will go on with exist.         *)
FramesInHeap ==
    \A k \in DOMAIN frames :
      frames[k].kind \in {"callback", "multi"} => frames[k].list \in DOMAIN heap

TypeInv == TypeOK /\ FramesInHeap /\ IsFiniteSet(pending)

(* The fields that the steps of each kind have.                            *)
LEMMA StepFields ==
    /\ N \in Nat
    /\ \A i \in 1..N : Scheme[i] \in Step
    /\ \A i \in 1..N : Scheme[i].op = "request" => Scheme[i].reply \in Types
    /\ Requests \subseteq Types
<1>1. N \in Nat /\ Scheme \in Seq(Step) /\ Requests \subseteq Types
  BY SchemeAssumption DEF N
<1>2. \A i \in 1..N : Scheme[i] \in Step
  BY <1>1 DEF N
<1>3. ASSUME NEW s \in Step, s.op = "request" PROVE s.reply \in Types
  BY <1>3 DEF Step, LookStep, GatherStep, SiftStep, PlainStep, RequestStep
<1> QED BY <1>1, <1>2, <1>3

(* Events leave an array, none enters it.                                  *)
LEMMA HeapShrinks ==
    ASSUME NEW h \in Seq(SUBSET Nat), NEW a \in DOMAIN h, NEW gone
    PROVE  /\ [h EXCEPT ![a] = @ \ gone] \in Seq(SUBSET Nat)
           /\ Len([h EXCEPT ![a] = @ \ gone]) = Len(h)
           /\ Append(h, h[a] \ gone) \in Seq(SUBSET Nat)
           /\ Len(Append(h, h[a] \ gone)) = Len(h) + 1
<1>1. h[a] \ gone \in SUBSET Nat
  OBVIOUS
<1> QED BY <1>1

LEMMA MarkType ==
    ASSUME takenBy \in Seq(0..N), NEW events, NEW i \in 1..N
    PROVE  Mark(events, i) \in Seq(0..N) /\ Len(Mark(events, i)) = Len(takenBy)
<1>1. N \in Nat
  BY StepFields
<1>2. \A e \in DOMAIN takenBy : Mark(events, i)[e] \in 0..N
  BY <1>1 DEF Mark
<1>3. DOMAIN Mark(events, i) = 1..Len(takenBy)
  BY DEF Mark
<1> QED BY <1>1, <1>2, <1>3 DEF Mark

(* What a callback with a list does to the types.                          *)
LEMMA CallbackType ==
    ASSUME TypeOK, NEW i \in 1..N, NEW list, Callback(i, list)
    PROVE  /\ eventList' = list /\ cursor' \in Nat \ {0} /\ inProgress' \in BOOLEAN
           /\ yielded' \in [1..N -> Nat] /\ phase' = "run"
<1>1. cursor \in Nat \ {0} /\ yielded \in [1..N -> Nat] /\ yielded[i] \in Nat
  BY DEF TypeOK
<1>2. yielded' \in [1..N -> Nat]
  BY <1>1 DEF Callback
<1>3. cursor' \in Nat \ {0}
  BY <1>1 DEF Callback
<1>4. inProgress' \in BOOLEAN
  BY Zenon DEF Callback
<1> QED BY <1>2, <1>3, <1>4 DEF Callback

LEMMA PushType ==
    ASSUME TypeOK, NEW kind \in Types, Push(kind)
    PROVE  /\ heap' \in Seq(SUBSET Nat) /\ DOMAIN heap' = DOMAIN heap
           /\ allEvents' \in Seq(Types) /\ takenBy' \in Seq(0..N)
           /\ Len(takenBy') = Len(allEvents') /\ phase' = "run"
<1>1. heap[eventList] \cup {Len(allEvents) + 1} \in SUBSET Nat
  BY DEF TypeOK
<1>2. N \in Nat
  BY StepFields
<1> QED BY <1>1, <1>2 DEF TypeOK, Push

LEMMA FramesType ==
    ASSUME TypeInv, frames # <<>>
    PROVE  /\ Head(frames) \in Frames
           /\ Tail(frames) \in Seq(Frames)
           /\ \A k \in DOMAIN Tail(frames) :
                 Tail(frames)[k].kind \in {"callback", "multi"} =>
                    Tail(frames)[k].list \in DOMAIN heap
           /\ Head(frames).kind = "emit" => Head(frames).type \in Types
           /\ Head(frames).kind \in {"callback", "multi"} =>
                Head(frames).step \in 1..N /\ Head(frames).list \in DOMAIN heap
<1>1. frames \in Seq(Frames) /\ Len(frames) > 0
  BY DEF TypeInv, TypeOK
<1>2. Head(frames) = frames[1] /\ Head(frames) \in Frames /\ Tail(frames) \in Seq(Frames)
  BY <1>1
<1>3. \A k \in DOMAIN Tail(frames) : Tail(frames)[k] = frames[k + 1] /\ k + 1 \in DOMAIN frames
  BY <1>1
<1>4. ASSUME NEW f \in Frames
      PROVE  /\ f.kind = "emit" => f.type \in Types
             /\ f.kind \in {"callback", "multi"} => f.step \in 1..N
  BY DEF Frames
<1> QED BY <1>1, <1>2, <1>3, <1>4 DEF TypeInv, FramesInHeap

LEMMA InitType == Init => TypeInv
<1> SUFFICES ASSUME Init PROVE TypeInv
  OBVIOUS
<1>1. heap \in Seq(SUBSET Nat) /\ eventList \in DOMAIN heap
  BY DEF Init
<1>2. allEvents \in Seq(Types) /\ takenBy \in Seq(0..N) /\ Len(takenBy) = Len(allEvents)
  BY DEF Init
<1>3. calls \in [1..N -> Nat] /\ yielded \in [1..N -> Nat]
  BY DEF Init
<1>4. ends \in Seq({"passed", "timeout", "crash"}) /\ frames \in Seq(Frames) /\ FramesInHeap
  BY DEF Init, FramesInHeap
<1>5. cursor \in Nat \ {0} /\ pending \in SUBSET Callbacks /\ dropped \in SUBSET (1..N)
  BY DEF Init
<1>8. IsFiniteSet(pending)
  BY FS_EmptySet DEF Init
<1>6. inProgress \in BOOLEAN /\ timedOut \in BOOLEAN /\ listening \in BOOLEAN /\ failed \in BOOLEAN
  BY Zenon DEF Init
<1>7. timer \in {"armed", "off"} /\ sut \in {"up", "clean", "code", "signal", "killed"}
      /\ phase \in {"idle", "run", "return"} /\ \A p \in pending : p.list \in DOMAIN heap
  BY DEF Init
<1> QED BY <1>1, <1>2, <1>3, <1>4, <1>5, <1>6, <1>7, <1>8, Zenon DEF TypeInv, TypeOK

(***************************************************************************)
(* The type invariant in parts.  An action is followed part by part.       *)
(***************************************************************************)
RunnerTypes ==
    /\ cursor \in Nat \ {0} /\ inProgress \in BOOLEAN
    /\ heap \in Seq(SUBSET Nat) /\ eventList \in DOMAIN heap
    /\ takenBy \in Seq(0..N)
    /\ calls \in [1..N -> Nat] /\ yielded \in [1..N -> Nat]

LogTypes ==
    /\ allEvents \in Seq(Types) /\ Len(takenBy) = Len(allEvents)
    /\ pending \in SUBSET Callbacks /\ \A p \in pending : p.list \in DOMAIN heap
    /\ dropped \in SUBSET (1..N) /\ IsFiniteSet(pending)

OuterTypes ==
    /\ timedOut \in BOOLEAN
    /\ timer \in {"armed", "off"} /\ listening \in BOOLEAN
    /\ sut \in {"up", "clean", "code", "signal", "killed"}
    /\ ends \in Seq({"passed", "timeout", "crash"}) /\ failed \in BOOLEAN

TurnTypes ==
    /\ phase \in {"idle", "run", "return"} /\ frames \in Seq(Frames)
    /\ FramesInHeap

LEMMA TypeParts ==
    /\ TypeInv <=> RunnerTypes /\ LogTypes /\ OuterTypes /\ TurnTypes
    /\ TypeInv' <=> RunnerTypes' /\ LogTypes' /\ OuterTypes' /\ TurnTypes'
BY Zenon DEF TypeInv, TypeOK, RunnerTypes, LogTypes, OuterTypes, TurnTypes

LEMMA OuterUnchanged == OuterTypes /\ UNCHANGED outer => OuterTypes'
BY Zenon DEF OuterTypes, outer

LEMMA TurnUnchanged ==
    ASSUME TurnTypes, UNCHANGED frames, DOMAIN heap \subseteq DOMAIN heap',
           phase' \in {"idle", "run", "return"}
    PROVE  TurnTypes'
BY DEF TurnTypes, FramesInHeap

LEMMA LogUnchanged ==
    ASSUME LogTypes, UNCHANGED log, Len(takenBy') = Len(takenBy),
           DOMAIN heap \subseteq DOMAIN heap'
    PROVE  LogTypes'
BY DEF LogTypes, log

(* Callbacks come one at a time.                                           *)
LEMMA PendingFinite ==
    ASSUME IsFiniteSet(pending), NEW p, pending' \subseteq pending \cup {p}
    PROVE  IsFiniteSet(pending')
<1>1. IsFiniteSet(pending \cup {p})
  BY FS_AddElement
<1> QED BY <1>1, FS_Subset

(* progressFromCursor and the synchronous closures.                        *)
LEMMA ClosureStepsType ==
    ASSUME TypeInv, Blocked \/ ProgressionComplete \/ NotYet \/ RunInPlace \/ RunFilter
    PROVE  TypeInv'
<1> USE TypeParts
<1>1. CASE Blocked
  <2>1. UNCHANGED <<runner, log, outer, frames>> /\ phase' = "return"
    BY <1>1 DEF Blocked
  <2>2. RunnerTypes' /\ LogTypes'
    BY <2>1 DEF runner, log, RunnerTypes, LogTypes
  <2>3. OuterTypes'
    BY <2>1, OuterUnchanged
  <2>4. TurnTypes'
    BY <2>1, TurnUnchanged DEF runner
  <2> QED BY <2>2, <2>3, <2>4
<1>2. CASE ProgressionComplete
  <2>1. UNCHANGED <<runner, log, timedOut, sut, frames>> /\ phase' = "return"
    BY <1>2 DEF ProgressionComplete
  <2>2. RunnerTypes' /\ LogTypes'
    BY <2>1 DEF runner, log, RunnerTypes, LogTypes
  <2>3. ends' \in Seq({"passed", "timeout", "crash"}) /\ timer' = "off"
    BY <1>2 DEF ProgressionComplete, OuterTypes
  <2>4. listening' \in BOOLEAN /\ failed' \in BOOLEAN
    BY <1>2, Zenon DEF ProgressionComplete, OuterTypes
  <2>5. OuterTypes'
    BY <2>1, <2>3, <2>4, Zenon DEF OuterTypes
  <2>6. TurnTypes'
    BY <2>1, TurnUnchanged DEF runner
  <2> QED BY <2>2, <2>5, <2>6
<1>3. CASE NotYet
  <2>1. PICK gone : /\ heap' = [heap EXCEPT ![eventList] = @ \ gone]
                    /\ takenBy' = Mark(gone, cursor)
    BY <1>3 DEF NotYet
  <2>2. /\ inProgress' = FALSE /\ UNCHANGED <<eventList, cursor, yielded, calls, log, outer, frames>>
        /\ phase' = "return" /\ cursor \in 1..N
    BY <1>3, StepFields DEF NotYet, CallbackNull, Calling, RunnerTypes
  <2>3. heap' \in Seq(SUBSET Nat) /\ DOMAIN heap' = DOMAIN heap
    BY <2>1, HeapShrinks DEF RunnerTypes
  <2>4. takenBy' \in Seq(0..N) /\ Len(takenBy') = Len(takenBy)
    BY <2>1, <2>2, MarkType DEF RunnerTypes
  <2>5. RunnerTypes'
    BY <2>2, <2>3, <2>4, Zenon DEF RunnerTypes
  <2> QED BY <2>2, <2>3, <2>4, <2>5, LogUnchanged, OuterUnchanged, TurnUnchanged
<1>4. CASE RunInPlace
  <2>1. PICK gone : /\ heap' = [heap EXCEPT ![eventList] = @ \ gone]
                    /\ takenBy' = Mark(gone, cursor)
    BY <1>4 DEF RunInPlace
  <2>2. /\ UNCHANGED <<calls, log, outer, frames>> /\ Callback(cursor, eventList)
        /\ cursor \in 1..N
    BY <1>4, StepFields DEF RunInPlace, Calling, RunnerTypes
  <2>3. heap' \in Seq(SUBSET Nat) /\ DOMAIN heap' = DOMAIN heap
    BY <2>1, HeapShrinks DEF RunnerTypes
  <2>4. takenBy' \in Seq(0..N) /\ Len(takenBy') = Len(takenBy)
    BY <2>1, <2>2, MarkType DEF RunnerTypes
  <2>5. /\ eventList' = eventList /\ cursor' \in Nat \ {0} /\ inProgress' \in BOOLEAN
        /\ yielded' \in [1..N -> Nat] /\ phase' = "run"
    BY <2>2, CallbackType DEF TypeInv
  <2>6. RunnerTypes'
    BY <2>2, <2>3, <2>4, <2>5, Zenon DEF RunnerTypes
  <2> QED BY <2>2, <2>3, <2>4, <2>5, <2>6, LogUnchanged, OuterUnchanged, TurnUnchanged
<1>5. CASE RunFilter
  <2>1. PICK gone : /\ heap' = Append(heap, heap[eventList] \ gone)
                    /\ takenBy' = Mark(gone, cursor)
    BY <1>5 DEF RunFilter
  <2>2. /\ UNCHANGED <<calls, log, timedOut, timer, listening, sut, ends, frames>>
        /\ Callback(cursor, Len(heap) + 1) /\ cursor \in 1..N
    BY <1>5, StepFields DEF RunFilter, Calling, RunnerTypes
  <2>3. heap' \in Seq(SUBSET Nat) /\ DOMAIN heap \subseteq DOMAIN heap'
        /\ Len(heap) + 1 \in DOMAIN heap'
    BY <2>1, HeapShrinks DEF RunnerTypes
  <2>4. takenBy' \in Seq(0..N) /\ Len(takenBy') = Len(takenBy)
    BY <2>1, <2>2, MarkType DEF RunnerTypes
  <2>5. /\ eventList' = Len(heap) + 1 /\ cursor' \in Nat \ {0} /\ inProgress' \in BOOLEAN
        /\ yielded' \in [1..N -> Nat] /\ phase' = "run"
    BY <2>2, CallbackType DEF TypeInv
  <2>6. RunnerTypes'
    BY <2>2, <2>3, <2>4, <2>5, Zenon DEF RunnerTypes
  <2>7. failed' \in BOOLEAN
    BY <1>5, Zenon DEF RunFilter
  <2>8. OuterTypes'
    BY <2>2, <2>7, Zenon DEF OuterTypes
  <2> QED BY <2>2, <2>3, <2>4, <2>5, <2>6, <2>8, LogUnchanged, TurnUnchanged
<1> QED BY <1>1, <1>2, <1>3, <1>4, <1>5

(* The closures that hand their callback to somebody else, or to a loop.   *)
LEMMA AsyncStepsType ==
    ASSUME TypeInv, RunAsync \/ RunMulti
    PROVE  TypeInv'
<1> USE TypeParts
<1>1. CASE RunAsync
  <2>1. /\ UNCHANGED <<cursor, eventList, heap, takenBy, yielded, allEvents, outer, frames>>
        /\ inProgress' = TRUE /\ phase' = "return" /\ cursor \in 1..N
    BY <1>1, StepFields DEF RunAsync, Calling, RunnerTypes
  <2>2. calls[cursor] \in Nat /\ calls \in [1..N -> Nat]
    BY <2>1 DEF RunnerTypes
  <2>3. calls' \in [1..N -> Nat]
    BY <1>1, <2>1, <2>2 DEF RunAsync
  <2>4. [step |-> cursor, list |-> eventList, call |-> calls[cursor] + 1] \in Callbacks
    BY <2>1, <2>2 DEF Callbacks, RunnerTypes
  <2>5. pending' \subseteq
          pending \cup {[step |-> cursor, list |-> eventList, call |-> calls[cursor] + 1]}
    BY <1>1 DEF RunAsync
  <2>8. IsFiniteSet(pending')
    BY <2>5, PendingFinite DEF LogTypes
  <2>9. dropped' \subseteq dropped \cup {cursor}
    BY <1>1 DEF RunAsync
  <2>6. LogTypes'
    BY <2>1, <2>4, <2>5, <2>8, <2>9 DEF LogTypes, RunnerTypes
  <2>7. RunnerTypes'
    BY <2>1, <2>3, Zenon DEF RunnerTypes
  <2> QED BY <2>1, <2>6, <2>7, OuterUnchanged, TurnUnchanged
<1>2. CASE RunMulti
  <2> DEFINE f == [kind |-> "multi", step |-> cursor, list |-> eventList,
                   left |-> Of(Scheme[cursor].accept, heap[eventList])]
  <2>1. /\ UNCHANGED <<cursor, eventList, heap, takenBy, calls, yielded, log, outer>>
        /\ inProgress' = TRUE /\ phase' = "return" /\ cursor \in 1..N
        /\ frames' = <<f>> \o frames
    BY <1>2, StepFields DEF RunMulti, Calling, RunnerTypes
  <2>2. Of(Scheme[cursor].accept, heap[eventList]) \in SUBSET Nat /\ eventList \in Nat \ {0}
    BY DEF Of, RunnerTypes
  <2>3. f \in Frames
    BY <2>1, <2>2 DEF Frames
  <2>4. frames' \in Seq(Frames) /\ Len(frames') = Len(frames) + 1 /\ frames'[1] = f
        /\ \A k \in DOMAIN frames' : k # 1 => k - 1 \in DOMAIN frames /\ frames'[k] = frames[k - 1]
    BY <2>1, <2>3 DEF TurnTypes
  <2>5. FramesInHeap'
    <3> SUFFICES ASSUME NEW k \in DOMAIN frames',
                        frames'[k].kind \in {"callback", "multi"}
                 PROVE  frames'[k].list \in DOMAIN heap
      BY <2>1 DEF FramesInHeap
    <3>1. CASE k = 1
      BY <2>4, <3>1 DEF RunnerTypes
    <3>2. CASE k # 1
      BY <2>4, <3>2 DEF TurnTypes, FramesInHeap
    <3> QED BY <3>1, <3>2
  <2>6. TurnTypes'
    BY <2>1, <2>4, <2>5 DEF TurnTypes
  <2>7. RunnerTypes'
    BY <2>1, Zenon DEF RunnerTypes
  <2> QED BY <2>1, <2>6, <2>7, OuterUnchanged, LogUnchanged
<1> QED BY <1>1, <1>2

(* The rest of a turn.                                                     *)
LEMMA ReturnStepsType ==
    ASSUME TypeInv, TurnEnds \/ ThenCallback \/ ThenEmit \/ MultiYields \/ MultiReturns
    PROVE  TypeInv'
<1> USE TypeParts
<1>1. CASE TurnEnds
  <2>1. UNCHANGED <<runner, log, outer, frames>> /\ phase' = "idle"
    BY <1>1 DEF TurnEnds
  <2>2. RunnerTypes' /\ LogTypes'
    BY <2>1 DEF runner, log, RunnerTypes, LogTypes
  <2> QED BY <2>1, <2>2, OuterUnchanged, TurnUnchanged DEF runner
<1>2. CASE ThenCallback
  <2>1. /\ UNCHANGED <<heap, takenBy, calls, log, outer>> /\ frames # <<>>
        /\ Head(frames).kind = "callback" /\ frames' = Tail(frames)
        /\ Callback(Head(frames).step, Head(frames).list)
    BY <1>2 DEF ThenCallback, Top
  <2>2. Head(frames).step \in 1..N /\ Head(frames).list \in DOMAIN heap
    BY <2>1, FramesType
  <2>3. TurnTypes'
    BY <2>1, <2>2, FramesType, CallbackType DEF TurnTypes, FramesInHeap, TypeInv
  <2>4. RunnerTypes'
    BY <2>1, <2>2, CallbackType, Zenon DEF RunnerTypes, TypeInv
  <2> QED BY <2>1, <2>3, <2>4, OuterUnchanged, LogUnchanged
<1>3. CASE ThenEmit
  <2>1. /\ UNCHANGED <<cursor, inProgress, eventList, calls, yielded, pending, dropped, outer>>
        /\ frames # <<>> /\ Head(frames).kind = "emit" /\ frames' = Tail(frames)
        /\ phase = "return"
    BY <1>3 DEF ThenEmit, Top
  <2>2. Head(frames).type \in Types
    BY <2>1, FramesType
  <2>3. /\ heap' \in Seq(SUBSET Nat) /\ DOMAIN heap' = DOMAIN heap
        /\ allEvents' \in Seq(Types) /\ takenBy' \in Seq(0..N)
        /\ Len(takenBy') = Len(allEvents') /\ phase' \in {"run", "return"}
    <3>1. CASE Push(Head(frames).type)
      BY <2>2, <3>1, PushType DEF TypeInv
    <3>2. CASE UNCHANGED <<heap, allEvents, takenBy, phase>>
      BY <2>1, <3>2 DEF RunnerTypes, LogTypes
    <3> QED BY <1>3, <3>1, <3>2 DEF ThenEmit
  <2>4. TurnTypes'
    BY <2>1, <2>3, FramesType DEF TurnTypes, FramesInHeap
  <2>5. LogTypes'
    BY <2>1, <2>3 DEF LogTypes
  <2>6. RunnerTypes'
    BY <2>1, <2>3, Zenon DEF RunnerTypes
  <2> QED BY <2>1, <2>4, <2>5, <2>6, OuterUnchanged
<1>4. CASE MultiYields
  <2> DEFINE f == Head(frames)
  <2>1. PICK e : /\ heap' = Append(heap, heap[f.list] \ {e})
                 /\ takenBy' = Mark({e}, f.step)
                 /\ Callback(f.step, Len(heap) + 1)
                 /\ frames' = <<[f EXCEPT !.left = @ \ {e}]>> \o Tail(frames)
    BY <1>4 DEF MultiYields
  <2>2. /\ UNCHANGED <<calls, log, outer>> /\ frames # <<>> /\ f.kind = "multi"
    BY <1>4 DEF MultiYields, Top
  <2>3. f.step \in 1..N /\ f.list \in DOMAIN heap /\ f \in Frames
        /\ Tail(frames) \in Seq(Frames)
        /\ \A k \in DOMAIN Tail(frames) :
             Tail(frames)[k].kind \in {"callback", "multi"} => Tail(frames)[k].list \in DOMAIN heap
    BY <2>2, FramesType
  <2>4. heap' \in Seq(SUBSET Nat) /\ DOMAIN heap \subseteq DOMAIN heap'
        /\ Len(heap) + 1 \in DOMAIN heap'
    BY <2>1, <2>3, HeapShrinks DEF RunnerTypes
  <2>5. takenBy' \in Seq(0..N) /\ Len(takenBy') = Len(takenBy)
    BY <2>1, <2>3, MarkType DEF RunnerTypes
  <2>6. RunnerTypes'
    BY <2>1, <2>2, <2>3, <2>4, <2>5, CallbackType, Zenon DEF RunnerTypes, TypeInv
  <2>7. [f EXCEPT !.left = @ \ {e}] \in Frames /\ [f EXCEPT !.left = @ \ {e}].list \in DOMAIN heap
    BY <2>2, <2>3 DEF Frames
  <2>8. TurnTypes'
    <3> DEFINE g == [f EXCEPT !.left = @ \ {e}]
               t == Tail(frames)
    <3>1. g \in Frames /\ t \in Seq(Frames) /\ frames' = <<g>> \o t
      BY <2>1, <2>3, <2>7
    <3>2. g.list \in DOMAIN heap'
      BY <2>4, <2>7
    <3>3. \A k \in DOMAIN t : t[k].kind \in {"callback", "multi"} => t[k].list \in DOMAIN heap'
      BY <2>3, <2>4
    <3> HIDE DEF g, t
    <3>4. frames' \in Seq(Frames) /\ frames'[1] = g
          /\ \A k \in DOMAIN frames' : k # 1 => k - 1 \in DOMAIN t /\ frames'[k] = t[k - 1]
      BY <3>1
    <3>5. FramesInHeap'
      BY <3>2, <3>3, <3>4 DEF FramesInHeap
    <3>6. phase' = "run"
      BY <2>1 DEF Callback
    <3> QED BY <3>4, <3>5, <3>6 DEF TurnTypes
  <2> QED BY <2>2, <2>4, <2>5, <2>6, <2>8, OuterUnchanged, LogUnchanged
<1>5. CASE MultiReturns
  <2>1. /\ UNCHANGED <<heap, takenBy, calls, log, outer, phase, eventList, cursor, yielded>>
        /\ frames # <<>> /\ frames' = Tail(frames) /\ inProgress' = FALSE
    BY <1>5 DEF MultiReturns, Top, CallbackNull
  <2>2. TurnTypes'
    BY <2>1, FramesType DEF TurnTypes, FramesInHeap
  <2>3. RunnerTypes'
    BY <2>1, Zenon DEF RunnerTypes
  <2> QED BY <2>1, <2>2, <2>3, OuterUnchanged, LogUnchanged
<1> QED BY <1>1, <1>2, <1>3, <1>4, <1>5

(* The turns that the environment starts.                                  *)
LEMMA CallbackStepsType ==
    ASSUME TypeInv, NEW p \in pending,
           TimerFires(p) \/ Reply(p) \/ RequestFailsLoudly(p) \/ RequestFailsSilently(p)
    PROVE  TypeInv'
<1> USE TypeParts
<1>0. IsFiniteSet(pending \ {p})
  BY FS_Subset DEF LogTypes
<1>1. /\ p.step \in 1..N /\ p.list \in DOMAIN heap /\ pending \ {p} \in SUBSET Callbacks
      /\ IsFiniteSet(pending \ {p})
  BY <1>0 DEF LogTypes, Callbacks
<1>2. CASE TimerFires(p) \/ RequestFailsLoudly(p)
  <2>1. /\ UNCHANGED <<heap, takenBy, calls, allEvents, dropped, outer, frames>>
        /\ Callback(p.step, p.list) /\ pending' = pending \ {p}
    BY <1>2 DEF TimerFires, RequestFailsLoudly
  <2>2. LogTypes'
    BY <1>1, <2>1 DEF LogTypes
  <2>3. RunnerTypes' /\ phase' = "run"
    BY <1>1, <2>1, CallbackType, Zenon DEF RunnerTypes, TypeInv
  <2> QED BY <2>1, <2>2, <2>3, OuterUnchanged, TurnUnchanged
<1>3. CASE RequestFailsSilently(p)
  <2>1. /\ UNCHANGED <<runner, allEvents, outer, phase, frames>>
        /\ pending' = pending \ {p} /\ dropped' = dropped \cup {p.step}
    BY <1>3 DEF RequestFailsSilently
  <2>2. LogTypes'
    BY <1>1, <2>1 DEF LogTypes, runner
  <2>3. RunnerTypes'
    BY <2>1, Zenon DEF RunnerTypes, runner
  <2>4. TurnTypes'
    BY <2>1 DEF TurnTypes, FramesInHeap, runner
  <2> QED BY <2>1, <2>2, <2>3, <2>4, OuterUnchanged
<1>4. CASE Reply(p)
  <2> DEFINE s == Scheme[p.step]
             callback == [kind |-> "callback", step |-> p.step, list |-> p.list]
             emit == [kind |-> "emit", type |-> s.reply]
  <2>1. /\ UNCHANGED <<calls, dropped, outer>> /\ pending' = pending \ {p}
        /\ s.reply \in Types
    BY <1>1, <1>4, StepFields DEF Reply
  <2>2. CASE s.eventFirst
    <3>1. /\ Push(s.reply) /\ frames' = <<callback>>
          /\ UNCHANGED <<cursor, inProgress, eventList, yielded>>
      BY <1>4, <2>2 DEF Reply
    <3>2. /\ heap' \in Seq(SUBSET Nat) /\ DOMAIN heap' = DOMAIN heap
          /\ allEvents' \in Seq(Types) /\ takenBy' \in Seq(0..N)
          /\ Len(takenBy') = Len(allEvents') /\ phase' = "run"
      BY <2>1, <3>1, PushType DEF TypeInv
    <3>3. callback \in Frames
      BY <1>1 DEF Frames, RunnerTypes
    <3>4. TurnTypes'
      BY <1>1, <3>1, <3>2, <3>3 DEF TurnTypes, FramesInHeap
    <3>5. LogTypes'
      BY <1>1, <2>1, <3>2 DEF LogTypes
    <3>6. RunnerTypes'
      BY <2>1, <3>1, <3>2, Zenon DEF RunnerTypes
    <3> QED BY <2>1, <3>4, <3>5, <3>6, OuterUnchanged
  <2>3. CASE ~s.eventFirst
    <3>1. /\ Callback(p.step, p.list) /\ frames' = <<emit>>
          /\ UNCHANGED <<heap, allEvents, takenBy>>
      BY <1>4, <2>3 DEF Reply
    <3>2. RunnerTypes' /\ phase' = "run"
      BY <1>1, <2>1, <3>1, CallbackType, Zenon DEF RunnerTypes, TypeInv
    <3>3. emit \in Frames
      BY <2>1 DEF Frames
    <3>4. TurnTypes'
      BY <3>1, <3>2, <3>3 DEF TurnTypes, FramesInHeap
    <3>5. LogTypes'
      BY <1>1, <2>1, <3>1 DEF LogTypes
    <3> QED BY <2>1, <3>2, <3>4, <3>5, OuterUnchanged
  <2> QED BY <2>2, <2>3
<1> QED BY <1>2, <1>3, <1>4

LEMMA ArriveType ==
    ASSUME TypeInv, NEW kind \in Requests, Arrive(kind)
    PROVE  TypeInv'
<1> USE TypeParts
<1>1. /\ Push(kind) /\ kind \in Types
      /\ UNCHANGED <<cursor, inProgress, eventList, calls, yielded, pending, dropped, outer,
                     frames>>
  BY StepFields DEF Arrive
<1>2. /\ heap' \in Seq(SUBSET Nat) /\ DOMAIN heap' = DOMAIN heap
      /\ allEvents' \in Seq(Types) /\ takenBy' \in Seq(0..N)
      /\ Len(takenBy') = Len(allEvents') /\ phase' = "run"
  BY <1>1, PushType DEF TypeInv
<1>3. LogTypes'
  BY <1>1, <1>2 DEF LogTypes
<1>4. RunnerTypes'
  BY <1>1, <1>2, Zenon DEF RunnerTypes
<1> QED BY <1>1, <1>2, <1>3, <1>4, OuterUnchanged, TurnUnchanged

LEMMA ExitStepsType ==
    ASSUME TypeInv, \/ \E how \in {"clean", "code", "signal", "killed"} : SutExits(how)
                    \/ Deadline
    PROVE  TypeInv'
<1> USE TypeParts
<1>1. CASE Deadline
  <2>1. /\ UNCHANGED <<runner, log, sut, phase, frames>>
        /\ timer' = "off" /\ timedOut' = TRUE /\ failed' = TRUE /\ listening' = FALSE
        /\ ends' = Append(ends, "timeout")
    BY <1>1 DEF Deadline
  <2>2. ends' \in Seq({"passed", "timeout", "crash"})
    BY <2>1 DEF OuterTypes
  <2>3. OuterTypes'
    BY <2>1, <2>2, Zenon DEF OuterTypes
  <2>4. RunnerTypes' /\ LogTypes' /\ TurnTypes'
    BY <2>1 DEF RunnerTypes, LogTypes, TurnTypes, FramesInHeap, runner, log
  <2> QED BY <2>3, <2>4
<1>2. ASSUME NEW how \in {"clean", "code", "signal", "killed"}, SutExits(how) PROVE TypeInv'
  <2>1. /\ UNCHANGED <<runner, allEvents, dropped, timedOut>> /\ sut' = how
    BY <1>2 DEF SutExits
  <2>2. /\ ends' \in Seq({"passed", "timeout", "crash"}) /\ timer' \in {"armed", "off"}
    <3>1. CASE how = "code"
      BY <1>2, <3>1 DEF SutExits, OuterTypes
    <3>2. CASE how # "code"
      BY <1>2, <3>2 DEF SutExits, OuterTypes
    <3> QED BY <3>1, <3>2
  <2>3. listening' \in BOOLEAN /\ failed' \in BOOLEAN
    BY <1>2, Zenon DEF SutExits, OuterTypes
  <2>4. OuterTypes'
    BY <2>1, <2>2, <2>3, Zenon DEF OuterTypes
  <2>5. RunnerTypes'
    BY <2>1, Zenon DEF RunnerTypes, runner
  <2>6. LogTypes'
    <3>1. IsFiniteSet(pending \ ExitPending)
      BY FS_Subset DEF LogTypes
    <3>2. pending' = pending \ ExitPending
      BY <1>2 DEF SutExits
    <3> QED BY <2>1, <3>1, <3>2 DEF LogTypes, runner
  <2>7. TurnTypes'
    <3>1. PICK queue \in ExitListeners :
            frames' = [k \in DOMAIN queue |->
                        [kind |-> "callback", step |-> queue[k].step, list |-> queue[k].list]]
      BY <1>2 DEF SutExits
    <3>2. Cardinality(ExitPending) \in Nat
      <4>1. IsFiniteSet(ExitPending)
        BY FS_Subset DEF LogTypes, ExitPending
      <4> QED BY <4>1, FS_CardinalityType
    <3>3. /\ DOMAIN queue = 1..Cardinality(ExitPending)
          /\ \A k \in DOMAIN queue : queue[k] \in pending
      BY DEF ExitListeners, ExitPending
    <3>4. \A p \in pending : p.step \in 1..N /\ p.list \in DOMAIN heap /\ p.list \in Nat \ {0}
      BY DEF LogTypes, Callbacks
    <3>5. \A k \in DOMAIN queue :
            [kind |-> "callback", step |-> queue[k].step, list |-> queue[k].list] \in Frames
      BY <3>3, <3>4 DEF Frames
    <3>6. frames' \in Seq(Frames)
      BY <3>1, <3>2, <3>3, <3>5
    <3>7. FramesInHeap'
      BY <2>1, <3>1, <3>3, <3>4 DEF FramesInHeap, runner
    <3>8. phase' = "return"
      BY <1>2 DEF SutExits
    <3> QED BY <3>6, <3>7, <3>8 DEF TurnTypes
  <2> QED BY <2>4, <2>5, <2>6, <2>7
<1> QED BY <1>1, <1>2

LEMMA NextType == TypeInv /\ [Next]_vars => TypeInv'
<1> SUFFICES ASSUME TypeInv, [Next]_vars PROVE TypeInv'
  OBVIOUS
<1>1. CASE Turn
  BY <1>1, ClosureStepsType, AsyncStepsType, ReturnStepsType DEF Turn
<1>2. CASE Environment
  BY <1>2, CallbackStepsType, ArriveType, ExitStepsType DEF Environment
<1>3. CASE UNCHANGED vars
  BY <1>3 DEF vars, runner, log, outer, TypeInv, TypeOK, FramesInHeap
<1> QED BY <1>1, <1>2, <1>3 DEF Next

(* The state is well typed: what the closures hold on to (a captured list, *)
(* a callback on the stack) exists, whatever scheme validate() is given.   *)
THEOREM TypeCorrect == Spec => []TypeOK
<1>1. TypeInv => TypeOK
  BY DEF TypeInv
<1> QED BY InitType, NextType, <1>1, PTL DEF Spec

----------------------------------------------------------------------------
(***************************************************************************)
(* A scheme whose closures call back with a list at most once: every one   *)
(* of the repository's but the one with checkSutMergedWithB, for which the *)
(* theorems below do not hold.                                             *)
(***************************************************************************)
NoMulti == \A i \in 1..N : Scheme[i].op # "multi"

Passed == "passed" \in {ends[j] : j \in DOMAIN ends}

(* There is one caller at most on the stack, and none between two turns.   *)
TurnShape ==
    /\ frames # <<>> => frames = <<frames[1]>> /\ frames[1].kind \in {"callback", "emit"}
    /\ phase = "idle" => frames = <<>>

(* There is one callback at most, in the environment or on the stack.      *)
Flight ==
    /\ \A p \in pending :
         p.step = cursor /\ p.list = eventList /\ inProgress = TRUE /\ pending = {p}
    /\ \A k \in DOMAIN frames : frames[k].kind = "callback" =>
         /\ frames[k].step = cursor /\ frames[k].list = eventList
         /\ inProgress = TRUE /\ pending = {}

(* The closures before the cursor, and no other, have called back.         *)
Progress ==
    /\ cursor <= N + 1
    /\ \A i \in 1..N : yielded[i] = IF i < cursor THEN 1 ELSE 0
    /\ Passed => cursor = N + 1

(* Who may still end the test.                                             *)
Verdict ==
    /\ listening = TRUE => ends = <<>>
    /\ timer = "armed" => ends = <<>>
    /\ timedOut = TRUE => ends = <<"timeout">> /\ listening = FALSE /\ timer = "off"
    /\ ends # <<>> /\ ends[1] = "timeout" => timedOut = TRUE
    /\ Passed => inProgress = FALSE /\ phase # "run"
    /\ EndsOnce

Order == TypeInv /\ TurnShape /\ Flight /\ Progress /\ Verdict /\ EventConservation

LEMMA InitOrder == Init => Order
<1> SUFFICES ASSUME Init PROVE Order
  OBVIOUS
<1>1. N \in Nat
  BY StepFields
<1>2. TurnShape /\ Flight
  BY DEF Init, TurnShape, Flight
<1>3. Progress
  BY <1>1 DEF Init, Progress, Passed
<1>4. Verdict
  BY DEF Init, Verdict, Passed, EndsOnce
<1>5. EventConservation
  BY DEF Init, EventConservation
<1> QED BY <1>2, <1>3, <1>4, <1>5, InitType DEF Order

(* Steps that leave the variables of a part alone keep it.                 *)
LEMMA ShapeKept ==
    ASSUME TurnShape, UNCHANGED frames, phase' # "idle" \/ frames = <<>>
    PROVE  TurnShape'
BY DEF TurnShape

LEMMA FlightKept ==
    ASSUME Flight, UNCHANGED <<cursor, eventList, inProgress, pending, frames>>
    PROVE  Flight'
BY DEF Flight

LEMMA FlightOver ==
    ASSUME pending' = {}, \A k \in DOMAIN frames' : frames'[k].kind # "callback"
    PROVE  Flight'
BY DEF Flight

LEMMA ProgressKept ==
    ASSUME Progress, UNCHANGED <<cursor, yielded, ends>>
    PROVE  Progress'
BY DEF Progress, Passed

LEMMA VerdictKept ==
    ASSUME Verdict, UNCHANGED <<listening, timer, timedOut, ends>>,
           Passed => inProgress' = FALSE /\ phase' # "run"
    PROVE  Verdict'
BY DEF Verdict, Passed, EndsOnce

LEMMA ConservedKept ==
    ASSUME EventConservation, UNCHANGED <<heap, eventList, allEvents, takenBy>>
    PROVE  EventConservation'
BY DEF EventConservation

(* Nothing is in flight while no closure is in progress.                   *)
LEMMA Resting ==
    ASSUME Flight, inProgress # TRUE
    PROVE  pending = {} /\ \A k \in DOMAIN frames : frames[k].kind # "callback"
BY DEF Flight

(* A callback of the closure at the cursor.                                *)
LEMMA CallbackProgress ==
    ASSUME TypeInv, Progress, cursor \in 1..N, NEW list, Callback(cursor, list), UNCHANGED ends
    PROVE  Progress' /\ ~Passed
<1>1. cursor \in Nat /\ N \in Nat /\ cursor <= N /\ yielded \in [1..N -> Nat]
  BY StepFields DEF TypeInv, TypeOK
<1>2. cursor' = cursor + 1 /\ yielded' = [yielded EXCEPT ![cursor] = @ + 1]
  BY DEF Callback
<1>3. ~Passed /\ ~Passed'
  BY <1>1 DEF Progress, Passed
<1>4. \A i \in 1..N : yielded'[i] = IF i < cursor' THEN 1 ELSE 0
  BY <1>1, <1>2 DEF Progress
<1> QED BY <1>1, <1>2, <1>3, <1>4 DEF Progress

(* An event that is pushed is in the current array and taken by nobody.    *)
LEMMA PushConserves ==
    ASSUME TypeInv, EventConservation, NEW kind, Push(kind), UNCHANGED eventList
    PROVE  EventConservation'
<1>1. /\ allEvents \in Seq(Types) /\ takenBy \in Seq(0..N) /\ Len(takenBy) = Len(allEvents)
      /\ eventList \in DOMAIN heap /\ heap \in Seq(SUBSET Nat)
  BY DEF TypeInv, TypeOK
<1>2. heap'[eventList'] = heap[eventList] \cup {Len(allEvents) + 1}
  BY <1>1 DEF Push
<1>3. DOMAIN allEvents' = 1..(Len(allEvents) + 1) /\ DOMAIN allEvents = 1..Len(allEvents)
  BY <1>1 DEF Push
<1>4. takenBy'[Len(allEvents) + 1] = 0 /\ \A e \in DOMAIN allEvents : takenBy'[e] = takenBy[e]
  BY <1>1 DEF Push
<1>5. Len(allEvents) \in Nat
  BY <1>1
<1> QED BY <1>2, <1>3, <1>4, <1>5 DEF EventConservation

(* The events that a closure removes are marked with its number.           *)
LEMMA RemovalConserves ==
    ASSUME TypeInv, EventConservation, cursor \in 1..N, NEW gone,
           takenBy' = Mark(gone, cursor), UNCHANGED allEvents,
           heap'[eventList'] = heap[eventList] \ gone
    PROVE  EventConservation'
<1>1. DOMAIN allEvents = DOMAIN takenBy /\ cursor # 0
  BY StepFields DEF TypeInv, TypeOK
<1> QED BY <1>1 DEF EventConservation, Mark

(* What Order says of the caller on the stack.                             *)
LEMMA TheFrame ==
    ASSUME Order, frames # <<>>
    PROVE  /\ frames = <<Head(frames)>> /\ Tail(frames) = <<>>
           /\ Head(frames).kind \in {"callback", "emit"}
           /\ Head(frames).kind = "callback" =>
                /\ Head(frames).step = cursor /\ Head(frames).list = eventList
                /\ inProgress = TRUE /\ pending = {} /\ cursor \in 1..N
<1>1. frames = <<frames[1]>> /\ frames[1].kind \in {"callback", "emit"} /\ frames \in Seq(Frames)
  BY DEF Order, TurnShape, TypeInv, TypeOK
<1>2. Head(frames) = frames[1] /\ Tail(frames) = <<>> /\ 1 \in DOMAIN frames
  <2>1. ASSUME NEW x PROVE Head(<<x>>) = x /\ Tail(<<x>>) = <<>> /\ 1 \in DOMAIN <<x>>
    OBVIOUS
  <2> QED BY <1>1, <2>1, Zenon
<1>3. frames[1].kind = "callback" => frames[1].step \in 1..N
  BY <1>1, <1>2, FramesType DEF Order
<1> QED BY <1>1, <1>2, <1>3 DEF Order, Flight

LEMMA CallingCursor ==
    ASSUME TypeInv, NEW ops, Calling(ops)
    PROVE  cursor \in 1..N /\ inProgress # TRUE /\ phase = "run"
<1>1. cursor <= N /\ inProgress # TRUE /\ phase = "run"
  BY DEF Calling, MayRun
<1>2. cursor \in Nat \ {0} /\ N \in Nat
  BY StepFields DEF TypeInv, TypeOK
<1>3. cursor \in 1..N
  BY <1>1, <1>2
<1> QED BY <1>1, <1>3, Zenon

(* progressFromCursor and the synchronous closures.                        *)
LEMMA ClosureStepsOrder ==
    ASSUME Order, Blocked \/ ProgressionComplete \/ NotYet \/ RunInPlace \/ RunFilter
    PROVE  Order'
<1> USE DEF Order
<1>1. TypeInv'
  BY ClosureStepsType
<1>2. UNCHANGED frames /\ phase = "run" /\ phase' # "idle"
  BY DEF Blocked, ProgressionComplete, NotYet, RunInPlace, RunFilter, MayRun, Calling, Callback
<1>3. TurnShape'
  BY <1>2, ShapeKept
<1>4. ~Passed
  BY <1>2 DEF Verdict
<1>5. CASE Blocked
  BY <1>1, <1>3, <1>4, <1>5, FlightKept, ProgressKept, VerdictKept, ConservedKept
     DEF Blocked, runner, log, outer
<1>6. CASE ProgressionComplete
  <2>1. /\ UNCHANGED <<runner, log, timedOut, sut, frames>> /\ timedOut # TRUE
        /\ inProgress # TRUE /\ cursor > N
        /\ timer' = "off" /\ listening' = FALSE
        /\ ends' = Append(ends, "passed") /\ phase' = "return"
    BY <1>6 DEF ProgressionComplete, MayRun
  <2>2. Flight' /\ EventConservation'
    BY <2>1, FlightKept, ConservedKept DEF runner, log
  <2>3. Progress'
    BY <2>1, StepFields DEF runner, Progress, Passed, TypeInv, TypeOK
  <2>4. inProgress' = FALSE
    BY <2>1 DEF runner, TypeInv, TypeOK
  <2>5. /\ ends \in Seq({"passed", "timeout", "crash"})
        /\ ends' # <<>> /\ Len(ends') = Len(ends) + 1
        /\ ends # <<>> => ends'[1] = ends[1]
        /\ ends = <<>> => ends'[1] = "passed"
        /\ ends # <<>> => 1 \in DOMAIN ends /\ ends[1] \in {"passed", "timeout", "crash"}
    <3>1. ends \in Seq({"passed", "timeout", "crash"}) /\ ends' = Append(ends, "passed")
      BY <2>1 DEF TypeInv, TypeOK
    <3> QED BY <3>1
  <2>6. ends # <<>> => ends[1] = "crash"
    BY <1>4, <2>1, <2>5 DEF Passed, Verdict
  <2>7. timedOut' = timedOut
    BY <2>1
  <2>8. Verdict'
    BY <2>1, <2>4, <2>5, <2>6, <2>7 DEF Verdict, EndsOnce
  <2> QED BY <1>1, <1>3, <2>2, <2>3, <2>8
<1>7. CASE NotYet
  <2>1. PICK gone : /\ heap' = [heap EXCEPT ![eventList] = @ \ gone]
                    /\ takenBy' = Mark(gone, cursor)
    BY <1>7 DEF NotYet
  <2>2. /\ inProgress' = FALSE /\ UNCHANGED <<eventList, cursor, yielded, calls, log, outer, frames>>
        /\ phase' = "return" /\ cursor \in 1..N /\ inProgress # TRUE
    BY <1>7, CallingCursor DEF NotYet, CallbackNull
  <2>3. Flight'
    BY <2>2, Resting, FlightOver DEF log
  <2>4. Progress' /\ Verdict'
    BY <1>4, <2>2, ProgressKept, VerdictKept DEF outer
  <2>5. heap'[eventList'] = heap[eventList] \ gone
    BY <2>1, <2>2 DEF TypeInv, TypeOK
  <2>6. EventConservation'
    BY <2>1, <2>2, <2>5, RemovalConserves DEF log
  <2> QED BY <1>1, <1>3, <2>3, <2>4, <2>6
<1>8. CASE RunInPlace
  <2>1. PICK gone : /\ heap' = [heap EXCEPT ![eventList] = @ \ gone]
                    /\ takenBy' = Mark(gone, cursor)
    BY <1>8 DEF RunInPlace
  <2>2. /\ UNCHANGED <<calls, log, outer, frames>> /\ Callback(cursor, eventList)
        /\ cursor \in 1..N /\ inProgress # TRUE
    BY <1>8, CallingCursor DEF RunInPlace
  <2>3. Flight'
    BY <2>2, Resting, FlightOver DEF log
  <2>4. Progress' /\ Verdict'
    BY <2>2, <1>4, CallbackProgress, VerdictKept DEF outer
  <2>5. heap'[eventList'] = heap[eventList] \ gone
    BY <2>1, <2>2 DEF TypeInv, TypeOK, Callback
  <2>6. EventConservation'
    BY <2>1, <2>2, <2>5, RemovalConserves DEF log
  <2> QED BY <1>1, <1>3, <2>3, <2>4, <2>6
<1>9. CASE RunFilter
  <2>1. PICK gone : /\ heap' = Append(heap, heap[eventList] \ gone)
                    /\ takenBy' = Mark(gone, cursor)
    BY <1>9 DEF RunFilter
  <2>2. /\ UNCHANGED <<calls, log, timedOut, timer, listening, sut, ends, frames>>
        /\ Callback(cursor, Len(heap) + 1) /\ cursor \in 1..N /\ inProgress # TRUE
    BY <1>9, CallingCursor DEF RunFilter
  <2>3. Flight'
    BY <2>2, Resting, FlightOver DEF log
  <2>4. Progress' /\ Verdict'
    BY <2>2, <1>4, CallbackProgress, VerdictKept
  <2>5. heap'[eventList'] = heap[eventList] \ gone
    BY <2>1, <2>2 DEF TypeInv, TypeOK, Callback
  <2>6. EventConservation'
    BY <2>1, <2>2, <2>5, RemovalConserves DEF log
  <2> QED BY <1>1, <1>3, <2>3, <2>4, <2>6
<1> QED BY <1>5, <1>6, <1>7, <1>8, <1>9

(* The closures that hand their callback over.                             *)
LEMMA RunAsyncOrder ==
    ASSUME Order, RunAsync
    PROVE  Order'
<1> USE DEF Order
<1> DEFINE p == [step |-> cursor, list |-> eventList, call |-> calls[cursor] + 1]
<1>1. TypeInv'
  BY AsyncStepsType
<1>2. /\ UNCHANGED <<cursor, eventList, heap, takenBy, yielded, allEvents, outer, frames>>
      /\ inProgress' = TRUE /\ phase' = "return" /\ phase = "run" /\ inProgress # TRUE
      /\ pending' \subseteq pending \cup {p}
  BY DEF RunAsync, Calling, MayRun
<1>3. pending = {} /\ \A k \in DOMAIN frames : frames[k].kind # "callback"
  BY <1>2, Resting
<1>4. Flight'
  BY <1>2, <1>3 DEF Flight
<1>5. ~Passed
  BY <1>2 DEF Verdict
<1> QED BY <1>1, <1>2, <1>4, <1>5, ShapeKept, ProgressKept, VerdictKept, ConservedKept DEF outer

(* The rest of a turn.                                                     *)
LEMMA ReturnStepsOrder ==
    ASSUME Order, TurnEnds \/ ThenCallback \/ ThenEmit
    PROVE  Order'
<1> USE DEF Order
<1>1. TypeInv'
  BY ReturnStepsType
<1>2. CASE TurnEnds
  <2>1. UNCHANGED <<runner, log, outer, frames>> /\ phase' = "idle" /\ frames = <<>>
    BY <1>2 DEF TurnEnds
  <2>2. Passed => inProgress' = FALSE /\ phase' # "run"
    BY <2>1 DEF Verdict, runner
  <2> QED BY <1>1, <2>1, <2>2, ShapeKept, FlightKept, ProgressKept, VerdictKept, ConservedKept
          DEF runner, log, outer
<1>3. CASE ThenCallback
  <2>1. /\ UNCHANGED <<heap, takenBy, calls, log, outer>> /\ frames # <<>>
        /\ Head(frames).kind = "callback" /\ frames' = Tail(frames)
        /\ Callback(Head(frames).step, Head(frames).list)
    BY <1>3 DEF ThenCallback, Top
  <2>2. /\ frames' = <<>> /\ pending = {} /\ cursor \in 1..N /\ Callback(cursor, eventList)
    BY <2>1, TheFrame
  <2>3. TurnShape' /\ Flight'
    BY <2>1, <2>2, FlightOver DEF TurnShape, log, Callback
  <2>4. Progress' /\ Verdict'
    BY <2>1, <2>2, CallbackProgress, VerdictKept DEF outer
  <2>5. EventConservation'
    BY <2>1, <2>2, ConservedKept DEF log, Callback
  <2> QED BY <1>1, <2>3, <2>4, <2>5
<1>4. CASE ThenEmit
  <2>1. /\ UNCHANGED <<cursor, inProgress, eventList, calls, yielded, pending, dropped, outer>>
        /\ frames # <<>> /\ Head(frames).kind = "emit" /\ frames' = Tail(frames)
        /\ phase = "return"
    BY <1>4 DEF ThenEmit, Top
  <2>2. frames' = <<>>
    BY <2>1, TheFrame
  <2>3. Flight'
    BY <2>1, <2>2 DEF Flight
  <2>4. Progress'
    BY <2>1, ProgressKept DEF outer
  <2>5. CASE listening = TRUE
    <3>1. Push(Head(frames).type) /\ ~Passed
      BY <1>4, <2>5 DEF ThenEmit, Verdict, Passed
    <3>2. TurnShape'
      BY <2>2, <3>1 DEF TurnShape, Push
    <3>3. Verdict' /\ EventConservation'
      BY <2>1, <3>1, VerdictKept, PushConserves DEF outer
    <3> QED BY <1>1, <2>3, <2>4, <3>2, <3>3
  <2>6. CASE listening # TRUE
    <3>1. UNCHANGED <<heap, allEvents, takenBy, phase>>
      BY <1>4, <2>6 DEF ThenEmit, TypeInv, TypeOK
    <3>2. TurnShape'
      BY <2>1, <2>2, <3>1 DEF TurnShape
    <3>3. Passed => inProgress' = FALSE /\ phase' # "run"
      BY <2>1, <3>1 DEF Verdict
    <3>4. Verdict' /\ EventConservation'
      BY <2>1, <3>1, <3>3, VerdictKept, ConservedKept DEF outer
    <3> QED BY <1>1, <2>3, <2>4, <3>2, <3>4
  <2> QED BY <2>5, <2>6
<1> QED BY <1>2, <1>3, <1>4

(* The turns that the environment starts.                                  *)
LEMMA ArriveOrder ==
    ASSUME Order, NEW kind \in Requests, Arrive(kind)
    PROVE  Order'
<1> USE DEF Order
<1>1. TypeInv'
  BY ArriveType
<1>2. /\ Push(kind) /\ listening /\ phase = "idle" /\ frames = <<>>
      /\ UNCHANGED <<cursor, inProgress, eventList, calls, yielded, pending, dropped, outer,
                     frames>>
  BY DEF Arrive, Idle, TurnShape
<1>3. ~Passed
  BY <1>2 DEF Verdict, Passed
<1> QED BY <1>1, <1>2, <1>3, ShapeKept, FlightKept, ProgressKept, VerdictKept, PushConserves
        DEF outer

LEMMA CallbackStepsOrder ==
    ASSUME Order, NEW p \in pending,
           TimerFires(p) \/ Reply(p) \/ RequestFailsLoudly(p) \/ RequestFailsSilently(p)
    PROVE  Order'
<1> USE DEF Order
<1>1. TypeInv'
  BY CallbackStepsType
<1>2. p.step = cursor /\ p.list = eventList /\ inProgress = TRUE /\ pending \ {p} = {}
  BY DEF Flight
<1>3. cursor \in 1..N
  BY <1>2 DEF TypeInv, TypeOK, Callbacks
<1>4. phase = "idle" /\ frames = <<>>
  BY DEF TimerFires, Reply, RequestFailsLoudly, RequestFailsSilently, Idle, TurnShape
<1>5. ~Passed
  BY <1>2 DEF Verdict
<1>6. CASE TimerFires(p) \/ RequestFailsLoudly(p)
  <2>1. /\ UNCHANGED <<heap, takenBy, calls, allEvents, dropped, outer, frames>>
        /\ Callback(cursor, eventList) /\ pending' = {}
    BY <1>2, <1>6 DEF TimerFires, RequestFailsLoudly
  <2>2. TurnShape' /\ Flight'
    BY <1>4, <2>1, ShapeKept, FlightOver
  <2>3. Progress' /\ Verdict'
    BY <1>3, <1>5, <2>1, CallbackProgress, VerdictKept DEF outer
  <2>4. EventConservation'
    BY <2>1, ConservedKept DEF Callback
  <2> QED BY <1>1, <2>2, <2>3, <2>4
<1>7. CASE RequestFailsSilently(p)
  <2>1. UNCHANGED <<runner, allEvents, outer, phase, frames>> /\ pending' = {}
    BY <1>2, <1>7 DEF RequestFailsSilently
  <2>2. TurnShape' /\ Flight'
    BY <1>4, <2>1, ShapeKept, FlightOver
  <2>3. Progress' /\ Verdict'
    BY <1>5, <2>1, ProgressKept, VerdictKept DEF runner, outer
  <2>4. EventConservation'
    BY <2>1, ConservedKept DEF runner
  <2> QED BY <1>1, <2>2, <2>3, <2>4
<1>8. CASE Reply(p)
  <2> DEFINE s == Scheme[p.step]
             callback == [kind |-> "callback", step |-> p.step, list |-> p.list]
             emit == [kind |-> "emit", type |-> s.reply]
  <2>1. UNCHANGED <<calls, dropped, outer>> /\ pending' = {}
    BY <1>2, <1>8 DEF Reply
  <2>2. CASE s.eventFirst
    <3>1. /\ Push(s.reply) /\ frames' = <<callback>>
          /\ UNCHANGED <<cursor, inProgress, eventList, yielded>>
      BY <1>8, <2>2 DEF Reply
    <3>2. Flight'
      BY <1>2, <2>1, <3>1 DEF Flight
    <3>3. TurnShape'
      BY <3>1 DEF TurnShape, Push
    <3>4. Progress' /\ Verdict' /\ EventConservation'
      BY <1>5, <2>1, <3>1, ProgressKept, VerdictKept, PushConserves DEF outer
    <3> QED BY <1>1, <3>2, <3>3, <3>4
  <2>3. CASE ~s.eventFirst
    <3>1. /\ Callback(cursor, eventList) /\ frames' = <<emit>>
          /\ UNCHANGED <<heap, allEvents, takenBy>>
      BY <1>2, <1>8, <2>3 DEF Reply
    <3>2. Flight'
      BY <2>1, <3>1, FlightOver
    <3>3. TurnShape'
      BY <3>1 DEF TurnShape, Callback
    <3>4. Progress' /\ Verdict'
      BY <1>3, <1>5, <2>1, <3>1, CallbackProgress, VerdictKept DEF outer
    <3>5. EventConservation'
      BY <3>1, ConservedKept DEF Callback
    <3> QED BY <1>1, <3>2, <3>3, <3>4, <3>5
  <2> QED BY <2>2, <2>3
<1> QED BY <1>6, <1>7, <1>8

LEMMA DeadlineOrder ==
    ASSUME Order, Deadline
    PROVE  Order'
<1> USE DEF Order
<1>1. TypeInv'
  BY ExitStepsType
<1>2. /\ UNCHANGED <<runner, log, sut, phase, frames>> /\ phase = "idle" /\ frames = <<>>
      /\ timer' = "off" /\ timedOut' = TRUE /\ listening' = FALSE /\ timer = "armed"
      /\ ends' = Append(ends, "timeout")
  BY DEF Deadline, Idle, TurnShape
<1>3. ends = <<>>
  BY <1>2 DEF Verdict
<1>4. ends' = <<"timeout">>
  BY <1>2, <1>3
<1>5. ~Passed'
  BY <1>4 DEF Passed
<1>6. Verdict'
  BY <1>2, <1>4, <1>5 DEF Verdict, EndsOnce
<1>7. Progress'
  BY <1>2, <1>5 DEF Progress, runner
<1> QED BY <1>1, <1>2, <1>6, <1>7, ShapeKept, FlightKept, ConservedKept DEF runner, log

LEMMA SutExitsOrder ==
    ASSUME Order, NEW how \in {"clean", "code", "signal", "killed"}, SutExits(how)
    PROVE  Order'
<1> USE DEF Order
<1>1. TypeInv'
  BY ExitStepsType
<1>2. /\ UNCHANGED <<runner, allEvents, dropped, timedOut>> /\ phase = "idle" /\ frames = <<>>
  BY DEF SutExits, Idle, TurnShape
<1>3. EventConservation'
  BY <1>2, ConservedKept DEF runner
<1>4. PICK queue \in ExitListeners :
        /\ pending' = pending \ ExitPending /\ phase' = "return"
        /\ frames' = [k \in DOMAIN queue |->
                       [kind |-> "callback", step |-> queue[k].step, list |-> queue[k].list]]
  BY DEF SutExits
<1>5. TurnShape' /\ Flight'
  <2>1. CASE ExitPending = {}
    <3>1. \A k \in DOMAIN queue : FALSE
      BY <2>1 DEF ExitListeners
    <3>2. frames' = <<>>
      <4>1. frames' \in Seq(Frames)
        BY <1>1 DEF TypeInv, TypeOK
      <4>2. \A k \in DOMAIN frames' : FALSE
        BY <1>4, <3>1
      <4>3. Len(frames') \in Nat /\ DOMAIN frames' = 1..Len(frames')
        BY <4>1
      <4>4. Len(frames') = 0
        <5>1. ASSUME NEW n \in Nat, \A k \in 1..n : FALSE PROVE n = 0
          <6>1. ~(1 \in 1..n)
            BY <5>1
          <6> QED BY <6>1
        <5> QED BY <4>2, <4>3, <5>1
      <4> QED BY <4>1, <4>4, EmptySeq
    <3>3. UNCHANGED <<cursor, eventList, inProgress, pending, frames>> /\ phase' # "idle"
      BY <1>2, <1>4, <2>1, <3>2 DEF runner
    <3> QED BY <3>3, FlightKept, ShapeKept
  <2>2. CASE ExitPending # {}
    <3> DEFINE p == CHOOSE p \in ExitPending : TRUE
               f == [kind |-> "callback", step |-> cursor, list |-> eventList]
    <3>1. p \in ExitPending /\ p \in pending
      BY <2>2 DEF ExitPending
    <3>2. /\ p.step = cursor /\ p.list = eventList /\ inProgress = TRUE /\ pending = {p}
          /\ ExitPending = {p}
      BY <3>1 DEF Flight, ExitPending
    <3> HIDE DEF p
    <3>3. Cardinality(ExitPending) = 1
      BY <3>2, FS_Singleton
    <3>4. DOMAIN queue = 1..1 /\ \A k \in DOMAIN queue : queue[k] = p
      BY <3>2, <3>3 DEF ExitListeners
    <3>5. frames' = <<f>>
      BY <1>4, <3>2, <3>4
    <3> HIDE DEF f
    <3>6. frames' # <<>> /\ frames'[1] = f /\ DOMAIN frames' = {1}
      BY <3>5
    <3>7. f.kind = "callback" /\ f.step = cursor /\ f.list = eventList
      BY DEF f
    <3>8. pending' = {}
      BY <1>4, <3>2
    <3>9. TurnShape'
      BY <1>4, <3>5, <3>6, <3>7 DEF TurnShape
    <3> QED BY <1>2, <3>2, <3>6, <3>7, <3>8, <3>9 DEF Flight, runner
  <2> QED BY <2>1, <2>2
<1>6. Passed => inProgress' = FALSE /\ phase' # "run"
  BY <1>2, <1>4 DEF Verdict, runner
<1>7. CASE how = "code"
  <2>1. /\ timer' = "off" /\ listening' = FALSE /\ ends' = Append(ends, "crash")
        /\ listening = TRUE
    BY <1>7 DEF SutExits, TypeInv, TypeOK
  <2>2. ends = <<>> /\ timedOut # TRUE
    BY <2>1 DEF Verdict
  <2>3. ends' = <<"crash">>
    BY <2>1, <2>2
  <2>4. ~Passed'
    BY <2>3 DEF Passed
  <2>5. Progress'
    BY <1>2, <2>4 DEF Progress, runner
  <2>6. Verdict'
    BY <1>2, <2>1, <2>2, <2>3, <2>4 DEF Verdict, EndsOnce
  <2> QED BY <1>1, <1>3, <1>5, <2>5, <2>6
<1>8. CASE how # "code"
  <2>1. UNCHANGED <<timer, listening, ends>>
    BY <1>8 DEF SutExits
  <2> QED BY <1>1, <1>2, <1>3, <1>5, <1>6, <2>1, ProgressKept, VerdictKept DEF runner
<1> QED BY <1>7, <1>8

LEMMA NextOrder == NoMulti /\ Order /\ [Next]_vars => Order'
<1> SUFFICES ASSUME NoMulti, Order, [Next]_vars PROVE Order'
  OBVIOUS
<1>1. ~RunMulti
  BY CallingCursor DEF NoMulti, Order, RunMulti, Calling
<1>2. ~MultiYields /\ ~MultiReturns
  BY TheFrame DEF MultiYields, MultiReturns, Top
<1>3. CASE Turn
  BY <1>1, <1>2, <1>3, ClosureStepsOrder, RunAsyncOrder, ReturnStepsOrder DEF Turn
<1>4. CASE Environment
  BY <1>4, ArriveOrder, CallbackStepsOrder, DeadlineOrder, SutExitsOrder DEF Environment
<1>5. CASE UNCHANGED vars
  <2>1. TypeInv'
    BY <1>5, NextType DEF Order
  <2>2. UNCHANGED <<runner, log, outer, phase, frames>>
    BY <1>5 DEF vars
  <2>3. TurnShape' /\ Flight' /\ Progress' /\ EventConservation'
    BY <2>2, FlightKept, ProgressKept, ConservedKept
       DEF Order, TurnShape, runner, log, outer
  <2>4. Verdict'
    BY <2>2 DEF Order, Verdict, Passed, EndsOnce, runner, outer
  <2> QED BY <2>1, <2>3, <2>4 DEF Order
<1> QED BY <1>3, <1>4, <1>5 DEF Next

(* The strengthened invariant; the theorems below are read off from it.    *)
THEOREM OrderInvariant ==
    ASSUME NoMulti
    PROVE  Spec => []Order
BY InitOrder, NextOrder, PTL DEF Spec

(* No closure is started while another one is in flight, and what a        *)
(* closure calls back with is the array that events were pushed to.        *)
THEOREM OneInFlight ==
    ASSUME NoMulti
    PROVE  Spec => []SingleFlight
<1>1. Order => SingleFlight
  <2> SUFFICES ASSUME Order, NEW a \in Outstanding
               PROVE  a = [step |-> cursor, list |-> eventList] /\ inProgress
    BY DEF SingleFlight
  <2> QED BY DEF Order, Flight, Outstanding
<1> QED BY <1>1, OrderInvariant, PTL

(* Events are neither lost nor seen again after a closure discarded them.  *)
THEOREM EventsConserved ==
    ASSUME NoMulti
    PROVE  Spec => []EventConservation
<1>1. Order => EventConservation
  BY DEF Order
<1> QED BY <1>1, OrderInvariant, PTL

(* A test that passes has run every closure of its scheme once.            *)
THEOREM PassMeansAllRan ==
    ASSUME NoMulti
    PROVE  Spec => []PassedRanAll
<1>1. Order => PassedRanAll
  BY StepFields DEF Order, Progress, Passed, PassedRanAll
<1> QED BY <1>1, OrderInvariant, PTL

(* t.end() is called once, unless the SUT's crash was reported first.      *)
THEOREM TestEndsOnce ==
    ASSUME NoMulti
    PROVE  Spec => []EndsOnce
<1>1. Order => EndsOnce
  BY DEF Order, Verdict
<1> QED BY <1>1, OrderInvariant, PTL

----------------------------------------------------------------------------
(***************************************************************************)
(* The runner implements the contract of its comment.                      *)
(***************************************************************************)
LEMMA ContractInitially == Init => Contract!ContractInit
BY DEF Init, Contract!ContractInit

(* A callback is a Yield.                                                  *)
LEMMA CallbackYields ==
    ASSUME TypeInv, cursor \in 1..N, NEW list, Callback(cursor, list),
           heap'[list] \subseteq heap[eventList], UNCHANGED <<allEvents, ends>>
    PROVE  Contract!Yield
<1>1. cursor \in Nat /\ N \in Nat /\ cursor - 1 < N /\ (cursor + 1) - 1 = (cursor - 1) + 1
  BY StepFields
<1>2. cursor' = cursor + 1 /\ eventList' = list
  BY DEF Callback
<1> QED BY <1>1, <1>2 DEF Contract!Yield

(* A pushed event is a Receive: who listens has not ended the test.        *)
LEMMA PushReceives ==
    ASSUME TypeInv, NEW kind, Push(kind), ends = <<>>, UNCHANGED <<cursor, eventList, ends>>
    PROVE  Contract!Receive
<1>1. allEvents \in Seq(Types) /\ heap \in Seq(SUBSET Nat) /\ eventList \in DOMAIN heap
  BY DEF TypeInv, TypeOK
<1>2. Len(allEvents') = Len(allEvents) + 1
  BY <1>1 DEF Push
<1>3. heap'[eventList'] = heap[eventList] \cup {Len(allEvents) + 1}
  BY <1>1 DEF Push
<1> QED BY <1>2, <1>3 DEF Contract!Receive

LEMMA ContractStep ==
    ASSUME NoMulti, Order, [Next]_vars
    PROVE  [Contract!ContractNext]_(Contract!contractVars)
<1> USE DEF Order, Contract!ContractNext
<1>1. CASE UNCHANGED <<cursor, allEvents, heap, eventList, ends>>
  BY <1>1 DEF Contract!contractVars
<1>2. CASE NotYet
  <2>1. PICK gone : heap' = [heap EXCEPT ![eventList] = @ \ gone]
    BY <1>2 DEF NotYet
  <2>2. UNCHANGED <<eventList, cursor, log, outer>>
    BY <1>2 DEF NotYet, CallbackNull
  <2>3. heap'[eventList'] \subseteq heap[eventList]
    BY <2>1, <2>2 DEF TypeInv, TypeOK
  <2> QED BY <2>2, <2>3 DEF Contract!Discard, log, outer
<1>3. CASE RunInPlace
  <2>1. /\ Callback(cursor, eventList) /\ UNCHANGED <<log, outer>> /\ cursor \in 1..N
    BY <1>3, CallingCursor DEF RunInPlace
  <2>2. heap'[eventList] \subseteq heap[eventList]
    BY <1>3 DEF RunInPlace, TypeInv, TypeOK
  <2> QED BY <2>1, <2>2, CallbackYields DEF log, outer
<1>4. CASE RunFilter
  <2>1. /\ Callback(cursor, Len(heap) + 1) /\ UNCHANGED <<log, ends>> /\ cursor \in 1..N
    BY <1>4, CallingCursor DEF RunFilter
  <2>2. heap'[Len(heap) + 1] \subseteq heap[eventList]
    BY <1>4 DEF RunFilter, TypeInv, TypeOK
  <2> QED BY <2>1, <2>2, CallbackYields DEF log
<1>5. CASE ProgressionComplete
  <2>1. /\ UNCHANGED <<runner, log>> /\ ends' = Append(ends, "passed") /\ cursor > N
        /\ ends \in Seq({"passed", "timeout", "crash"})
    BY <1>5 DEF ProgressionComplete, TypeInv, TypeOK
  <2>2. CASE ends = <<>>
    <3>1. ends' = <<"passed">>
      BY <2>1, <2>2
    <3>2. cursor - 1 = N
      BY <2>1, StepFields DEF Progress, TypeInv, TypeOK
    <3> QED BY <2>1, <2>2, <3>1, <3>2 DEF Contract!Succeed, runner, log
  <2>3. CASE ends # <<>>
    <3>1. ends' # <<>> /\ ends'[1] = ends[1]
      BY <2>1, <2>3
    <3> QED BY <2>1, <2>3, <3>1 DEF Contract!contractVars, runner, log
  <2> QED BY <2>2, <2>3
<1>6. CASE ThenCallback
  <2>1. /\ Callback(cursor, eventList) /\ UNCHANGED <<heap, log, outer>> /\ cursor \in 1..N
    BY <1>6, TheFrame DEF ThenCallback, Top
  <2> QED BY <2>1, CallbackYields DEF log, outer
<1>7. CASE ThenEmit
  <2>1. UNCHANGED <<cursor, eventList, outer>>
    BY <1>7 DEF ThenEmit
  <2>2. CASE listening = TRUE
    BY <1>7, <2>1, <2>2, PushReceives DEF ThenEmit, Verdict, outer
  <2>3. CASE listening # TRUE
    BY <1>1, <1>7, <2>1, <2>3 DEF ThenEmit, TypeInv, TypeOK, outer
  <2> QED BY <2>2, <2>3
<1>8. ASSUME NEW kind, Arrive(kind) PROVE Contract!Receive
  BY <1>8, PushReceives DEF Arrive, Verdict, outer
<1>9. ASSUME NEW p \in pending, TimerFires(p) \/ RequestFailsLoudly(p) \/ Reply(p)
      PROVE  Contract!Receive \/ Contract!Yield
  <2>1. p.step = cursor /\ p.list = eventList /\ cursor \in 1..N
    BY DEF Flight, TypeInv, TypeOK, Callbacks
  <2>2. CASE TimerFires(p) \/ RequestFailsLoudly(p)
    <3>1. Callback(cursor, eventList) /\ UNCHANGED <<heap, allEvents, outer>>
      BY <2>1, <2>2 DEF TimerFires, RequestFailsLoudly
    <3> QED BY <2>1, <3>1, CallbackYields DEF outer
  <2>3. CASE Reply(p)
    <3>1. listening /\ UNCHANGED outer
      BY <2>3 DEF Reply
    <3>2. CASE Scheme[p.step].eventFirst
      <4>1. Push(Scheme[p.step].reply) /\ UNCHANGED <<cursor, eventList>> /\ ends = <<>>
        BY <2>3, <3>1, <3>2 DEF Reply, Verdict
      <4> QED BY <3>1, <4>1, PushReceives DEF outer
    <3>3. CASE ~Scheme[p.step].eventFirst
      <4>1. Callback(cursor, eventList) /\ UNCHANGED <<heap, allEvents>>
        BY <2>1, <2>3, <3>3 DEF Reply
      <4> QED BY <2>1, <3>1, <4>1, CallbackYields DEF outer
    <3> QED BY <3>2, <3>3
  <2> QED BY <1>9, <2>2, <2>3
<1>10. CASE Deadline
  <2>1. ends = <<>> /\ ends' = <<"timeout">> /\ UNCHANGED <<runner, log>>
    BY <1>10 DEF Deadline, Verdict
  <2> QED BY <2>1 DEF Contract!GiveUp, runner, log
<1>11. ASSUME NEW how, SutExits(how) PROVE [Contract!ContractNext]_(Contract!contractVars)
  <2>1. UNCHANGED <<runner, allEvents>>
    BY <1>11 DEF SutExits
  <2>2. CASE how = "code"
    <3>1. ends = <<>> /\ ends' = <<"crash">>
      BY <1>11, <2>2 DEF SutExits, Verdict
    <3> QED BY <2>1, <3>1 DEF Contract!GiveUp, runner
  <2>3. CASE how # "code"
    BY <1>1, <1>11, <2>1, <2>3 DEF SutExits, runner
  <2> QED BY <2>2, <2>3
<1>12. CASE Blocked \/ TurnEnds \/ RunAsync \/ (\E p \in pending : RequestFailsSilently(p))
            \/ UNCHANGED vars
  BY <1>1, <1>12 DEF Blocked, TurnEnds, RunAsync, RequestFailsSilently, vars, runner, log, outer
<1>13. ~RunMulti
  BY CallingCursor DEF NoMulti, RunMulti, Calling
<1>14. ~MultiYields /\ ~MultiReturns
  BY TheFrame DEF MultiYields, MultiReturns, Top
<1> QED BY <1>2, <1>3, <1>4, <1>5, <1>6, <1>7, <1>8, <1>9, <1>10, <1>11, <1>12, <1>13, <1>14
        DEF Next, Turn, Environment

(* validate() keeps the promise of its comment: one function after the     *)
(* other, each going on with a part of what it was given, and success only *)
(* when all have run.                                                      *)
THEOREM RunnerImplementsContract ==
    ASSUME NoMulti
    PROVE  Spec => ImplementsContract
<1>1. NoMulti /\ Order /\ [Next]_vars => [Contract!ContractNext]_(Contract!contractVars)
  BY ContractStep
<1> QED BY <1>1, ContractInitially, OrderInvariant, PTL
        DEF Spec, ImplementsContract, Contract!ContractSpec
=============================================================================
