-------------------------- MODULE TickClusterProofs --------------------------
(***************************************************************************)
(* Theorems about the process control of tick-cluster, for a table of any  *)
(* size and any number of processes.                                       *)
(***************************************************************************)
EXTENDS TickCluster, FiniteSetTheorems, SequenceTheorems, TLAPS

States == Active \cup Stopped \cup {"exiting", "reaped"}
Alive  == Active \cup Stopped
Signals == {"KILL", "TERM", "STOP", "CONT"}

(* What the signals do to a process.                                       *)
LEMMA AfterFacts ==
    ASSUME NEW s \in States
    PROVE  /\ After(s, "KILL") \in {"exiting", "reaped"}
           /\ After(s, "TERM") \in States /\ (After(s, "TERM") \in Alive <=> s \in Alive)
           /\ After(s, "TERM") \in Stopped <=> s \in Stopped
           /\ After(s, "STOP") \in States /\ (After(s, "STOP") \in Alive <=> s \in Alive)
           /\ s \in Alive => After(s, "STOP") \in Stopped
           /\ After(s, "CONT") \in States /\ (After(s, "CONT") \in Alive <=> s \in Alive)
           /\ After(s, "CONT") \notin Stopped
BY DEF States, Alive, Active, Stopped, After

LEMMA AfterType ==
    ASSUME NEW s \in States, NEW sig \in Signals
    PROVE  After(s, sig) \in States /\ (After(s, sig) \in Alive => s \in Alive)
BY DEF States, Alive, Active, Stopped, After, Signals

LEMMA Types ==
    ASSUME TypeOK
    PROVE  /\ os \in [Pids -> States] /\ Pids = 1..Len(os) /\ Len(os) \in Nat
           /\ \A i, j \in Slots : procs[i].pid = procs[j].pid => i = j
           /\ \A i \in Slots : procs[i].pid \in Pids
BY DEF TypeOK, States, Pids

(* The processes of an entry that is signalled, and the others.            *)
LEMMA SignalledFacts ==
    ASSUME TypeOK, NEW slots \in SUBSET Slots, NEW sig \in Signals
    PROVE  /\ Signalled(slots, sig) \in [Pids -> States]
           /\ \A i \in Slots : Signalled(slots, sig)[procs[i].pid] =
                IF i \in slots THEN After(os[procs[i].pid], sig) ELSE os[procs[i].pid]
           /\ \A p \in Pids : Signalled(slots, sig)[p] \in Alive => os[p] \in Alive
<1> USE Types
<1>1. \A p \in Pids : os[p] \in States
  OBVIOUS
<1>2. \A i \in Slots : procs[i].pid \in PidsOf(slots) <=> i \in slots
  BY DEF PidsOf
<1>3. Signalled(slots, sig) \in [Pids -> States]
  BY <1>1, AfterType DEF Signalled
<1>4. \A p \in Pids : Signalled(slots, sig)[p] \in Alive => os[p] \in Alive
  BY <1>1, AfterType DEF Signalled
<1>5. \A i \in Slots : Signalled(slots, sig)[procs[i].pid] =
        IF i \in slots THEN After(os[procs[i].pid], sig) ELSE os[procs[i].pid]
  BY <1>2 DEF Signalled
<1> QED BY <1>3, <1>4, <1>5

(* SIGKILL: what is signalled is no longer alive.                          *)
LEMMA KillSignal ==
    ASSUME TypeOK, NEW slots \in SUBSET Slots
    PROVE  /\ \A i \in slots : Signalled(slots, "KILL")[procs[i].pid] \notin Alive
           /\ \A i \in Slots \ slots : Signalled(slots, "KILL")[procs[i].pid] = os[procs[i].pid]
           /\ Signalled(slots, "KILL") \in [Pids -> States]
           /\ \A p \in Pids : Signalled(slots, "KILL")[p] \in Alive => os[p] \in Alive
<1>1. "KILL" \in Signals
  BY DEF Signals
<1>2. \A s \in States : After(s, "KILL") \notin Alive
  BY AfterFacts DEF Alive, Active, Stopped
<1>3. \A i \in Slots : os[procs[i].pid] \in States
  BY Types
<1>4. \A i \in Slots : Signalled(slots, "KILL")[procs[i].pid] =
        IF i \in slots THEN After(os[procs[i].pid], "KILL") ELSE os[procs[i].pid]
  BY <1>1, SignalledFacts
<1>5. \A i \in slots : Signalled(slots, "KILL")[procs[i].pid] \notin Alive
  BY <1>2, <1>3, <1>4
<1>6. \A i \in Slots \ slots : Signalled(slots, "KILL")[procs[i].pid] = os[procs[i].pid]
  BY <1>4
<1> QED BY <1>1, <1>5, <1>6, SignalledFacts

(* SIGSTOP: what is signalled and alive is stopped.                        *)
LEMMA StopSignal ==
    ASSUME TypeOK, NEW slots \in SUBSET Slots
    PROVE  /\ \A i \in slots : LET new == Signalled(slots, "STOP")[procs[i].pid]
                               IN new \in Alive => new \in Stopped
           /\ \A i \in Slots \ slots : Signalled(slots, "STOP")[procs[i].pid] = os[procs[i].pid]
           /\ Signalled(slots, "STOP") \in [Pids -> States]
           /\ \A p \in Pids : Signalled(slots, "STOP")[p] \in Alive => os[p] \in Alive
<1>1. "STOP" \in Signals
  BY DEF Signals
<1>2. \A s \in States : After(s, "STOP") \in Alive => After(s, "STOP") \in Stopped
  BY AfterFacts
<1>3. \A i \in Slots : os[procs[i].pid] \in States
  BY Types
<1>4. \A i \in Slots : Signalled(slots, "STOP")[procs[i].pid] =
        IF i \in slots THEN After(os[procs[i].pid], "STOP") ELSE os[procs[i].pid]
  BY <1>1, SignalledFacts
<1>5. \A i \in slots : LET new == Signalled(slots, "STOP")[procs[i].pid]
                       IN new \in Alive => new \in Stopped
  BY <1>2, <1>3, <1>4
<1>6. \A i \in Slots \ slots : Signalled(slots, "STOP")[procs[i].pid] = os[procs[i].pid]
  BY <1>4
<1> QED BY <1>1, <1>5, <1>6, SignalledFacts

(* SIGTERM: whether a process lives or is stopped does not change yet.     *)
LEMMA TermSignal ==
    ASSUME TypeOK, NEW slots \in SUBSET Slots
    PROVE  /\ \A i \in Slots : LET new == Signalled(slots, "TERM")[procs[i].pid]
                                   old == os[procs[i].pid]
                               IN (new \in Alive <=> old \in Alive)
                                  /\ (new \in Stopped <=> old \in Stopped)
           /\ Signalled(slots, "TERM") \in [Pids -> States]
           /\ \A p \in Pids : Signalled(slots, "TERM")[p] \in Alive => os[p] \in Alive
<1>1. "TERM" \in Signals
  BY DEF Signals
<1>2. \A s \in States : /\ After(s, "TERM") \in Alive <=> s \in Alive
                        /\ After(s, "TERM") \in Stopped <=> s \in Stopped
  BY AfterFacts
<1>3. \A i \in Slots : os[procs[i].pid] \in States
  BY Types
<1>4. \A i \in Slots : Signalled(slots, "TERM")[procs[i].pid] =
        IF i \in slots THEN After(os[procs[i].pid], "TERM") ELSE os[procs[i].pid]
  BY <1>1, SignalledFacts
<1>5. \A i \in Slots : LET new == Signalled(slots, "TERM")[procs[i].pid]
                           old == os[procs[i].pid]
                       IN (new \in Alive <=> old \in Alive)
                          /\ (new \in Stopped <=> old \in Stopped)
  BY <1>2, <1>3, <1>4
<1> QED BY <1>1, <1>5, SignalledFacts

(* Marking entries changes nothing else of them.                           *)
LEMMA KilledFlag ==
    ASSUME TypeOK, NEW slots
    PROVE  /\ SetFlag(slots, "killed", TRUE) \in [Slots -> Entry]
           /\ \A i \in Slots :
                LET new == SetFlag(slots, "killed", TRUE)[i]
                IN /\ new.pid = procs[i].pid /\ new.suspended = procs[i].suspended
                   /\ new.killed => procs[i].killed \/ i \in slots
<1>1. \A i \in Slots : procs[i] \in Entry
  BY DEF TypeOK
<1> QED BY <1>1 DEF SetFlag, Entry

LEMMA SuspendedFlag ==
    ASSUME TypeOK, NEW slots
    PROVE  /\ SetFlag(slots, "suspended", TRUE) \in [Slots -> Entry]
           /\ \A i \in Slots :
                LET new == SetFlag(slots, "suspended", TRUE)[i]
                IN /\ new.pid = procs[i].pid /\ new.killed = procs[i].killed
                   /\ i \in slots => new.suspended
                   /\ i \notin slots => new.suspended = procs[i].suspended
<1>1. \A i \in Slots : procs[i] \in Entry
  BY DEF TypeOK
<1> QED BY <1>1 DEF SetFlag, Entry

(* Functions on 1..n are sequences.                                        *)
LEMMA FunctionIsSeq ==
    ASSUME NEW S, NEW n \in Nat, NEW f \in [1..n -> S]
    PROVE  f \in Seq(S) /\ Len(f) = n
OBVIOUS

LEMMA SeqIsFunction ==
    ASSUME NEW S, NEW h \in Seq(S)
    PROVE  h \in [1..Len(h) -> S]
OBVIOUS

LEMMA ConcatType ==
    ASSUME NEW S, NEW f \in Seq(S), NEW g \in Seq(S), NEW h, h = f \o g
    PROVE  h \in Seq(S) /\ h \in [1..(Len(f) + Len(g)) -> S]
<1>1. h \in Seq(S) /\ Len(h) = Len(f) + Len(g)
  BY ConcatProperties
<1>2. h \in [1..Len(h) -> S]
  BY <1>1, SeqIsFunction, Zenon
<1> QED BY <1>1, <1>2

LEMMA ConcatValues ==
    ASSUME NEW S, NEW f \in Seq(S), NEW g \in Seq(S), NEW h, h = f \o g
    PROVE  /\ \A p \in 1..Len(f) : h[p] = f[p]
           /\ \A k \in 1..Len(g) : h[Len(f) + k] = g[k]
OBVIOUS

(* A set in an order.                                                      *)
LEMMA Order ==
    ASSUME NEW S, IsFiniteSet(S)
    PROVE  /\ SetToSeq(S) \in [1..Cardinality(S) -> S] /\ Cardinality(S) \in Nat
           /\ \A x \in S : \E k \in 1..Cardinality(S) : SetToSeq(S)[k] = x
           /\ \A k, l \in 1..Cardinality(S) : SetToSeq(S)[k] = SetToSeq(S)[l] => k = l
<1> DEFINE n == Cardinality(S)
           f == SetToSeq(S)
<1>1. n \in Nat /\ ExistsBijection(1..n, S)
  BY FS_CardinalityType
<1>2. \E g \in [1..n -> S] : IsInjective(g)
  BY <1>1 DEF ExistsBijection, Bijection, Injection
<1>3. f \in [1..n -> S] /\ IsInjective(f)
  BY <1>2 DEF SetToSeq
<1> DEFINE T == {f[k] : k \in 1..n}
<1>4. f \in Bijection(1..n, T)
  <2>1. f \in [1..n -> T]
    BY <1>3
  <2> QED BY <1>3, <2>1 DEF Bijection, Injection, Surjection
<1>5. Cardinality(T) = n
  BY <1>1, <1>4, FS_CountingElements DEF ExistsBijection
<1>6. T \in SUBSET S
  BY <1>3
<1>7. S = T
  BY <1>5, <1>6, FS_Subset
<1> QED BY <1>1, <1>3, <1>7 DEF IsInjective

----------------------------------------------------------------------------
(* Type correctness, and: a live process is the one its entry is about,    *)
(* and an entry is marked as killed only when its process is gone.         *)
LiveIsCurrent ==
    /\ \A pid \in Pids : Lives(pid) => procs[slot[pid]].pid = pid
    /\ \A i \in Slots : procs[i].killed => ~Lives(procs[i].pid)

IInv == TypeOK /\ LiveIsCurrent /\ SuspendedIsStopped /\ ExitLeavesNone

(* What any step but reviveProcs has to keep: no process comes to life, no *)
(* entry changes its process.                                              *)
LEMMA Kept ==
    ASSUME IInv, slot' = slot, os' \in [Pids -> States], procs' \in [Slots -> Entry],
           \A i \in Slots : procs'[i].pid = procs[i].pid,
           \A p \in Pids : os'[p] \in Alive => os[p] \in Alive,
           \A i \in Slots : procs'[i].killed /\ ~procs[i].killed => os'[procs[i].pid] \notin Alive,
           \A i \in Slots : os'[procs[i].pid] \in Alive =>
                              (procs'[i].suspended <=> os'[procs[i].pid] \in Stopped),
           hardKill' \in SUBSET Pids, onExit' \in SUBSET Pids, quitting' \in BOOLEAN,
           tool' \in {"up", "exited", "crashed"}, exits' \in Nat,
           tool' = "exited" => tool = "exited" \/ \A p \in Pids : os'[p] \notin Alive
    PROVE  IInv'
<1> USE Types DEF IInv
<1>1. Pids' = Pids
  BY DEF Pids
<1>2. os' \in Seq(States)
  OBVIOUS
<1>3. TypeOK'
  BY <1>1, <1>2 DEF TypeOK, States
<1>4. LiveIsCurrent'
  <2>1. \A p \in Pids : procs[slot[p]].pid = p \/ os'[p] \notin Alive
    BY DEF LiveIsCurrent, Lives, Alive
  <2>2. ASSUME NEW i \in Slots, procs'[i].killed PROVE os'[procs'[i].pid] \notin Alive
    BY <2>2 DEF LiveIsCurrent, Lives, Alive
  <2>3. \A p \in Pids : slot[p] \in Slots
    BY DEF TypeOK
  <2>4. \A p \in Pids : os'[p] \in Alive => procs'[slot'[p]].pid = p
    BY <2>1, <2>3
  <2> QED BY <1>1, <2>2, <2>4 DEF LiveIsCurrent, Lives, Alive
<1>5. SuspendedIsStopped'
  BY DEF SuspendedIsStopped, Lives, Alive
<1>6. ExitLeavesNone'
  BY <1>1 DEF ExitLeavesNone, Lives, Alive
<1> QED BY <1>3, <1>4, <1>5, <1>6

(* The marks of the entries agree with the processes, as far as alive.     *)
MarksAgree ==
    \A i \in Slots : os[procs[i].pid] \in Alive =>
                        (procs[i].suspended <=> os[procs[i].pid] \in Stopped)

LEMMA Marks == IInv => MarksAgree
BY DEF IInv, MarksAgree, SuspendedIsStopped, Lives, Alive

(* The keys k, l and m.                                                    *)
LEMMA KillKeeps ==
    ASSUME IInv, NEW slots \in SUBSET HostsUp, KillProc(slots)
    PROVE  IInv'
<1>1. PICK done \in SUBSET slots : /\ os' = Signalled(done, "KILL")
                                   /\ procs' = SetFlag(done, "killed", TRUE)
  BY DEF KillProc
<1>2. done \in SUBSET Slots /\ TypeOK
  BY DEF HostsUp, IInv
<1>3. /\ \A i \in done : os'[procs[i].pid] \notin Alive
      /\ \A i \in Slots \ done : os'[procs[i].pid] = os[procs[i].pid]
      /\ os' \in [Pids -> States] /\ \A p \in Pids : os'[p] \in Alive => os[p] \in Alive
  BY <1>1, <1>2, KillSignal
<1>4. /\ procs' \in [Slots -> Entry]
      /\ \A i \in Slots : /\ procs'[i].pid = procs[i].pid
                          /\ procs'[i].killed => procs[i].killed \/ i \in done
                          /\ procs'[i].suspended = procs[i].suspended
  BY <1>1, <1>2, KilledFlag
<1>5. /\ UNCHANGED <<slot, hardKill, onExit, quitting, exits>> /\ tool' \in {"up", "crashed"}
  BY DEF KillProc, ToolAfter
<1>6. \A i \in Slots : os'[procs[i].pid] \in Alive =>
                          (procs'[i].suspended <=> os'[procs[i].pid] \in Stopped)
  BY <1>3, <1>4, Marks DEF MarksAgree
<1> QED BY <1>2, <1>3, <1>4, <1>5, <1>6, Kept DEF TypeOK

LEMMA SuspendKeeps ==
    ASSUME IInv, NEW slots \in SUBSET HostsUp, SuspendProc(slots)
    PROVE  IInv'
<1>1. PICK done \in SUBSET slots : /\ os' = Signalled(done, "STOP")
                                   /\ procs' = SetFlag(done, "suspended", TRUE)
  BY DEF SuspendProc
<1>2. done \in SUBSET Slots /\ TypeOK
  BY DEF HostsUp, IInv
<1>3. /\ \A i \in done : os'[procs[i].pid] \in Alive => os'[procs[i].pid] \in Stopped
      /\ \A i \in Slots \ done : os'[procs[i].pid] = os[procs[i].pid]
      /\ os' \in [Pids -> States] /\ \A p \in Pids : os'[p] \in Alive => os[p] \in Alive
  BY <1>1, <1>2, StopSignal
<1>4. /\ procs' \in [Slots -> Entry]
      /\ \A i \in Slots : /\ procs'[i].pid = procs[i].pid /\ procs'[i].killed = procs[i].killed
                          /\ i \in done => procs'[i].suspended
                          /\ i \notin done => procs'[i].suspended = procs[i].suspended
  BY <1>1, <1>2, SuspendedFlag
<1>5. /\ UNCHANGED <<slot, hardKill, onExit, quitting, exits>> /\ tool' \in {"up", "crashed"}
  BY DEF SuspendProc, ToolAfter
<1>6. \A i \in Slots : os'[procs[i].pid] \in Alive =>
                          (procs'[i].suspended <=> os'[procs[i].pid] \in Stopped)
  BY <1>3, <1>4, Marks DEF MarksAgree
<1> QED BY <1>2, <1>3, <1>4, <1>5, <1>6, Kept DEF TypeOK

LEMMA TerminateKeeps ==
    ASSUME IInv, NEW slots \in SUBSET HostsUp, TerminateProc(slots)
    PROVE  IInv'
<1>1. os' = Signalled(slots, "TERM") /\ UNCHANGED <<procs, slot, quitting, tool, exits>>
  BY DEF TerminateProc
<1>2. slots \in SUBSET Slots /\ TypeOK
  BY DEF HostsUp, IInv
<1>3. /\ \A i \in Slots : /\ os'[procs[i].pid] \in Alive <=> os[procs[i].pid] \in Alive
                          /\ os'[procs[i].pid] \in Stopped <=> os[procs[i].pid] \in Stopped
      /\ os' \in [Pids -> States] /\ \A p \in Pids : os'[p] \in Alive => os[p] \in Alive
  BY <1>1, <1>2, TermSignal
<1>4. PidsOf(slots) \in SUBSET Pids
  BY <1>2, Types DEF PidsOf
<1>5. hardKill' \in SUBSET Pids /\ onExit' \in SUBSET Pids
  BY <1>2, <1>4 DEF TerminateProc, TypeOK
<1>6. \A i \in Slots : os'[procs[i].pid] \in Alive =>
                          (procs'[i].suspended <=> os'[procs[i].pid] \in Stopped)
  BY <1>1, <1>3, Marks DEF MarksAgree
<1> QED BY <1>1, <1>2, <1>3, <1>5, <1>6, Kept DEF TypeOK

(* q: what is not marked as killed gets SIGKILL, and if nothing threw,     *)
(* nothing is left.                                                        *)
LEMMA ShutdownKeeps ==
    ASSUME IInv, Shutdown
    PROVE  IInv'
<1> DEFINE unmarked == {i \in Slots : ~procs[i].killed}
           done     == Before(unmarked)
<1>1. /\ os' = Signalled(done, "KILL") /\ UNCHANGED <<procs, slot, hardKill, onExit, exits>>
      /\ quitting' = TRUE /\ tool' \in {"exited", "crashed"}
      /\ tool' = "exited" => Throwing(unmarked) = {}
  BY DEF Shutdown
<1>2. done \in SUBSET Slots /\ TypeOK
  BY DEF Before, IInv
<1>3. tool' = "exited" => done = unmarked
  BY <1>1 DEF Before
<1>4. \A i \in Slots \ unmarked : procs[i].killed
  OBVIOUS
<1> HIDE DEF unmarked, done
<1>5. /\ \A i \in done : os'[procs[i].pid] \notin Alive
      /\ \A i \in Slots \ done : os'[procs[i].pid] = os[procs[i].pid]
      /\ os' \in [Pids -> States] /\ \A p \in Pids : os'[p] \in Alive => os[p] \in Alive
  BY <1>1, <1>2, KillSignal
<1>6. \A i \in Slots : os'[procs[i].pid] \in Alive =>
                          (procs'[i].suspended <=> os'[procs[i].pid] \in Stopped)
  BY <1>1, <1>5, Marks DEF MarksAgree
<1>7. ASSUME tool' = "exited", NEW p \in Pids PROVE os'[p] \notin Alive
  <2>1. \A i \in Slots : os'[procs[i].pid] \notin Alive
    BY <1>3, <1>4, <1>5, <1>7 DEF IInv, LiveIsCurrent, Lives, Alive
  <2>2. slot[p] \in Slots /\ (os'[p] \in Alive => procs[slot[p]].pid = p)
    BY <1>5 DEF IInv, LiveIsCurrent, Lives, Alive, TypeOK
  <2> QED BY <2>1, <2>2
<1> QED BY <1>1, <1>2, <1>5, <1>6, <1>7, Kept DEF TypeOK

(* A process that gets on its way out.                                     *)
LEMMA ProcessKeeps ==
    ASSUME IInv, NEW pid \in Pids,
           HardKill(pid) \/ ExitByItself(pid) \/ ExitOnTerm(pid)
    PROVE  IInv'
<1>0. TypeOK /\ os \in [Pids -> States]
  BY Types DEF IInv
<1>1. /\ UNCHANGED <<procs, slot, onExit, quitting, tool>> /\ hardKill' \in SUBSET Pids
      /\ exits' \in Nat
  BY <1>0 DEF HardKill, ExitByItself, ExitOnTerm, TypeOK
<1>2. PICK s \in {"exiting", "reaped"} : os' = [os EXCEPT ![pid] = s]
  <2>1. os[pid] \in States
    BY <1>0
  <2> QED BY <2>1, AfterFacts DEF HardKill, ExitByItself, ExitOnTerm
<1>3. s \in States /\ s \notin Alive
  BY DEF States, Alive, Active, Stopped
<1>4. os' \in [Pids -> States] /\ \A p \in Pids : os'[p] = os[p] \/ os'[p] \notin Alive
  BY <1>0, <1>2, <1>3
<1>5. \A i \in Slots : os'[procs[i].pid] \in Alive =>
                          (procs'[i].suspended <=> os'[procs[i].pid] \in Stopped)
  BY <1>0, <1>1, <1>4, Types, Marks DEF MarksAgree
<1> QED BY <1>0, <1>1, <1>4, <1>5, Kept DEF TypeOK

(* The exit listener marks the entry of a process that is gone.            *)
LEMMA ReapKeeps ==
    ASSUME IInv, NEW pid \in Pids, Reap(pid)
    PROVE  IInv'
<1>0. TypeOK /\ os \in [Pids -> States]
  BY Types DEF IInv
<1>1. /\ UNCHANGED <<slot, quitting, tool, exits>> /\ os' = [os EXCEPT ![pid] = "reaped"]
      /\ onExit' \in SUBSET Pids /\ hardKill' \in SUBSET Pids
  BY <1>0 DEF Reap, TypeOK
<1>2. "reaped" \in States \ Alive
  BY DEF States, Alive, Active, Stopped
<1>3. /\ os' \in [Pids -> States] /\ os'[pid] \notin Alive
      /\ \A p \in Pids : os'[p] = os[p] \/ os'[p] \notin Alive
  BY <1>0, <1>1, <1>2
<1> DEFINE done == {i \in Slots : procs[i].pid = pid}
<1>4. procs' = procs \/ procs' = SetFlag(done, "killed", TRUE)
  BY DEF Reap
<1>5. /\ procs' \in [Slots -> Entry]
      /\ \A i \in Slots : /\ procs'[i].pid = procs[i].pid
                          /\ procs'[i].killed => procs[i].killed \/ i \in done
                          /\ procs'[i].suspended = procs[i].suspended
  <2>1. CASE procs' = procs
    BY <1>0, <2>1 DEF TypeOK
  <2>2. CASE procs' = SetFlag(done, "killed", TRUE)
    <3> HIDE DEF done
    <3> QED BY <1>0, <2>2, KilledFlag
  <2> QED BY <1>4, <2>1, <2>2
<1>6. \A i \in Slots : os'[procs[i].pid] \in Alive =>
                          (procs'[i].suspended <=> os'[procs[i].pid] \in Stopped)
  BY <1>0, <1>3, <1>5, Types, Marks DEF MarksAgree
<1> QED BY <1>0, <1>1, <1>3, <1>5, <1>6, Kept DEF TypeOK

(* SIGCONT: what is signalled runs.                                        *)
LEMMA ContSignal ==
    ASSUME TypeOK, NEW slots \in SUBSET Slots
    PROVE  /\ \A i \in slots : Signalled(slots, "CONT")[procs[i].pid] \notin Stopped
           /\ \A i \in Slots \ slots : Signalled(slots, "CONT")[procs[i].pid] = os[procs[i].pid]
           /\ Signalled(slots, "CONT") \in [Pids -> States]
           /\ \A p \in Pids : Signalled(slots, "CONT")[p] \in Alive => os[p] \in Alive
<1>1. "CONT" \in Signals
  BY DEF Signals
<1>2. \A s \in States : After(s, "CONT") \notin Stopped
  BY AfterFacts
<1>3. \A i \in Slots : os[procs[i].pid] \in States
  BY Types
<1>4. \A i \in Slots : Signalled(slots, "CONT")[procs[i].pid] =
        IF i \in slots THEN After(os[procs[i].pid], "CONT") ELSE os[procs[i].pid]
  BY <1>1, SignalledFacts
<1>5. \A i \in slots : Signalled(slots, "CONT")[procs[i].pid] \notin Stopped
  BY <1>2, <1>3, <1>4
<1>6. \A i \in Slots \ slots : Signalled(slots, "CONT")[procs[i].pid] = os[procs[i].pid]
  BY <1>4
<1> QED BY <1>1, <1>5, <1>6, SignalledFacts

(* K: the processes that are added get entries of their own.               *)
LEMMA ReviveKeeps ==
    ASSUME IInv, ReviveProcs
    PROVE  IInv'
<1> DEFINE killed    == {i \in Slots : procs[i].killed}
           suspended == {i \in Slots : ~procs[i].killed /\ procs[i].suspended}
           fresh     == {i \in killed : \A j \in Throwing(suspended) : i < j}
           woken     == Before(suspended)
           order     == SetToSeq(fresh)
           pos(i)    == CHOOSE k \in DOMAIN order : order[k] = i
           n         == Cardinality(fresh)
           old       == Signalled(woken, "CONT")
<1>1. /\ procs' = [i \in Slots |-> IF i \in fresh THEN NewProc(Len(os) + pos(i))
                                  ELSE IF i \in woken THEN Resumed(procs[i])
                                  ELSE procs[i]]
      /\ os' = old \o [k \in DOMAIN order |-> "running"]
      /\ slot' = slot \o order
      /\ UNCHANGED <<hardKill, onExit, quitting, exits>> /\ tool' \in {"up", "crashed"}
  BY DEF ReviveProcs, ToolAfter
<1>2. /\ fresh \in SUBSET Slots /\ woken \in SUBSET Slots /\ TypeOK
      /\ \A i \in fresh : procs[i].killed
  BY DEF Before, IInv
<1>3. IsFiniteSet(Slots)
  BY TickAssumption, FS_Interval DEF Slots
<1>4. IsFiniteSet(fresh)
  BY <1>2, <1>3, FS_Subset
<1> HIDE DEF killed, suspended, fresh, woken
<1>5. /\ order \in [1..n -> fresh] /\ n \in Nat
      /\ \A x \in fresh : \E k \in 1..n : order[k] = x
      /\ \A k, l \in 1..n : order[k] = order[l] => k = l
  BY <1>4, Order
<1> HIDE DEF order, n
<1>6. /\ \A i \in fresh : pos(i) \in 1..n /\ order[pos(i)] = i
      /\ \A k \in 1..n : order[k] \in fresh /\ pos(order[k]) = k
  BY <1>5
<1> HIDE DEF pos
<1>7. /\ \A i \in woken : old[procs[i].pid] \notin Stopped
      /\ \A i \in Slots \ woken : old[procs[i].pid] = os[procs[i].pid]
      /\ old \in [Pids -> States] /\ \A p \in Pids : old[p] \in Alive => os[p] \in Alive
  BY <1>2, ContSignal
<1> HIDE DEF old
<1>8. /\ Pids = 1..Len(os) /\ Len(os) \in Nat /\ \A i \in Slots : procs[i].pid \in Pids
      /\ slot \in [Pids -> Slots]
  BY <1>2, Types DEF TypeOK
<1>9. DOMAIN order = 1..n /\ order \in [1..n -> Slots]
  BY <1>2, <1>5
<1>10. /\ os' \in Seq(States) /\ os' \in [1..(Len(os) + n) -> States]
       /\ \A p \in 1..Len(os) : os'[p] = old[p]
       /\ \A k \in 1..n : os'[Len(os) + k] = "running"
  <2>1. [k \in 1..n |-> "running"] \in [1..n -> States]
    BY DEF States, Active
  <2>2. os' = old \o [k \in 1..n |-> "running"] /\ old \in [1..Len(os) -> States]
    BY <1>1, <1>7, <1>8, <1>9
  <2> DEFINE g == [k \in 1..n |-> "running"]
  <2>3. \A k \in 1..n : g[k] = "running"
    OBVIOUS
  <2> HIDE DEF g
  <2>4. /\ old \o g \in [1..(Len(os) + n) -> States] /\ old \o g \in Seq(States)
        /\ \A p \in 1..Len(os) : (old \o g)[p] = old[p]
        /\ \A k \in 1..n : (old \o g)[Len(os) + k] = g[k]
    <3>1. g \in [1..n -> States] /\ old \in [1..Len(os) -> States]
      BY <2>1, <2>2 DEF g
    <3>2. n \in Nat /\ Len(os) \in Nat
      BY <1>5, <1>8
    <3>3. g \in Seq(States) /\ Len(g) = n /\ old \in Seq(States) /\ Len(old) = Len(os)
      BY <3>1, <3>2, FunctionIsSeq
    <3> DEFINE h == old \o g
    <3>4. h \in Seq(States) /\ h \in [1..(Len(old) + Len(g)) -> States]
      BY <3>3, ConcatType
    <3>5. /\ \A p \in 1..Len(old) : h[p] = old[p]
          /\ \A k \in 1..Len(g) : h[Len(old) + k] = g[k]
      BY <3>3
    <3> QED BY <3>3, <3>4, <3>5
  <2>5. os' = old \o g
    BY <2>2 DEF g
  <2> QED BY <2>3, <2>4, <2>5
<1>11. /\ slot' \in [1..(Len(os) + n) -> Slots] /\ Pids' = 1..(Len(os) + n)
       /\ \A p \in 1..Len(os) : slot'[p] = slot[p]
       /\ \A k \in 1..n : slot'[Len(os) + k] = order[k]
  <2>1. slot' = slot \o order /\ slot \in [1..Len(os) -> Slots]
    BY <1>1, <1>8
  <2>2. Pids' = 1..(Len(os) + n)
    BY <1>10 DEF Pids
  <2>3. /\ slot \o order \in [1..(Len(os) + n) -> Slots]
        /\ \A p \in 1..Len(os) : (slot \o order)[p] = slot[p]
        /\ \A k \in 1..n : (slot \o order)[Len(os) + k] = order[k]
    <3>1. n \in Nat /\ Len(os) \in Nat /\ order \in [1..n -> Slots]
      BY <1>5, <1>8, <1>9
    <3>2. slot \in [1..Len(os) -> Slots]
      BY <2>1
    <3>3. order \in Seq(Slots) /\ Len(order) = n /\ slot \in Seq(Slots) /\ Len(slot) = Len(os)
      BY <3>1, <3>2, FunctionIsSeq
    <3> DEFINE h == slot \o order
    <3>4. h \in [1..(Len(slot) + Len(order)) -> Slots]
      BY <3>3, ConcatType
    <3>5. /\ \A p \in 1..Len(slot) : h[p] = slot[p]
          /\ \A k \in 1..Len(order) : h[Len(slot) + k] = order[k]
      BY <3>3, ConcatValues
    <3> QED BY <3>3, <3>4, <3>5
  <2> QED BY <2>1, <2>2, <2>3
<1>12. Pids \subseteq Pids'
  BY <1>5, <1>8, <1>11
<1>13. ASSUME NEW i \in fresh
       PROVE  /\ procs'[i] \in Entry /\ procs'[i].pid = Len(os) + pos(i)
              /\ procs'[i].killed = FALSE /\ procs'[i].suspended = FALSE
  <2>1. procs'[i] = NewProc(Len(os) + pos(i))
    BY <1>1, <1>2
  <2>2. Len(os) + pos(i) \in Nat \ {0}
    BY <1>5, <1>6, <1>8
  <2> QED BY <2>1, <2>2 DEF NewProc, Entry
<1>19. ASSUME NEW i \in Slots \ fresh
       PROVE  /\ procs'[i] \in Entry /\ procs'[i].pid = procs[i].pid
              /\ procs'[i].killed = procs[i].killed
              /\ i \in woken => procs'[i].suspended = FALSE
              /\ i \notin woken => procs'[i].suspended = procs[i].suspended
  <2>1. procs'[i] = IF i \in woken THEN Resumed(procs[i]) ELSE procs[i]
    BY <1>1
  <2>2. procs[i] \in Entry
    BY <1>2 DEF TypeOK
  <2> QED BY <2>1, <2>2 DEF Resumed, Entry
<1>14. TypeOK'
  <2>1. procs' \in [Slots -> Entry]
    <3>1. \A i \in Slots : procs'[i] \in Entry
      BY <1>13, <1>19
    <3>2. DOMAIN procs' = Slots /\ procs' = [i \in Slots |-> procs'[i]]
      BY <1>1
    <3> QED BY <3>1, <3>2
  <2>2. ASSUME NEW i \in Slots PROVE procs'[i].pid \in Pids' /\ slot'[procs'[i].pid] = i
    <3>1. CASE i \in fresh
      <4>1. Len(os) + pos(i) \in 1..(Len(os) + n)
        BY <1>5, <1>6, <1>8, <3>1
      <4>2. procs'[i].pid = Len(os) + pos(i)
        BY <1>13, <3>1
      <4>3. slot'[Len(os) + pos(i)] = i
        BY <1>6, <1>11, <3>1
      <4> QED BY <1>11, <4>1, <4>2, <4>3
    <3>2. CASE i \notin fresh
      <4>1. procs'[i].pid = procs[i].pid
        BY <1>19, <3>2
      <4>2. procs[i].pid \in 1..Len(os) /\ slot[procs[i].pid] = i
        BY <1>2, <1>8 DEF TypeOK
      <4> QED BY <1>8, <1>11, <1>12, <4>1, <4>2
    <3> QED BY <3>1, <3>2
  <2>3. hardKill' \in SUBSET Pids' /\ onExit' \in SUBSET Pids'
    BY <1>1, <1>2, <1>12 DEF TypeOK
  <2> QED BY <1>1, <1>2, <1>10, <1>11, <2>1, <2>2, <2>3 DEF TypeOK, States
<1>15. \A i \in fresh : os[procs[i].pid] \notin Alive
  BY <1>2 DEF IInv, LiveIsCurrent, Lives, Alive
<1>16. LiveIsCurrent'
  <2>1. ASSUME NEW p \in Pids', os'[p] \in Alive PROVE procs'[slot'[p]].pid = p
    <3>1. CASE p \in Pids
      <4>1. os[p] \in Alive /\ slot'[p] = slot[p] /\ slot[p] \in Slots
        BY <1>7, <1>8, <1>10, <1>11, <2>1, <3>1
      <4>2. procs[slot[p]].pid = p
        BY <3>1, <4>1 DEF IInv, LiveIsCurrent, Lives, Alive
      <4>3. slot[p] \notin fresh
        BY <1>15, <4>1, <4>2
      <4>4. procs'[slot[p]].pid = procs[slot[p]].pid
        BY <1>19, <4>1, <4>3
      <4> QED BY <4>1, <4>2, <4>4
    <3>2. CASE p \notin Pids
      <4>1. p - Len(os) \in 1..n /\ p = Len(os) + (p - Len(os))
        BY <1>5, <1>8, <1>11, <3>2
      <4>2. PICK k \in 1..n : p = Len(os) + k
        BY <4>1
      <4>3. order[k] \in fresh /\ pos(order[k]) = k /\ slot'[p] = order[k]
        BY <1>6, <1>11, <4>2
      <4>4. procs'[order[k]].pid = Len(os) + pos(order[k])
        BY <1>13, <4>3
      <4> QED BY <4>2, <4>3, <4>4
    <3> QED BY <3>1, <3>2
  <2>2. ASSUME NEW i \in Slots, procs'[i].killed PROVE os'[procs'[i].pid] \notin Alive
    <3>1. i \notin fresh
      BY <1>13, <2>2
    <3>2. procs'[i].pid = procs[i].pid /\ procs[i].killed
      BY <1>19, <2>2, <3>1
    <3>3. os[procs[i].pid] \notin Alive
      BY <3>2 DEF IInv, LiveIsCurrent, Lives, Alive
    <3> QED BY <1>7, <1>8, <1>10, <3>2, <3>3
  <2> QED BY <2>1, <2>2 DEF LiveIsCurrent, Lives, Alive
<1>17. SuspendedIsStopped'
  <2>1. SUFFICES ASSUME NEW i \in Slots, os'[procs'[i].pid] \in Alive
                 PROVE  procs'[i].suspended <=> os'[procs'[i].pid] \in Stopped
    BY DEF SuspendedIsStopped, Lives, Alive
  <2>2. CASE i \in fresh
    <3>1. procs'[i].suspended = FALSE /\ procs'[i].pid = Len(os) + pos(i)
      BY <1>13, <2>2
    <3>2. os'[Len(os) + pos(i)] = "running"
      BY <1>6, <1>10, <2>2
    <3> QED BY <3>1, <3>2 DEF Stopped
  <2>3. CASE i \notin fresh
    <3>1. /\ procs'[i].pid = procs[i].pid /\ os'[procs[i].pid] = old[procs[i].pid]
          /\ i \in woken => procs'[i].suspended = FALSE
          /\ i \notin woken => procs'[i].suspended = procs[i].suspended
      BY <1>8, <1>10, <1>19, <2>3
    <3>2. CASE i \in woken
      BY <1>7, <3>1, <3>2
    <3>3. CASE i \notin woken
      BY <1>7, <2>1, <3>1, <3>3, Marks DEF MarksAgree
    <3> QED BY <3>2, <3>3
  <2> QED BY <2>2, <2>3
<1>18. ExitLeavesNone'
  BY <1>1 DEF ExitLeavesNone
<1> QED BY <1>14, <1>16, <1>17, <1>18 DEF IInv

LEMMA InitInv == Init => IInv
<1> SUFFICES ASSUME Init PROVE IInv
  OBVIOUS
<1>1. N \in Nat /\ os \in Seq(States) /\ Pids = Slots
  BY TickAssumption DEF Init, Slots, States, Active, Pids
<1>2. TypeOK
  <2>1. procs \in [Slots -> Entry] /\ slot \in [Slots -> Slots]
        /\ \A i \in Slots : procs[i].pid = i /\ slot[i] = i
    BY <1>1 DEF Init, NewProc, Entry, Slots
  <2>2. /\ hardKill \in SUBSET Pids /\ onExit \in SUBSET Pids /\ quitting \in BOOLEAN
        /\ tool \in {"up", "exited", "crashed"} /\ exits \in Nat
    BY DEF Init
  <2> QED BY <1>1, <2>1, <2>2 DEF TypeOK, States
<1>3. \A i \in Slots : procs[i].pid = i /\ ~procs[i].killed /\ ~procs[i].suspended
                      /\ slot[i] = i /\ os[i] = "running"
  BY DEF Init, NewProc
<1> QED BY <1>1, <1>2, <1>3 DEF IInv, Init, LiveIsCurrent, SuspendedIsStopped, ExitLeavesNone, Stopped

LEMMA NextInv == IInv /\ [Next]_vars => IInv'
<1> SUFFICES ASSUME IInv, [Next]_vars PROVE IInv'
  OBVIOUS
<1>1. CASE UNCHANGED vars
  BY <1>1 DEF vars, IInv, TypeOK, LiveIsCurrent, SuspendedIsStopped, ExitLeavesNone, Lives, Pids
<1>2. CASE CallbackThrows
  BY <1>2 DEF CallbackThrows, IInv, TypeOK, LiveIsCurrent, SuspendedIsStopped, ExitLeavesNone,
     Lives, Pids
<1>3. CASE Keys
  BY <1>3, KillKeeps, SuspendKeeps, TerminateKeeps, ReviveKeeps, ShutdownKeeps DEF Keys
<1>4. ASSUME NEW pid \in Pids, HardKill(pid) \/ ExitByItself(pid) \/ ExitOnTerm(pid) \/ Reap(pid)
      PROVE  IInv'
  BY <1>4, ProcessKeeps, ReapKeeps
<1> QED BY <1>1, <1>2, <1>3, <1>4 DEF Next

(* The state is well typed, and each entry of the table is about a process *)
(* that was started for its port.                                          *)
THEOREM TypeCorrect == Spec => []TypeOK
<1>1. IInv => TypeOK
  BY DEF IInv
<1> QED BY <1>1, InitInv, NextInv, PTL DEF Spec

(* No port ever has two live processes.                                    *)
THEOREM OneProcessPerPort == Spec => []NoTwins
<1>1. IInv => NoTwins
  BY DEF IInv, LiveIsCurrent, NoTwins
<1> QED BY <1>1, InitInv, NextInv, PTL DEF Spec

(* An entry is marked as suspended just when its live process is stopped.  *)
THEOREM MarkedIsStopped == Spec => []SuspendedIsStopped
<1>1. IInv => SuspendedIsStopped
  BY DEF IInv
<1> QED BY <1>1, InitInv, NextInv, PTL DEF Spec

(* An exit that throws nothing on its way leaves no process.               *)
THEOREM CleanExit == Spec => []ExitLeavesNone
<1>1. IInv => ExitLeavesNone
  BY DEF IInv
<1> QED BY <1>1, InitInv, NextInv, PTL DEF Spec
=============================================================================
