---------------------------- MODULE TickCluster -----------------------------
(***************************************************************************)
(* The process control of tools/tick-cluster.js: a table with one entry    *)
(* (ClusterProc) per port, the keys k, m, l, K and q that kill, terminate, *)
(* suspend, revive and shut down the processes of the entries, the timers  *)
(* and exit listeners these leave behind, and the processes themselves.    *)
(* The tool learns of an exit when it reaps the process; until then a      *)
(* signal to the process succeeds, afterwards process.kill throws, nothing *)
(* catches it, and the tool dies in the middle of what it was doing.       *)
(***************************************************************************)
EXTENDS Naturals, Sequences, FiniteSets, SequencesExt

CONSTANTS
    N,           \* the size of the table
    MaxPids,     \* bound: processes started in all
    MaxExits     \* bound: processes that exit without being told to

ASSUME TickAssumption == N \in Nat \ {0} /\ MaxPids \in Nat /\ MaxExits \in Nat

VARIABLES
    procs,       \* the table: the fields of the ClusterProc at each index
    os,          \* the processes started so far; a pid is an index of it
    slot,        \* pid -> the index of the table it was started for
    hardKill,    \* pids whose 5 second timer (terminateProc) is set
    onExit,      \* pids with terminateProc's exit listener
    quitting,    \* q, control-c or a signal has asked for the shutdown
    tool,        \* tick-cluster itself
    exits        \* how many processes have exited without being told to

vars == <<procs, os, slot, hardKill, onExit, quitting, tool, exits>>

Slots == 1..N
Pids  == DOMAIN os

(* SIGTERM is pending in a stopped process until it continues.  An exiting *)
(* process is dead or has SIGKILL pending, and is not reaped yet.          *)
Active  == {"running", "terminating"}
Stopped == {"stopped", "terminating, stopped"}
Lives(pid)  == os[pid] \in Active \cup Stopped
Reaped(pid) == os[pid] = "reaped"

(* What a signal does to a process in a state.                             *)
After(state, sig) ==
    CASE sig = "KILL" /\ state \in Active \cup Stopped   -> "exiting"
      [] sig = "TERM" /\ state = "running"               -> "terminating"
      [] sig = "TERM" /\ state = "stopped"               -> "terminating, stopped"
      [] sig = "STOP" /\ state = "running"               -> "stopped"
      [] sig = "STOP" /\ state = "terminating"           -> "terminating, stopped"
      [] sig = "CONT" /\ state = "stopped"               -> "running"
      [] sig = "CONT" /\ state = "terminating, stopped"  -> "terminating"
      [] OTHER                                           -> state

PidsOf(slots) == {procs[i].pid : i \in slots}

Signalled(slots, sig) ==
    [pid \in Pids |-> IF pid \in PidsOf(slots) THEN After(os[pid], sig) ELSE os[pid]]

SetFlag(slots, flag, value) ==
    [i \in Slots |-> IF i \in slots THEN [procs[i] EXCEPT ![flag] = value] ELSE procs[i]]

(* process.kill throws on a reaped process.  Of the slots that are gone    *)
(* through, those before the first throw are done: in a sample any, in a   *)
(* loop over the table the smaller ones.                                   *)
Throwing(slots) == {i \in slots : Reaped(procs[i].pid)}

Sampled(slots, done) ==
    IF Throwing(slots) = {} THEN done = slots
    ELSE done \subseteq slots \ Throwing(slots)

Before(slots) == {i \in slots : \A j \in Throwing(slots) : i < j}

ToolAfter(slots) == tool' = IF Throwing(slots) = {} THEN tool ELSE "crashed"

(* Mutant: the entry keeps the pid of the process that was started before. *)
NewProcStale(pid) == [pid |-> IF pid > N THEN pid - 1 ELSE pid,
                      killed |-> FALSE, suspended |-> FALSE]

NewProc(pid) == [pid |-> pid, killed |-> FALSE, suspended |-> FALSE]

Init ==
    /\ os = [pid \in Slots |-> "running"]
    /\ slot = [pid \in Slots |-> pid]
    /\ procs = [i \in Slots |-> NewProc(i)]
    /\ hardKill = {} /\ onExit = {} /\ quitting = FALSE /\ tool = "up" /\ exits = 0

----------------------------------------------------------------------------
(* The keys.  _.sampleSize(count) may take any subset of the hosts up.     *)

HostsUp == {i \in Slots : ~procs[i].killed /\ ~procs[i].suspended}

(* k: SIGKILL, and the entry is marked at once.                            *)
KillProc(slots) ==
    /\ tool = "up"
    /\ \E done \in SUBSET slots :
         /\ Sampled(slots, done)
         /\ os' = Signalled(done, "KILL")
         /\ procs' = SetFlag(done, "killed", TRUE)
    /\ ToolAfter(slots)
    /\ UNCHANGED <<slot, hardKill, onExit, quitting, exits>>

(* l: SIGSTOP.                                                             *)
SuspendProc(slots) ==
    /\ tool = "up"
    /\ \E done \in SUBSET slots :
         /\ Sampled(slots, done)
         /\ os' = Signalled(done, "STOP")
         /\ procs' = SetFlag(done, "suspended", TRUE)
    /\ ToolAfter(slots)
    /\ UNCHANGED <<slot, hardKill, onExit, quitting, exits>>

(* Mutant: the entry is marked when SIGTERM is sent, as killProc does.     *)
TerminateProcMarks(slots) ==
    /\ tool = "up"
    /\ os' = Signalled(slots, "TERM")
    /\ procs' = SetFlag(slots, "killed", TRUE)
    /\ hardKill' = hardKill \cup PidsOf(slots)
    /\ onExit' = onExit \cup PidsOf(slots)
    /\ UNCHANGED <<slot, quitting, tool, exits>>

(* m: SIGTERM by the child's own kill(), which does not throw; the timer   *)
(* and the exit listener are set, and the exit marks the entry.            *)
TerminateProc(slots) ==
    /\ tool = "up"
    /\ os' = Signalled(slots, "TERM")
    /\ hardKill' = hardKill \cup PidsOf(slots)
    /\ onExit' = onExit \cup PidsOf(slots)
    /\ UNCHANGED <<procs, slot, quitting, tool, exits>>

(* Mutant: kill() without an argument, which is SIGTERM.                   *)
HardKillTerm(pid) ==
    /\ tool = "up" /\ pid \in hardKill
    /\ hardKill' = hardKill \ {pid}
    /\ os' = [os EXCEPT ![pid] = After(@, "TERM")]
    /\ UNCHANGED <<procs, slot, onExit, quitting, tool, exits>>

(* The 5 seconds are over; kill() of a child that has exited does nothing. *)
HardKill(pid) ==
    /\ tool = "up" /\ pid \in hardKill
    /\ hardKill' = hardKill \ {pid}
    /\ os' = [os EXCEPT ![pid] = After(@, "KILL")]
    /\ UNCHANGED <<procs, slot, onExit, quitting, tool, exits>>

(* Mutant: a resumed entry stays marked as suspended.                      *)
ResumedStaysMarked(entry) == entry

Resumed(entry) == [entry EXCEPT !.suspended = FALSE]

(* K: a new ClusterProc for every killed entry, SIGCONT for every other    *)
(* suspended one.  The pids are new, and else nothing is known of them.    *)
ReviveProcs ==
    LET killed    == {i \in Slots : procs[i].killed}
        suspended == {i \in Slots : ~procs[i].killed /\ procs[i].suspended}
        fresh     == {i \in killed : \A j \in Throwing(suspended) : i < j}
        woken     == Before(suspended)
        order     == SetToSeq(fresh)
        newPid(i) == Len(os) + CHOOSE k \in DOMAIN order : order[k] = i
    IN /\ tool = "up" /\ Len(os) + Cardinality(killed) <= MaxPids
       /\ procs' = [i \in Slots |-> IF i \in fresh THEN NewProc(newPid(i))
                                    ELSE IF i \in woken THEN Resumed(procs[i])
                                    ELSE procs[i]]
       /\ os' = Signalled(woken, "CONT") \o [k \in DOMAIN order |-> "running"]
       /\ slot' = slot \o order
       /\ ToolAfter(suspended)
       /\ UNCHANGED <<hardKill, onExit, quitting, exits>>

(* q, control-c, SIGINT, SIGTERM: killAllProcs and, unless it throws,      *)
(* process.exit.                                                           *)
Shutdown ==
    LET unmarked == {i \in Slots : ~procs[i].killed}
    IN /\ tool = "up"
       /\ quitting' = TRUE
       /\ os' = Signalled(Before(unmarked), "KILL")
       /\ tool' = IF Throwing(unmarked) = {} THEN "exited" ELSE "crashed"
       /\ UNCHANGED <<procs, slot, hardKill, onExit, exits>>

(* A callback throws that has nothing to do with the table (TickPrompt).   *)
CallbackThrows ==
    /\ tool = "up"
    /\ tool' = "crashed"
    /\ UNCHANGED <<procs, os, slot, hardKill, onExit, quitting, exits>>

----------------------------------------------------------------------------
(* The processes.                                                          *)

ExitByItself(pid) ==
    /\ os[pid] = "running" /\ exits < MaxExits
    /\ os' = [os EXCEPT ![pid] = "exiting"]
    /\ exits' = exits + 1
    /\ UNCHANGED <<procs, slot, hardKill, onExit, quitting, tool>>

(* The process obeys SIGTERM.  It may also never do so.                    *)
ExitOnTerm(pid) ==
    /\ os[pid] = "terminating"
    /\ os' = [os EXCEPT ![pid] = "exiting"]
    /\ UNCHANGED <<procs, slot, hardKill, onExit, quitting, tool, exits>>

(* The 'exit' event: terminateProc's listener clears its timer and marks   *)
(* its own ClusterProc, which need not be the table's any more.            *)
Reap(pid) ==
    /\ tool = "up" /\ os[pid] = "exiting"
    /\ os' = [os EXCEPT ![pid] = "reaped"]
    /\ onExit' = onExit \ {pid}
    /\ IF pid \in onExit
         THEN /\ hardKill' = hardKill \ {pid}
              /\ procs' = SetFlag({i \in Slots : procs[i].pid = pid}, "killed", TRUE)
         ELSE UNCHANGED <<hardKill, procs>>
    /\ UNCHANGED <<slot, quitting, tool, exits>>

Keys ==
    \/ \E slots \in SUBSET HostsUp : KillProc(slots) \/ SuspendProc(slots)
                                                     \/ TerminateProc(slots)
    \/ ReviveProcs \/ Shutdown

Next ==
    \/ Keys \/ CallbackThrows
    \/ \E pid \in Pids : HardKill(pid) \/ ExitByItself(pid) \/ ExitOnTerm(pid) \/ Reap(pid)

(* Timers fire and exits are reaped.  Nothing is assumed of the user, nor  *)
(* of a process that is told to terminate.                                 *)
Fairness == \A pid \in 1..MaxPids :
              WF_vars(pid \in Pids /\ HardKill(pid)) /\ WF_vars(pid \in Pids /\ Reap(pid))

Spec == Init /\ [][Next]_vars

FairSpec == Spec /\ Fairness

----------------------------------------------------------------------------
(* Type invariant.                                                         *)
Entry == [pid: Nat \ {0}, killed: BOOLEAN, suspended: BOOLEAN]

TypeOK ==
    /\ os \in Seq(Active \cup Stopped \cup {"exiting", "reaped"})
    /\ slot \in [Pids -> Slots]
    /\ procs \in [Slots -> Entry]
    /\ \A i \in Slots : procs[i].pid \in Pids /\ slot[procs[i].pid] = i
    /\ hardKill \in SUBSET Pids /\ onExit \in SUBSET Pids
    /\ quitting \in BOOLEAN /\ tool \in {"up", "exited", "crashed"} /\ exits \in Nat

(* Two processes never live for the same port: reviveProcs starts a new    *)
(* one only where the old one is on its way out, whatever kills,           *)
(* terminations and suspensions came before it.                            *)
NoTwins ==
    \A p, q \in Pids : p # q /\ Lives(p) /\ Lives(q) => slot[p] # slot[q]

(* The flag the commands choose by tells the truth: a live process of the  *)
(* table is marked suspended just when it is stopped.                      *)
SuspendedIsStopped ==
    \A i \in Slots : LET pid == procs[i].pid
                     IN Lives(pid) => (procs[i].suspended <=> os[pid] \in Stopped)

(* When tick-cluster exits, no process of the cluster is left, the ones    *)
(* that were asked to terminate and the replaced ones included.            *)
ExitLeavesNone == tool = "exited" => \A pid \in Pids : ~Lives(pid)

(* "Killing all N procs to exit..." (tick-cluster.js, 493): when the user  *)
(* has quit, no process of the cluster is left.                            *)
QuitLeavesNone == quitting => \A pid \in Pids : ~Lives(pid)

(* A process that is terminated dies, although it ignores SIGTERM or is    *)
(* stopped, unless tick-cluster itself dies first.                         *)
TerminatedDies ==
    \A pid \in 1..MaxPids :
      (pid \in Pids /\ os[pid] \in {"terminating", "terminating, stopped"})
        ~> ((pid \in Pids /\ ~Lives(pid)) \/ tool = "crashed")
=============================================================================
