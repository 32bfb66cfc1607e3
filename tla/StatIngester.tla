---------------------------- MODULE StatIngester ----------------------------
(***************************************************************************)
(* The stat ingester of the cluster test orchestrator (stat_ingester.go):  *)
(* one goroutine reads the stats that the cluster sends over UDP, updates  *)
(* the stability estimate and appends them to a file; the goroutine of the *)
(* scenario's script labels the file and runs one command after the other, *)
(* on the cluster or to wait for it to be stable.  handleStat and          *)
(* IsClusterStable hold the mutex and are one step each; WaitForStable     *)
(* reads and writes wasUnstable without it, between steps of the other     *)
(* goroutine.                                                              *)
(*                                                                         *)
(* Faults: reading the socket fails and IngestStats returns; a stat has no *)
(* host, or cannot be written, and the process exits; a label is not       *)
(* written and nobody looks.                                               *)
(*                                                                         *)
(* External: the script's loop (command.go documents the commands), the    *)
(* hosts, which have changes to disseminate in waves after a command       *)
(* (suspect, then faulty, ...), and the network.  The file is kept as what *)
(* is last in it of every host.                                            *)
(***************************************************************************)
EXTENDS Naturals, Sequences, SequencesExt

CONSTANTS
    Hosts,       \* the hosts of the cluster
    Commands,    \* the script
    Waves,       \* bound: how often the effect of one command makes hosts busy
    NetCap,      \* bound: stats of one host in flight
    MaxLosses    \* bound: stats lost in the network

(* A command changes which hosts are up, or waits.                         *)
Command == [cmd: {"cluster"}, up: SUBSET Hosts] \cup [cmd: {"wait-for-stable"}]

ASSUME IngesterAssumption ==
    /\ Commands \in Seq(Command)
    /\ Waves \in Nat \ {0} /\ NetCap \in Nat \ {0} /\ MaxLosses \in Nat

VARIABLES
    wasUnstable, emptyNodes,   \* the fields of StatIngester
    stat,                      \* the stat IngestStats has in hand, handled but not written
    fileLast,                  \* the file: the last stat of each host
    scriptPc, cmd,             \* the goroutine of the script
    alive, busy, told, waves,  \* the cluster: hosts up, hosts with changes, stats sent
                               \* about them, waves each command still has
    net, losses,               \* stats in flight
    proc,                      \* the process: up, its ingestion ended, or dead
    unstableSeen,              \* history: hosts whose instability was handled since the reset
    blind                      \* history: waits that returned after the ingestion ended

ingester == <<emptyNodes, stat, fileLast>>
script   == <<scriptPc, cmd>>
cluster  == <<alive, busy, told, waves>>
network  == <<net, losses>>
process  == <<proc, blind>>
vars     == <<wasUnstable, ingester, script, cluster, network, process, unstableSeen>>

(* A stat: of changes.disseminate, zero or not, or of something else.      *)
Stats == [host: Hosts, changes: {"zero", "some", "other"}]
NoStat == [host |-> "none", changes |-> "other"]

Init ==
    /\ wasUnstable = FALSE
    /\ emptyNodes = [h \in Hosts |-> "absent"]
    /\ stat = NoStat
    /\ fileLast = [h \in Hosts |-> "absent"]
    /\ scriptPc = "label" /\ cmd = 1
    /\ alive = Hosts /\ busy = {} /\ told = [h \in Hosts |-> 0]
    /\ waves = [c \in DOMAIN Commands |-> 0]
    /\ net = [h \in Hosts |-> <<>>] /\ losses = 0
    /\ proc = "up"
    /\ unstableSeen = {} /\ blind = 0

----------------------------------------------------------------------------
(* IngestStats: scan, handle under the lock, write.                        *)

(* Mutant: hosts that become empty are not recorded.                       *)
RecordBusyOnly(h, changes) ==
    emptyNodes' = IF changes = "some" THEN [emptyNodes EXCEPT ![h] = "busy"]
                                      ELSE emptyNodes

(* Mutant: the count is stored instead of the verdict.                     *)
RecordRaw(h, changes) == emptyNodes' = [emptyNodes EXCEPT ![h] = changes]

(* The map is written with the host as key, the verdict as value.          *)
Record(h, changes) ==
    emptyNodes' = [emptyNodes EXCEPT ![h] = IF changes = "zero" THEN "empty" ELSE "busy"]

HandleStat(s) ==
    IF s.changes = "other"
      THEN UNCHANGED <<wasUnstable, emptyNodes, unstableSeen>>
      ELSE /\ Record(s.host, s.changes)
           /\ wasUnstable' = (wasUnstable \/ s.changes = "some")
           /\ unstableSeen' = IF s.changes = "some" THEN unstableSeen \cup {s.host}
                                                    ELSE unstableSeen

(* UDP may reorder: any stat in flight may be the next one scanned.        *)
ScanAndHandle ==
    /\ proc = "up" /\ stat = NoStat
    /\ \E h \in Hosts : \E i \in DOMAIN net[h] :
         /\ stat' = [host |-> h, changes |-> net[h][i]]
         /\ net' = [net EXCEPT ![h] = RemoveAt(@, i)]
         /\ HandleStat([host |-> h, changes |-> net[h][i]])
    /\ UNCHANGED <<fileLast, script, cluster, losses, process>>

(* Mutant: only the stats that report changes are written.                 *)
WriteStatBusyOnly ==
    /\ proc = "up" /\ stat # NoStat
    /\ fileLast' = IF stat.changes # "some" THEN fileLast
                   ELSE [fileLast EXCEPT ![stat.host] = "busy"]
    /\ stat' = NoStat
    /\ UNCHANGED <<wasUnstable, emptyNodes, script, cluster, network, process, unstableSeen>>

WriteStat ==
    /\ proc = "up" /\ stat # NoStat
    /\ fileLast' = IF stat.changes = "other" THEN fileLast
                   ELSE [fileLast EXCEPT ![stat.host] =
                           IF stat.changes = "zero" THEN "empty" ELSE "busy"]
    /\ stat' = NoStat
    /\ UNCHANGED <<wasUnstable, emptyNodes, script, cluster, network, process, unstableSeen>>

(* What is in flight when the process stops reading is gone.               *)
Unread == net' = [h \in Hosts |-> <<>>] /\ losses' = losses

(* A Read of the socket fails: Scan() = false, nobody looks at Err(), and  *)
(* IngestStats returns nil; the goroutine of the script goes on.           *)
ReadFails ==
    /\ proc = "up" /\ stat = NoStat
    /\ proc' = "ended"
    /\ UNCHANGED <<wasUnstable, ingester, script, cluster, unstableSeen, blind>>
    /\ Unread

(* log.Fatal: a stat of changes.disseminate that names no host, before     *)
(* anything is noted of it, or a stat that cannot be written.              *)
StatIsFatal ==
    /\ proc = "up"
    /\ proc' = "dead"
    /\ UNCHANGED <<wasUnstable, ingester, script, cluster, unstableSeen, blind>>
    /\ Unread

----------------------------------------------------------------------------
(* The script: InsertLabel, and the command or WaitForStable.              *)

AfterLabel == IF Commands[cmd].cmd = "wait-for-stable" THEN "unstable" ELSE "run"

(* The label is written, or not: the error of the write is dropped.  (That *)
(* the file may lack any label is in Measurement.)                         *)
InsertLabel ==
    /\ proc # "dead" /\ scriptPc = "label" /\ cmd <= Len(Commands)
    /\ scriptPc' = AfterLabel
    /\ UNCHANGED <<wasUnstable, ingester, cmd, cluster, network, process, unstableSeen>>

(* The hosts that are not to be up are killed, the others are (re)started; *)
(* from here on the waves of its effect may come.                          *)
RunCommand ==
    /\ proc # "dead" /\ scriptPc = "run"
    /\ alive' = Commands[cmd].up
    /\ busy' = busy \cap alive'
    /\ waves' = [waves EXCEPT ![cmd] = Waves]
    /\ cmd' = cmd + 1
    /\ scriptPc' = "label"
    /\ UNCHANGED <<wasUnstable, ingester, told, network, process, unstableSeen>>

(* Mutant: the first loop is left out.                                     *)
SeeUnstableAlways ==
    /\ proc # "dead" /\ scriptPc = "unstable"
    /\ scriptPc' = "stable"
    /\ UNCHANGED <<wasUnstable, ingester, cmd, cluster, network, process, unstableSeen>>

(* The first loop, without the mutex.                                      *)
SeeUnstable ==
    /\ proc # "dead" /\ scriptPc = "unstable" /\ wasUnstable
    /\ scriptPc' = "stable"
    /\ UNCHANGED <<wasUnstable, ingester, cmd, cluster, network, process, unstableSeen>>

IsClusterStable(hosts) == \A h \in hosts : emptyNodes[h] = "empty"

(* The second loop.                                                        *)
SeeStable ==
    /\ proc # "dead" /\ scriptPc = "stable" /\ IsClusterStable(alive)
    /\ scriptPc' = "reset"
    /\ UNCHANGED <<wasUnstable, ingester, cmd, cluster, network, process, unstableSeen>>

(* Mutant: wasUnstable is not reset.                                       *)
ResetNothing ==
    /\ proc # "dead" /\ scriptPc = "reset"
    /\ unstableSeen' = {}
    /\ blind' = IF proc = "ended" THEN blind + 1 ELSE blind
    /\ cmd' = cmd + 1
    /\ scriptPc' = "label"
    /\ UNCHANGED <<wasUnstable, ingester, cluster, network, proc>>

(* wasUnstable = false, without the mutex, and on to the next command.     *)
ResetAndReturn ==
    /\ proc # "dead" /\ scriptPc = "reset"
    /\ wasUnstable' = FALSE
    /\ unstableSeen' = {}
    /\ blind' = IF proc = "ended" THEN blind + 1 ELSE blind
    /\ cmd' = cmd + 1
    /\ scriptPc' = "label"
    /\ UNCHANGED <<ingester, cluster, network, proc>>

----------------------------------------------------------------------------
(* The cluster and the network, as long as anybody listens.                *)

(* The effect of an issued command reaches some hosts; every one of them   *)
(* has something new to tell.                                              *)
TakeEffect(c) ==
    /\ proc = "up" /\ waves[c] > 0
    /\ \E some \in (SUBSET alive) \ {{}} :
         /\ busy' = busy \cup some
         /\ told' = [h \in Hosts |-> IF h \in some THEN 0 ELSE told[h]]
    /\ waves' = [waves EXCEPT ![c] = @ - 1]
    /\ UNCHANGED <<wasUnstable, ingester, script, alive, network, process, unstableSeen>>

(* Every protocol period a host reports what it has to disseminate.        *)
Emit(h) ==
    /\ proc = "up" /\ h \in alive /\ Len(net[h]) < NetCap
    /\ \/ /\ net' = [net EXCEPT ![h] = Append(@, IF h \in busy THEN "some" ELSE "zero")]
          /\ told' = IF h \in busy /\ told[h] <= MaxLosses
                       THEN [told EXCEPT ![h] = @ + 1] ELSE told
       \/ /\ net' = [net EXCEPT ![h] = Append(@, "other")]
          /\ told' = told
    /\ UNCHANGED <<wasUnstable, ingester, script, alive, busy, waves, losses, process,
                   unstableSeen>>

(* Changes are disseminated over many periods: more than stats are lost.   *)
Settle(h) ==
    /\ proc = "up" /\ h \in busy /\ told[h] > MaxLosses
    /\ busy' = busy \ {h}
    /\ UNCHANGED <<wasUnstable, ingester, script, alive, told, waves, network, process, unstableSeen>>

Lose(h) ==
    /\ proc = "up" /\ losses < MaxLosses
    /\ \E i \in DOMAIN net[h] : net' = [net EXCEPT ![h] = RemoveAt(@, i)]
    /\ losses' = losses + 1
    /\ UNCHANGED <<wasUnstable, ingester, script, cluster, process, unstableSeen>>

Script == InsertLabel \/ RunCommand \/ SeeUnstable \/ SeeStable \/ ResetAndReturn
Ingest == ScanAndHandle \/ WriteStat
Fails  == ReadFails \/ StatIsFatal
Effect == \E c \in DOMAIN Commands : TakeEffect(c)

Next ==
    \/ Script \/ Ingest \/ Fails \/ Effect
    \/ \E h \in Hosts : Emit(h) \/ Settle(h) \/ Lose(h)

(* Goroutines are scheduled; every message that is not lost arrives, and a *)
(* host goes on reporting, what it has in its map and not only other       *)
(* stats; every command has an effect and every change is disseminated to  *)
(* the end.  The polls of WaitForStable come every 200 ms and see a        *)
(* condition that stays true.                                              *)
Arrives(h, changes) == ScanAndHandle /\ stat' = [host |-> h, changes |-> changes]
Reports(h) == Emit(h) /\ net'[h] # Append(net[h], "other")

Fairness ==
    /\ WF_vars(Script) /\ WF_vars(WriteStat) /\ WF_vars(Effect)
    /\ \A h \in Hosts :
         /\ SF_vars(Reports(h)) /\ WF_vars(Settle(h))
         /\ \A changes \in {"zero", "some", "other"} : SF_vars(Arrives(h, changes))

Spec == Init /\ [][Next]_vars

FairSpec == Spec /\ Fairness

----------------------------------------------------------------------------
(* Type invariant.                                                         *)
TypeOK ==
    /\ wasUnstable \in BOOLEAN
    /\ emptyNodes \in [Hosts -> {"absent", "empty", "busy"}]
    /\ fileLast \in [Hosts -> {"absent", "empty", "busy"}]
    /\ stat \in Stats \cup {NoStat}
    /\ cmd \in 1..(Len(Commands) + 1)
    /\ scriptPc \in {"label", "run", "unstable", "stable", "reset"}
    /\ alive \in SUBSET Hosts /\ busy \in SUBSET alive
    /\ told \in [Hosts -> 0..(MaxLosses + 1)]
    /\ waves \in [DOMAIN Commands -> 0..Waves]
    /\ net \in [Hosts -> Seq({"zero", "some", "other"})] /\ losses \in 0..MaxLosses
    /\ proc \in {"up", "ended", "dead"}
    /\ unstableSeen \in SUBSET Hosts /\ blind \in Nat

(* The file explains the estimate: what IsClusterStable judges from is, up *)
(* to the one stat in hand, the last of every host in the file, so that    *)
(* the later analysis of the file sees what the script's decisions were    *)
(* based on.                                                               *)
FileExplainsEstimate ==
    \A h \in Hosts : emptyNodes[h] # fileLast[h] => stat.host = h

(* No instability is used twice: a call of WaitForStable gets past its     *)
(* first loop only on an instability handled since the last call reset it. *)
EachReturnEarned == scriptPc \in {"stable", "reset"} => unstableSeen # {}

(* When the ingestion has ended, the script cannot mistake its last        *)
(* estimate for news more than once: the next WaitForStable may return on  *)
(* it, every later one does not.                                           *)
BlindAtMostOnce == blind <= 1

(* "any failure condition we throw at the cluster has taken effect before  *)
(* we move onto the next failure condition" (stat_ingester.go, 57-61).     *)
EffectBeforeNext ==
    \A c, w \in DOMAIN Commands :
        c < w /\ w < cmd /\ Commands[w].cmd = "wait-for-stable" => waves[c] < Waves

(* The mutex "protects emptyNodes and wasUnstable" (stat_ingester.go, 47): *)
(* an instability is forgotten only while the cluster is seen stable.      *)
ForgetsOnlyWhenStable ==
    [][wasUnstable /\ ~wasUnstable' => IsClusterStable(alive)]_vars

(* WaitForStable returns, and every script runs to its end, unless the     *)
(* process does not ingest any more.                                       *)
ScriptEnds == <>(cmd > Len(Commands) \/ proc # "up")
=============================================================================
