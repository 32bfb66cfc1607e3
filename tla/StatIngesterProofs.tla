------------------------- MODULE StatIngesterProofs -------------------------
(***************************************************************************)
(* Theorems about the stat ingester, for every set of hosts, every script  *)
(* of commands and every bound on the environment.                         *)
(***************************************************************************)
EXTENDS StatIngester, TLAPS

Changes == {"zero", "some", "other"}

LEMMA Constants ==
    /\ Len(Commands) \in Nat /\ DOMAIN Commands = 1..Len(Commands)
    /\ \A c \in DOMAIN Commands : Commands[c].cmd = "cluster" => Commands[c].up \in SUBSET Hosts
    /\ Waves \in Nat /\ MaxLosses \in Nat
<1>1. \A c \in DOMAIN Commands : Commands[c] \in Command
  BY IngesterAssumption
<1>2. \A r \in Command : r.cmd = "cluster" => r.up \in SUBSET Hosts
  BY DEF Command
<1> QED BY <1>1, <1>2, IngesterAssumption

(* A stat leaves a sequence of stats in flight, or joins it.               *)
LEMMA RemoveAtType ==
    ASSUME NEW s \in Seq(Changes), NEW i \in DOMAIN s
    PROVE  RemoveAt(s, i) \in Seq(Changes) /\ s[i] \in Changes
<1>1. SubSeq(s, 1, i - 1) \in Seq(Changes) /\ SubSeq(s, i + 1, Len(s)) \in Seq(Changes)
  OBVIOUS
<1> QED BY <1>1 DEF RemoveAt

(* The script is at one of its commands, and runs what is no wait.         *)
InScript ==
    /\ scriptPc # "label" => cmd <= Len(Commands)
    /\ scriptPc = "run" => Commands[cmd].cmd = "cluster"

LEMMA InitTypes == Init => TypeOK
<1> SUFFICES ASSUME Init PROVE TypeOK
  OBVIOUS
<1>1. net \in [Hosts -> Seq(Changes)] /\ waves \in [DOMAIN Commands -> 0..Waves]
      /\ told \in [Hosts -> 0..(MaxLosses + 1)]
  BY Constants DEF Init
<1>2. cmd \in 1..(Len(Commands) + 1) /\ losses \in 0..MaxLosses
  BY Constants DEF Init
<1>3. /\ emptyNodes \in [Hosts -> {"absent", "empty", "busy"}]
      /\ fileLast \in [Hosts -> {"absent", "empty", "busy"}]
      /\ stat \in Stats \cup {NoStat} /\ scriptPc \in {"label", "run", "unstable", "stable", "reset"}
      /\ alive \in SUBSET Hosts /\ busy \in SUBSET alive /\ unstableSeen \in SUBSET Hosts
  BY DEF Init
<1>4. wasUnstable \in BOOLEAN /\ proc \in {"up", "ended", "dead"} /\ blind \in Nat
  BY DEF Init
<1> QED BY <1>1, <1>2, <1>3, <1>4, Zenon DEF TypeOK, Changes

(* The goroutine of IngestStats.                                           *)
LEMMA IngestTypes ==
    ASSUME TypeOK, Ingest
    PROVE  TypeOK'
<1>1. CASE ScanAndHandle
  <2>0. PICK h \in Hosts : \E i \in DOMAIN net[h] :
           /\ stat' = [host |-> h, changes |-> net[h][i]]
           /\ net' = [net EXCEPT ![h] = RemoveAt(@, i)]
           /\ HandleStat([host |-> h, changes |-> net[h][i]])
    BY <1>1 DEF ScanAndHandle
  <2>1. PICK i \in DOMAIN net[h] :
           /\ stat' = [host |-> h, changes |-> net[h][i]]
           /\ net' = [net EXCEPT ![h] = RemoveAt(@, i)]
           /\ HandleStat([host |-> h, changes |-> net[h][i]])
    BY <2>0
  <2>2. net[h] \in Seq(Changes) /\ net \in [Hosts -> Seq(Changes)]
    BY DEF TypeOK, Changes
  <2>3. RemoveAt(net[h], i) \in Seq(Changes) /\ net[h][i] \in Changes
    BY <2>2, RemoveAtType
  <2>4. net' \in [Hosts -> Seq(Changes)] /\ stat' \in Stats
    BY <2>1, <2>2, <2>3 DEF Stats, Changes
  <2>5. UNCHANGED <<fileLast, script, cluster, losses, process>>
    BY <1>1 DEF ScanAndHandle
  <2>6. emptyNodes' \in [Hosts -> {"absent", "empty", "busy"}] /\ unstableSeen' \in SUBSET Hosts
    BY <2>1 DEF TypeOK, HandleStat, Record
  <2>7. wasUnstable' \in BOOLEAN
    BY <2>1, Zenon DEF TypeOK, HandleStat
  <2> QED BY <2>4, <2>5, <2>6, <2>7, Zenon DEF TypeOK, Changes, script, cluster, process
<1>2. CASE WriteStat
  <2>1. fileLast' \in [Hosts -> {"absent", "empty", "busy"}] /\ stat' = NoStat
    BY <1>2 DEF WriteStat, TypeOK
  <2>2. UNCHANGED <<wasUnstable, emptyNodes, script, cluster, network, process, unstableSeen>>
    BY <1>2 DEF WriteStat
  <2> QED BY <2>1, <2>2, Zenon DEF TypeOK, script, cluster, network, process
<1> QED BY <1>1, <1>2 DEF Ingest

(* The goroutine of the script.                                            *)
LEMMA ScriptTypes ==
    ASSUME TypeOK, InScript, Script
    PROVE  TypeOK'
<1> USE Constants
<1>1. CASE InsertLabel \/ SeeUnstable \/ SeeStable
  <2>1. /\ UNCHANGED <<wasUnstable, ingester, cmd, cluster, network, process, unstableSeen>>
        /\ scriptPc' \in {"run", "unstable", "stable", "reset"}
    BY <1>1 DEF InsertLabel, AfterLabel, SeeUnstable, SeeStable
  <2> QED BY <2>1, Zenon DEF TypeOK, ingester, cluster, network, process
<1>2. CASE RunCommand
  <2>1. cmd \in DOMAIN Commands /\ Commands[cmd].up \in SUBSET Hosts
    BY <1>2, Constants DEF RunCommand, InScript, TypeOK
  <2>2. /\ alive' \in SUBSET Hosts /\ busy' \in SUBSET alive'
        /\ waves' \in [DOMAIN Commands -> 0..Waves] /\ scriptPc' = "label"
    BY <1>2, <2>1 DEF RunCommand, TypeOK
  <2>3. UNCHANGED <<wasUnstable, ingester, told, network, process, unstableSeen>>
    BY <1>2 DEF RunCommand
  <2>4. cmd' \in 1..(Len(Commands) + 1)
    BY <1>2, <2>1 DEF RunCommand, TypeOK
  <2> QED BY <2>2, <2>3, <2>4, Zenon DEF TypeOK, ingester, network, process
<1>3. CASE ResetAndReturn
  <2>1. cmd' \in 1..(Len(Commands) + 1) /\ scriptPc' = "label" /\ unstableSeen' = {}
    BY <1>3 DEF ResetAndReturn, InScript, TypeOK
  <2>2. wasUnstable' = FALSE /\ UNCHANGED <<ingester, cluster, network, proc>>
    BY <1>3 DEF ResetAndReturn
  <2>3. unstableSeen' \in SUBSET Hosts /\ blind' \in Nat
    BY <1>3, <2>1 DEF ResetAndReturn, TypeOK
  <2> QED BY <2>1, <2>2, <2>3, Zenon DEF TypeOK, ingester, cluster, network
<1> QED BY <1>1, <1>2, <1>3 DEF Script

(* The ingestion ends, or the process.                                     *)
LEMMA FailTypes ==
    ASSUME TypeOK, Fails
    PROVE  TypeOK'
<1>1. /\ UNCHANGED <<wasUnstable, ingester, script, cluster, unstableSeen, blind, losses>>
      /\ net' = [h \in Hosts |-> <<>>] /\ proc' \in {"ended", "dead"}
  BY DEF Fails, ReadFails, StatIsFatal, Unread
<1>2. net' \in [Hosts -> Seq(Changes)]
  BY <1>1
<1> QED BY <1>1, <1>2, Zenon DEF TypeOK, Changes, ingester, script, cluster

(* The cluster and the network.                                            *)
LEMMA ClusterTypes ==
    ASSUME TypeOK, Effect \/ (\E h \in Hosts : Emit(h) \/ Settle(h) \/ Lose(h))
    PROVE  TypeOK'
<1> USE Constants
<1>1. CASE Effect
  <2>1. PICK c \in DOMAIN Commands : TakeEffect(c)
    BY <1>1 DEF Effect
  <2>2. /\ busy' \in SUBSET alive /\ told' \in [Hosts -> 0..(MaxLosses + 1)]
    BY <2>1 DEF TakeEffect, TypeOK
  <2>3. waves' \in [DOMAIN Commands -> 0..Waves]
    BY <2>1 DEF TakeEffect, TypeOK
  <2>4. UNCHANGED <<wasUnstable, ingester, script, alive, network, process, unstableSeen>>
    BY <2>1 DEF TakeEffect
  <2> QED BY <2>2, <2>3, <2>4, Zenon DEF TypeOK, ingester, script, network, process
<1>2. ASSUME NEW h \in Hosts, Emit(h) PROVE TypeOK'
  <2>1. \A c \in Changes : Append(net[h], c) \in Seq(Changes)
    BY DEF TypeOK, Changes
  <2>2. net' \in [Hosts -> Seq(Changes)]
    BY <1>2, <2>1 DEF Emit, TypeOK, Changes
  <2>3. told' \in [Hosts -> 0..(MaxLosses + 1)]
    <3>1. told' = told \/ (told[h] <= MaxLosses /\ told' = [told EXCEPT ![h] = @ + 1])
      BY <1>2 DEF Emit
    <3>2. told \in [Hosts -> 0..(MaxLosses + 1)] /\ told[h] \in Nat
      BY DEF TypeOK
    <3> QED BY <3>1, <3>2
  <2>4. UNCHANGED <<wasUnstable, ingester, script, alive, busy, waves, losses, process, unstableSeen>>
    BY <1>2 DEF Emit
  <2> QED BY <2>2, <2>3, <2>4, Zenon DEF TypeOK, Changes, ingester, script, process
<1>3. ASSUME NEW h \in Hosts, Settle(h) PROVE TypeOK'
  <2>1. busy' \in SUBSET alive
    BY <1>3 DEF Settle, TypeOK
  <2>2. UNCHANGED <<wasUnstable, ingester, script, alive, told, waves, network, process, unstableSeen>>
    BY <1>3 DEF Settle
  <2> QED BY <2>1, <2>2, Zenon DEF TypeOK, ingester, script, network, process
<1>4. ASSUME NEW h \in Hosts, Lose(h) PROVE TypeOK'
  <2>1. PICK i \in DOMAIN net[h] : net' = [net EXCEPT ![h] = RemoveAt(@, i)]
    BY <1>4 DEF Lose
  <2>2. RemoveAt(net[h], i) \in Seq(Changes)
    BY RemoveAtType DEF TypeOK, Changes
  <2>3. net' \in [Hosts -> Seq(Changes)]
    BY <2>1, <2>2 DEF TypeOK, Changes
  <2>4. losses' \in 0..MaxLosses
    BY <1>4 DEF Lose, TypeOK
  <2>5. UNCHANGED <<wasUnstable, ingester, script, cluster, process, unstableSeen>>
    BY <1>4 DEF Lose
  <2> QED BY <2>3, <2>4, <2>5, Zenon DEF TypeOK, Changes, ingester, script, cluster, process
<1> QED BY <1>1, <1>2, <1>3, <1>4

LEMMA ScriptNumbers ==
    ASSUME TypeOK, InScript, [Next]_vars
    PROVE  InScript'
<1>0. cmd <= Len(Commands) => Commands[cmd].cmd \in {"cluster", "wait-for-stable"}
  <2>1. \A r \in Command : r.cmd \in {"cluster", "wait-for-stable"}
    BY DEF Command
  <2> QED BY <2>1, IngesterAssumption DEF TypeOK
<1>1. CASE Script
  BY <1>0, <1>1, Constants DEF Script, InsertLabel, AfterLabel, RunCommand, SeeUnstable, SeeStable,
     ResetAndReturn, InScript, TypeOK
<1>2. CASE UNCHANGED script
  BY <1>2 DEF script, InScript
<1>3. CASE Ingest \/ Fails \/ Effect \/ (\E h \in Hosts : Emit(h) \/ Settle(h) \/ Lose(h))
  BY <1>2, <1>3 DEF Ingest, ScanAndHandle, WriteStat, Fails, ReadFails, StatIsFatal, Effect, TakeEffect, Emit, Settle, Lose
<1> QED BY <1>1, <1>2, <1>3 DEF Next, vars

LEMMA NextTypes == TypeOK /\ InScript /\ [Next]_vars => TypeOK' /\ InScript'
<1> SUFFICES ASSUME TypeOK, InScript, [Next]_vars PROVE TypeOK'
  BY ScriptNumbers
<1>1. CASE UNCHANGED vars
  BY <1>1, Zenon DEF vars, ingester, script, cluster, network, process, TypeOK
<1> QED BY <1>1, IngestTypes, ScriptTypes, FailTypes, ClusterTypes DEF Next

(* The state of the ingester is well typed.                                *)
THEOREM TypeCorrect == Spec => []TypeOK
<1>1. Init => InScript
  BY DEF Init, InScript
<1> QED BY <1>1, InitTypes, NextTypes, PTL DEF Spec

----------------------------------------------------------------------------
(* What the file lacks is in hand, and is what the estimate has of it.     *)
InHand ==
    \A h \in Hosts :
      IF stat # NoStat /\ stat.host = h /\ stat.changes # "other"
        THEN emptyNodes[h] = IF stat.changes = "zero" THEN "empty" ELSE "busy"
        ELSE emptyNodes[h] = fileLast[h]

LEMMA HandKept == InHand /\ UNCHANGED ingester => InHand'
BY DEF InHand, ingester

LEMMA NextInHand == TypeOK /\ InHand /\ [Next]_vars => InHand'
<1> SUFFICES ASSUME TypeOK, InHand, [Next]_vars PROVE InHand'
  OBVIOUS
<1>1. CASE ScanAndHandle
  <2>0. PICK h \in Hosts : \E changes :
           /\ stat' = [host |-> h, changes |-> changes]
           /\ HandleStat([host |-> h, changes |-> changes])
    BY <1>1 DEF ScanAndHandle
  <2>1. PICK changes :
           /\ stat' = [host |-> h, changes |-> changes]
           /\ HandleStat([host |-> h, changes |-> changes])
    BY <2>0
  <2>2. stat = NoStat /\ fileLast' = fileLast
    BY <1>1 DEF ScanAndHandle
  <2>3. \A g \in Hosts : emptyNodes[g] = fileLast[g]
    BY <2>2 DEF InHand
  <2>4. emptyNodes \in [Hosts -> {"absent", "empty", "busy"}]
    BY DEF TypeOK
  <2>5. CASE changes = "other"
    BY <2>1, <2>2, <2>3, <2>5 DEF HandleStat, InHand
  <2>6. CASE changes # "other"
    <3>1. emptyNodes' = [emptyNodes EXCEPT ![h] = IF changes = "zero" THEN "empty" ELSE "busy"]
      BY <2>1, <2>6 DEF HandleStat, Record
    <3>2. stat' # NoStat
      BY <2>1, <2>6 DEF NoStat
    <3> QED BY <2>1, <2>2, <2>3, <2>4, <2>6, <3>1, <3>2 DEF InHand
  <2> QED BY <2>5, <2>6
<1>2. CASE WriteStat
  <2>1. stat # NoStat /\ stat' = NoStat /\ emptyNodes' = emptyNodes
    BY <1>2 DEF WriteStat
  <2>2. fileLast' = IF stat.changes = "other" THEN fileLast
                    ELSE [fileLast EXCEPT ![stat.host] =
                            IF stat.changes = "zero" THEN "empty" ELSE "busy"]
    BY <1>2 DEF WriteStat
  <2>3. fileLast \in [Hosts -> {"absent", "empty", "busy"}]
    BY DEF TypeOK
  <2> QED BY <2>1, <2>2, <2>3 DEF InHand
<1>3. CASE UNCHANGED ingester
  BY <1>3, HandKept
<1>4. CASE Script \/ Fails \/ Effect \/ (\E h \in Hosts : Emit(h) \/ Settle(h) \/ Lose(h))
  BY <1>3, <1>4 DEF Script, InsertLabel, RunCommand, SeeUnstable, SeeStable, ResetAndReturn,
     Fails, ReadFails, StatIsFatal, Effect, TakeEffect, Emit, Settle, Lose
<1> QED BY <1>1, <1>2, <1>3, <1>4 DEF Next, Ingest, vars

(* The file always explains the estimate that the script is run by.        *)
THEOREM FileIsTheEstimate == Spec => []FileExplainsEstimate
<1>1. Init => InHand
  BY DEF Init, InHand
<1>2. InHand => FileExplainsEstimate
  BY DEF InHand, FileExplainsEstimate
<1> QED BY <1>1, <1>2, NextInHand, TypeCorrect, PTL DEF Spec

(* wasUnstable is set by a stat handled since the last reset, and the      *)
(* script is past the first loop on account of it.                         *)
Earned == (wasUnstable \/ scriptPc \in {"stable", "reset"}) => unstableSeen # {}

LEMMA NextEarned == Earned /\ [Next]_vars => Earned'
<1> SUFFICES ASSUME Earned, [Next]_vars PROVE Earned'
  OBVIOUS
<1>1. CASE ScanAndHandle
  <2>1. PICK s : HandleStat(s)
    BY <1>1 DEF ScanAndHandle
  <2>2. scriptPc' = scriptPc
    BY <1>1 DEF ScanAndHandle, script
  <2>3. CASE s.changes = "some"
    BY <2>1, <2>3 DEF HandleStat, Earned
  <2>4. CASE s.changes # "some"
    <3>1. unstableSeen' = unstableSeen
      BY <2>1, <2>4 DEF HandleStat
    <3>2. wasUnstable' => wasUnstable
      BY <2>1, <2>4, Zenon DEF HandleStat
    <3> QED BY <2>2, <3>1, <3>2, Zenon DEF Earned
  <2> QED BY <2>3, <2>4
<1>2. CASE SeeUnstable
  <2>1. wasUnstable /\ unstableSeen' = unstableSeen
    BY <1>2 DEF SeeUnstable
  <2> QED BY <2>1 DEF Earned
<1>3. CASE ResetAndReturn
  BY <1>3 DEF ResetAndReturn, Earned
<1>4. CASE InsertLabel \/ RunCommand \/ SeeStable
  <2>1. /\ UNCHANGED <<wasUnstable, unstableSeen>>
        /\ scriptPc' \in {"label", "run", "unstable"} \/ scriptPc = "stable"
    BY <1>4 DEF InsertLabel, AfterLabel, RunCommand, SeeStable
  <2> QED BY <2>1 DEF Earned
<1>5. CASE UNCHANGED <<wasUnstable, scriptPc, unstableSeen>>
  BY <1>5 DEF Earned
<1>6. CASE \/ WriteStat \/ Fails \/ Effect \/ UNCHANGED vars
           \/ \E h \in Hosts : Emit(h) \/ Settle(h) \/ Lose(h)
  BY <1>5, <1>6 DEF WriteStat, Fails, ReadFails, StatIsFatal, Effect, TakeEffect, Emit, Settle, Lose, vars, script
<1> QED BY <1>1, <1>2, <1>3, <1>4, <1>6 DEF Next, Script, Ingest

(* No instability lets WaitForStable return twice.                         *)
THEOREM NoReturnForFree == Spec => []EachReturnEarned
<1>1. Init => Earned
  BY DEF Init, Earned
<1>2. Earned => EachReturnEarned
  BY DEF Earned, EachReturnEarned
<1> QED BY <1>1, <1>2, NextEarned, PTL DEF Spec
----------------------------------------------------------------------------
(* When the ingestion has ended nothing sets wasUnstable any more: the     *)
(* return that was blind has reset it, and the first loop does not end.    *)
BlindIsLast ==
    /\ blind \in {0, 1}
    /\ blind = 1 => /\ proc # "up" /\ wasUnstable = FALSE
                    /\ scriptPc \notin {"stable", "reset"}

LEMMA NextBlind == BlindIsLast /\ [Next]_vars => BlindIsLast'
<1> SUFFICES ASSUME BlindIsLast, [Next]_vars PROVE BlindIsLast'
  OBVIOUS
<1>1. CASE Script
  <2>1. CASE ResetAndReturn
    BY <2>1 DEF ResetAndReturn, BlindIsLast
  <2>2. CASE InsertLabel \/ RunCommand \/ SeeUnstable \/ SeeStable
    <3>1. UNCHANGED <<blind, proc, wasUnstable>>
      BY <2>2 DEF InsertLabel, RunCommand, SeeUnstable, SeeStable, process
    <3>2. blind = 1 => scriptPc' \notin {"stable", "reset"}
      BY <2>2 DEF InsertLabel, AfterLabel, RunCommand, SeeUnstable, SeeStable, BlindIsLast
    <3> QED BY <3>1, <3>2 DEF BlindIsLast
  <2> QED BY <1>1, <2>1, <2>2 DEF Script
<1>2. CASE ScanAndHandle
  BY <1>2 DEF ScanAndHandle, process, BlindIsLast
<1>3. CASE Fails
  BY <1>3 DEF Fails, ReadFails, StatIsFatal, script, BlindIsLast
<1>4. CASE UNCHANGED <<blind, proc, wasUnstable, scriptPc>>
  BY <1>4 DEF BlindIsLast
<1>5. CASE \/ WriteStat \/ Effect \/ UNCHANGED vars
           \/ \E h \in Hosts : Emit(h) \/ Settle(h) \/ Lose(h)
  BY <1>4, <1>5 DEF WriteStat, Effect, TakeEffect, Emit, Settle, Lose, vars, script, process
<1> QED BY <1>1, <1>2, <1>3, <1>5 DEF Next, Ingest

(* A script that nobody feeds any more gets past one wait at most.         *)
THEOREM BlindOnlyOnce == Spec => []BlindAtMostOnce
<1>1. Init => BlindIsLast
  BY DEF Init, BlindIsLast
<1>2. BlindIsLast => BlindAtMostOnce
  BY DEF BlindIsLast, BlindAtMostOnce
<1> QED BY <1>1, <1>2, NextBlind, PTL DEF Spec
=============================================================================
