-------------------------- MODULE FakeClusterProofs --------------------------
(***************************************************************************)
(* Theorems about the fake cluster, for any number of fake nodes, of pings *)
(* and of incarnation numbers.                                             *)
(***************************************************************************)
EXTENDS FakeCluster, TLAPS

All == Nodes \cup {Sut}

(* What the type invariant needs to be inductive: there is a number to     *)
(* take one off, a list that the coordinator answers has one entry for     *)
(* each member, a ping has one change at most and a probe is of a fake     *)
(* node.                                                                   *)
Shapes ==
    /\ \A i \in Nodes : nodes[i].inc >= 1
    /\ sutInc >= 1 /\ view[Sut].inc >= 1
    /\ sync.stage = "answered" =>
         /\ \A i \in All : \E m \in sync.members : m.of = i
         /\ \A m, n \in sync.members : m.of = n.of => m = n
    /\ \A c, d \in ping.changes : c = d
    /\ probe.of \notin Nodes => probe = NoProbe

(* Nothing under way is ahead of the record, and a member that is known    *)
(* without a break has the number on record, is about to be told or is one *)
(* of those that the SUT was not told about.                               *)
Agreement ==
    /\ \A i \in Nodes : view[i] # Unknown => view[i].inc <= nodes[i].inc
    /\ \A c \in ping.changes : c.of \in Nodes => c.inc <= nodes[c.of].inc
    /\ sync.stage = "answered" =>
         \A m \in sync.members : /\ m.of \in Nodes => m.inc <= nodes[m.of].inc
                                 /\ m.of = Sut => m.status = "alive"
    /\ \A i \in Nodes \ evicted :
         /\ view[i] # Unknown
         /\ \/ view[i].inc = nodes[i].inc
            \/ i \in untold
            \/ i \in ping.raised /\ \E c \in ping.changes : c.of = i /\ c.inc = nodes[i].inc
    /\ unseen \/ view[Sut].inc = sutInc

(* Disabled all at once, nobody is left to say that a member is down.      *)
Disabling ==
    /\ ~downOne => \/ \A i \in Nodes : nodes[i].enabled
                   \/ \A i \in Nodes : ~nodes[i].enabled
    /\ \A i \in Nodes : nodes[i].enabled => nodes[i].open
    /\ probe.of \in Nodes => ~nodes[probe.of].enabled
    /\ probe.said # {} => downOne
    /\ DisabledUnsuspected

(* The checksum of a recorded change is the one before with the change.    *)
Recorded ==
    ping.isRecorded =>
      \A c \in ping.changes :
        /\ c.of \in Nodes
        /\ c.inc = nodes[c.of].inc =>
             ping.sum = Checksum({m \in ping.before : m.of # c.of} \cup {c})

IInv == TypeOK /\ Shapes /\ Agreement /\ Disabling /\ Recorded

----------------------------------------------------------------------------
(* Members, checksums and what the SUT takes.                              *)

LEMMA SutIsNoNode == Sut \notin Nodes
BY FakeAssumption

LEMMA MemberFacts ==
    ASSUME NEW cluster \in [Nodes -> [status: Statuses, inc: Nat, enabled: BOOLEAN, open: BOOLEAN]],
           sutInc \in Nat
    PROVE  /\ Members(cluster) \in SUBSET MemberType
           /\ Checksum(Members(cluster)) \in SUBSET MemberType
           /\ \A i \in All : \E m \in Members(cluster) : m.of = i
           /\ \A m \in Members(cluster) :
                /\ m.of \in Nodes => m.inc = cluster[m.of].inc
                /\ m.of = Sut => m.status = "alive"
           /\ \A m, n \in Members(cluster) : m.of = n.of => m = n
<1>1. \A i \in Nodes : /\ Member(i, cluster[i].status, cluster[i].inc) \in MemberType
                       /\ Member(i, cluster[i].status, cluster[i].inc) \in Members(cluster)
  BY DEF Member, Members, MemberType
<1>2. Member(Sut, "alive", sutInc) \in MemberType /\ Member(Sut, "alive", sutInc) \in Members(cluster)
  BY DEF Member, Members, MemberType, Statuses
<1>3. Members(cluster) \in SUBSET MemberType
  BY <1>1, <1>2 DEF Members
<1>4. \A i \in All : \E m \in Members(cluster) : m.of = i
  <2> TAKE i \in All
  <2>1. CASE i \in Nodes
    <3>1. Member(i, cluster[i].status, cluster[i].inc).of = i
      BY DEF Member
    <3> QED BY <1>1, <2>1, <3>1
  <2>2. CASE i = Sut
    <3>1. Member(Sut, "alive", sutInc).of = i
      BY <2>2 DEF Member
    <3> QED BY <1>2, <3>1
  <2> QED BY <2>1, <2>2 DEF All
<1>5. \A m \in Members(cluster) :
                /\ m.of \in Nodes => m.inc = cluster[m.of].inc
                /\ m.of = Sut => m.status = "alive"
  BY SutIsNoNode DEF Members, Member
<1>6. \A m, n \in Members(cluster) : m.of = n.of => m = n
  BY SutIsNoNode DEF Members, Member
<1> QED BY <1>3, <1>4, <1>5, <1>6 DEF Checksum

View == [All -> [status: Statuses \cup {"unknown"}, inc: Nat]]

(* What is taken is the change or what was known, and no lower number of a *)
(* member that is known.                                                   *)
LEMMA TakenFacts ==
    ASSUME NEW known \in View, NEW change \in MemberType
    PROVE  /\ Taken(change, known) \in View
           /\ \A i \in Nodes :
                \/ Taken(change, known)[i] = known[i]
                \/ /\ i = change.of /\ Overrides(change, known[i])
                   /\ Taken(change, known)[i] = [status |-> change.status, inc |-> change.inc]
           /\ \A i \in Nodes : i = change.of /\ Overrides(change, known[i]) =>
                Taken(change, known)[i] = [status |-> change.status, inc |-> change.inc]
           /\ Taken(change, known)[Sut].inc >= 1 \/ Taken(change, known)[Sut] = known[Sut]
           /\ (change.of # Sut \/ change.status = "alive") => Taken(change, known)[Sut] = known[Sut]
           /\ Taken(change, known)[Sut].inc # known[Sut].inc => Taken(change, known)[Sut] # known[Sut]
<1> USE SutIsNoNode
<1>1. change.of \in All /\ change.status \in Statuses /\ change.inc \in Nat
  BY DEF MemberType, All
<1>2. CASE Refutes(change, known)
  <2>1. change.of = Sut /\ change.status # "alive"
    BY <1>2 DEF Refutes
  <2>2. Taken(change, known) = [known EXCEPT ![Sut].inc = change.inc + 1]
    BY <1>2 DEF Taken
  <2> QED BY <1>1, <2>1, <2>2 DEF View, All
<1>3. CASE ~Refutes(change, known) /\ change.of # Sut /\ Overrides(change, known[change.of])
  <2>1. Taken(change, known) = [known EXCEPT ![change.of] = [status |-> change.status, inc |-> change.inc]]
    BY <1>3 DEF Taken
  <2> QED BY <1>1, <1>3, <2>1 DEF View, All
<1>4. CASE ~Refutes(change, known) /\ ~(change.of # Sut /\ Overrides(change, known[change.of]))
  <2>1. Taken(change, known) = known
    BY <1>4 DEF Taken
  <2> QED BY <1>1, <1>4, <2>1 DEF View, All
<1> QED BY <1>2, <1>3, <1>4

(* An overriding change has no lower number, and a higher one overrides.   *)
LEMMA OverridesFacts ==
    ASSUME NEW old \in [status: Statuses \cup {"unknown"}, inc: Nat], NEW change \in MemberType
    PROVE  /\ old # Unknown /\ Overrides(change, old) => change.inc >= old.inc
           /\ old # Unknown /\ change.inc > old.inc => Overrides(change, old)
BY DEF Overrides, MemberType

LEMMA TakenIsKnown ==
    ASSUME NEW change \in MemberType
    PROVE  [status |-> change.status, inc |-> change.inc] # Unknown
BY DEF MemberType, Statuses, Unknown

LEMMA InitIInv == Init => IInv
<1> SUFFICES ASSUME Init PROVE IInv
  OBVIOUS
<1> USE SutIsNoNode DEF Init
<1>1. TypeOK
  BY DEF TypeOK, NoPing, NoSync, NoProbe, Statuses
<1>2. Shapes
  BY DEF Shapes, NoPing, NoSync, NoProbe
<1>3. Agreement
  BY DEF Agreement, NoPing, NoSync, Unknown
<1>4. Disabling
  BY DEF Disabling, DisabledUnsuspected, NoProbe
<1>5. Recorded
  BY DEF Recorded, NoPing
<1> QED BY <1>1, <1>2, <1>3, <1>4, <1>5 DEF IInv

----------------------------------------------------------------------------
(* Closures that send a ping.                                              *)

NodesType == [Nodes -> [status: Statuses, inc: Nat, enabled: BOOLEAN, open: BOOLEAN]]

PingType == [from: Nodes \cup {Sut}, changes: SUBSET MemberType, raised: SUBSET Nodes,
             sum: SUBSET MemberType, before: SUBSET MemberType, isRecorded: BOOLEAN]

(* A ping without a change of a fake node leaves the rest to hold.         *)
LEMMA PlainPing ==
    ASSUME IInv, NEW from \in Nodes, NEW changes \in SUBSET MemberType,
           \A c, d \in changes : c = d, \A c \in changes : c.of = Sut,
           ping = NoPing, ping' = Ping(from, changes, {}, nodes, FALSE),
           UNCHANGED <<nodes, sutInc, stuck, sut, past>>
    PROVE  IInv'
<1> USE SutIsNoNode DEF IInv, sut, past
<1>1. /\ ping' \in PingType
      /\ ping'.changes = changes /\ ping'.isRecorded = FALSE
  <2>1. Checksum(Members(nodes)) \in SUBSET MemberType
    BY MemberFacts DEF TypeOK
  <2> HIDE DEF IInv
  <2> QED BY <2>1 DEF Ping, PingType
<1>2. ping.changes = {} /\ ping.raised = {}
  BY DEF NoPing
<1>3. TypeOK'
  BY <1>1 DEF TypeOK, MemberType, PingType
<1>4. Shapes'
  BY <1>1 DEF Shapes, All
<1>5. Agreement'
  BY <1>1, <1>2 DEF Agreement
<1>6. Disabling'
  BY DEF Disabling, DisabledUnsuspected
<1>7. Recorded'
  BY <1>1 DEF Recorded
<1> QED BY <1>3, <1>4, <1>5, <1>6, <1>7

LEMMA SendPingOfSutInv ==
    ASSUME IInv, NEW from \in Nodes, NEW status \in Statuses, NEW delta \in Deltas,
           SendPingOfSut(from, status, delta)
    PROVE  IInv'
<1>1. sutInc + delta \in Nat
  BY DEF IInv, TypeOK, Shapes, Deltas
<1>2. {Member(Sut, status, sutInc + delta)} \in SUBSET MemberType
      /\ \A c \in {Member(Sut, status, sutInc + delta)} : c.of = Sut
  BY <1>1 DEF Member, MemberType
<1>3. /\ ping = NoPing /\ UNCHANGED <<nodes, sutInc, stuck, sut, past>>
      /\ ping' = Ping(from, {Member(Sut, status, sutInc + delta)}, {}, nodes, FALSE)
  BY DEF SendPingOfSut, MaySend, Rests
<1> HIDE DEF IInv
<1> QED BY <1>2, <1>3, PlainPing

LEMMA SendPingAloneInv ==
    ASSUME IInv, NEW from \in Nodes, SendPingAlone(from)
    PROVE  IInv'
<1>1. /\ ping = NoPing /\ UNCHANGED <<nodes, sutInc, stuck, sut, past>>
      /\ ping' = Ping(from, {}, {}, nodes, FALSE)
  BY DEF SendPingAlone, MaySend, Rests
<1>2. {} \in SUBSET MemberType /\ \A c, d \in {} : c = d
  OBVIOUS
<1>3. \A c \in {} : c.of = Sut
  OBVIOUS
<1> QED BY <1>1, <1>2, <1>3, PlainPing

(* The list with a node changed is the list with the member replaced.      *)
LEMMA OneMemberChanged ==
    ASSUME NEW cluster \in NodesType, NEW after \in NodesType, NEW i \in Nodes,
           sutInc \in Nat,
           \A k \in Nodes \ {i} : after[k].status = cluster[k].status /\ after[k].inc = cluster[k].inc
    PROVE  Members(after) =
             {m \in Members(cluster) : m.of # i} \cup {Member(i, after[i].status, after[i].inc)}
<1> USE SutIsNoNode DEF Member
<1> DEFINE M == {m \in Members(cluster) : m.of # i} \cup {Member(i, after[i].status, after[i].inc)}
<1>1. ASSUME NEW m \in Members(after) PROVE m \in M
  <2>1. CASE m = Member(Sut, "alive", sutInc)
    BY <2>1 DEF Members
  <2>2. ASSUME NEW k \in Nodes, m = Member(k, after[k].status, after[k].inc) PROVE m \in M
    <3>1. CASE k = i
      BY <2>2, <3>1
    <3>2. CASE k # i
      <4>1. m = Member(k, cluster[k].status, cluster[k].inc)
        BY <2>2, <3>2
      <4> QED BY <3>2, <4>1 DEF Members
    <3> QED BY <3>1, <3>2
  <2> QED BY <2>1, <2>2 DEF Members
<1>2. ASSUME NEW m \in M PROVE m \in Members(after)
  <2>1. CASE m = Member(i, after[i].status, after[i].inc)
    BY <2>1 DEF Members
  <2>2. CASE m \in Members(cluster) /\ m.of # i
    <3>1. CASE m = Member(Sut, "alive", sutInc)
      BY <3>1 DEF Members
    <3>2. ASSUME NEW k \in Nodes, m = Member(k, cluster[k].status, cluster[k].inc)
          PROVE  m \in Members(after)
      <4>1. k # i
        BY <2>2, <3>2
      <4>2. m = Member(k, after[k].status, after[k].inc)
        BY <3>2, <4>1
      <4> QED BY <4>2 DEF Members
    <3> QED BY <2>2, <3>1, <3>2 DEF Members
  <2> QED BY <2>1, <2>2
<1> HIDE DEF M
<1>3. Members(after) = M
  BY <1>1, <1>2
<1> QED BY <1>3 DEF M

LEMMA SendsInv ==
    ASSUME IInv, NEW from \in Nodes, NEW subject \in Nodes, NEW status \in Statuses,
           NEW delta \in Deltas, NEW r \in BOOLEAN, NEW cluster \in NodesType,
           \A k \in Nodes : /\ cluster[k].inc = nodes[k].inc /\ cluster[k].enabled = nodes[k].enabled
                            /\ cluster[k].open = nodes[k].open
                            /\ k # subject => cluster[k] = nodes[k],
           r => cluster[subject].status = status,
           Sends(from, subject, status, delta, cluster, r)
    PROVE  IInv'
<1> DEFINE c == Member(subject, status, nodes[subject].inc + delta)
           raised == IF delta > 0 THEN {subject} ELSE {}
<1> USE SutIsNoNode
<1>1. /\ ping = NoPing /\ nodes' = Bumped(cluster, subject, delta)
      /\ ping' = Ping(from, {c}, raised, nodes', r)
      /\ UNCHANGED <<sutInc, stuck, sut, past>>
  BY DEF Sends, MaySend, Rests
<1>2. TypeOK /\ Shapes /\ Agreement /\ Disabling /\ ping.changes = {} /\ ping.raised = {}
  BY <1>1 DEF IInv, NoPing
<1>3. nodes \in NodesType /\ nodes[subject].inc \in Nat /\ nodes[subject].inc >= 1
  BY <1>2 DEF TypeOK, Shapes, NodesType
<1>4. /\ c \in MemberType /\ c.of = subject /\ c.status = status
      /\ c.inc = nodes[subject].inc + delta
  BY <1>3 DEF Member, MemberType, Deltas
<1>5. /\ nodes' \in NodesType
      /\ \A k \in Nodes : /\ nodes'[k].enabled = nodes[k].enabled /\ nodes'[k].open = nodes[k].open
                          /\ nodes'[k].status = cluster[k].status
                          /\ k # subject => nodes'[k] = nodes[k]
      /\ nodes'[subject].inc = IF delta > 0 THEN nodes[subject].inc + delta ELSE nodes[subject].inc
  <2>1. CASE delta > 0
    <3>1. nodes' = [cluster EXCEPT ![subject].inc = @ + delta]
      BY <1>1, <2>1 DEF Bumped
    <3> QED BY <1>3, <2>1, <3>1 DEF NodesType, Deltas
  <2>2. CASE ~(delta > 0)
    <3>1. nodes' = cluster
      BY <1>1, <2>2 DEF Bumped
    <3> QED BY <1>3, <2>2, <3>1 DEF NodesType
  <2> QED BY <2>1, <2>2
<1>6. \A k \in Nodes : nodes[k].inc <= nodes'[k].inc
  BY <1>3, <1>5 DEF NodesType, Deltas
<1>raised. raised \in SUBSET Nodes /\ (delta > 0 => subject \in raised)
  OBVIOUS
<1> HIDE DEF c, raised
<1>7. /\ ping' \in PingType /\ ping'.changes = {c} /\ ping'.isRecorded = r
      /\ ping'.raised = raised
      /\ ping'.sum = Checksum(Members(nodes')) /\ ping'.before = Checksum(Members(nodes))
  <2>1. {c} \in SUBSET MemberType
    BY <1>4
  <2>2. /\ Ping(from, {c}, raised, nodes', r) \in PingType
        /\ Ping(from, {c}, raised, nodes', r).changes = {c}
        /\ Ping(from, {c}, raised, nodes', r).raised = raised
        /\ Ping(from, {c}, raised, nodes', r).isRecorded = r
        /\ Ping(from, {c}, raised, nodes', r).sum = Checksum(Members(nodes'))
        /\ Ping(from, {c}, raised, nodes', r).before = Checksum(Members(nodes))
    <3>1. Checksum(Members(nodes)) \in SUBSET MemberType
      BY <1>2, MemberFacts DEF TypeOK
    <3>2. Checksum(Members(nodes')) \in SUBSET MemberType
      BY <1>2, <1>5, MemberFacts DEF TypeOK, NodesType
    <3> QED BY <1>raised, <2>1, <3>1, <3>2 DEF Ping, PingType
  <2> QED BY <1>1, <2>2
<1>8. TypeOK'
  BY <1>1, <1>2, <1>5, <1>7 DEF TypeOK, MemberType, PingType, NodesType, sut, past
<1>9. Shapes'
  <2>1. \A k \in Nodes : nodes'[k].inc >= 1
    BY <1>2, <1>3, <1>5, <1>6 DEF Shapes, NodesType
  <2> QED BY <1>1, <1>2, <1>7, <2>1 DEF Shapes, All, sut
<1>10. Agreement'
  <2>1. nodes \in NodesType /\ nodes' \in NodesType
    BY <1>3, <1>5
  <2>2. \A i \in Nodes : view[i].inc \in Nat
    BY <1>2 DEF TypeOK
  <2>3. \A i \in Nodes : view[i] # Unknown => view[i].inc <= nodes'[i].inc
    BY <1>2, <1>6, <2>1, <2>2 DEF Agreement, NodesType
  <2>4. c.inc <= nodes'[subject].inc
    BY <1>3, <1>4, <1>5 DEF Deltas
  <2>5. sync.stage = "answered" =>
          \A m \in sync.members : /\ m.of \in Nodes => m.inc <= nodes'[m.of].inc
                                  /\ m.of = Sut => m.status = "alive"
    BY <1>2, <1>6, <2>1 DEF Agreement, TypeOK, MemberType, NodesType
  <2>6. \A i \in Nodes \ evicted :
          \/ view[i].inc = nodes'[i].inc \/ i \in untold
          \/ (i \in raised /\ c.of = i /\ c.inc = nodes'[i].inc)
    <3> TAKE i \in Nodes \ evicted
    <3>1. view[i].inc = nodes[i].inc \/ i \in untold
      BY <1>2 DEF Agreement
    <3>2. CASE i = subject /\ delta > 0
      BY <1>4, <1>5, <1>raised, <3>2
    <3>3. CASE ~(i = subject /\ delta > 0)
      BY <1>5, <3>1, <3>3
    <3> QED BY <3>2, <3>3
  <2>7. UNCHANGED <<sutInc, view, sync, evicted, unseen, untold>>
    BY <1>1 DEF sut, past
  <2>8. \A i \in Nodes \ evicted :
          /\ view[i] # Unknown
          /\ \/ view[i].inc = nodes'[i].inc \/ i \in untold
             \/ i \in ping'.raised /\ \E d \in ping'.changes : d.of = i /\ d.inc = nodes'[i].inc
    BY <1>2, <1>7, <2>6 DEF Agreement
  <2>9. \A d \in ping'.changes : d.of \in Nodes => d.inc <= nodes'[d.of].inc
    BY <1>4, <1>7, <2>4
  <2>10. unseen \/ view[Sut].inc = sutInc
    BY <1>2 DEF Agreement
  <2> QED BY <2>3, <2>5, <2>7, <2>8, <2>9, <2>10 DEF Agreement
<1>11. Disabling'
  BY <1>1, <1>2, <1>5 DEF Disabling, DisabledUnsuspected, TypeOK, sut, past
<1>12. Recorded'
  <2> SUFFICES ASSUME r, c.inc = nodes'[subject].inc
               PROVE  ping'.sum = Checksum({m \in ping'.before : m.of # subject} \cup {c})
    BY <1>4, <1>7 DEF Recorded
  <2>1. Member(subject, nodes'[subject].status, nodes'[subject].inc) = c
    BY <1>4, <1>5 DEF Member, c
  <2>2. sutInc \in Nat /\ nodes \in NodesType /\ nodes' \in NodesType
    BY <1>2, <1>3, <1>5 DEF TypeOK
  <2>3. \A k \in Nodes \ {subject} : nodes'[k].status = nodes[k].status /\ nodes'[k].inc = nodes[k].inc
    BY <1>5
  <2>4. Members(nodes') = {m \in Members(nodes) : m.of # subject} \cup {c}
    BY <2>1, <2>2, <2>3, OneMemberChanged
  <2>5. Checksum({m \in Members(nodes) : m.of # subject} \cup {c}) =
          Checksum({m \in Checksum(Members(nodes)) : m.of # subject} \cup {c})
    BY DEF Checksum
  <2>6. Checksum(Members(nodes')) = Checksum({m \in Members(nodes) : m.of # subject} \cup {c})
    BY <2>4
  <2>7. ping'.before = Checksum(Members(nodes)) /\ ping'.sum = Checksum(Members(nodes'))
    BY <1>7
  <2> QED BY <2>5, <2>6, <2>7
<1> QED BY <1>8, <1>9, <1>10, <1>11, <1>12 DEF IInv

LEMMA SendPingInv ==
    ASSUME IInv, NEW from \in Nodes, NEW subject \in Nodes, NEW status \in Statuses,
           NEW delta \in Deltas, SendPing(from, subject, status, delta)
    PROVE  IInv'
<1>1. nodes \in NodesType /\ FALSE \in BOOLEAN
  BY DEF IInv, TypeOK, NodesType
<1> QED BY <1>1, SendsInv DEF SendPing

LEMMA ChangeStatusInv ==
    ASSUME IInv, NEW from \in Nodes, NEW subject \in Nodes, NEW status \in Statuses,
           NEW delta \in Deltas, ChangeStatus(from, subject, status, delta)
    PROVE  IInv'
<1> DEFINE cluster == [nodes EXCEPT ![subject].status = status]
<1>1. /\ cluster \in NodesType /\ TRUE \in BOOLEAN
      /\ \A k \in Nodes : /\ cluster[k].inc = nodes[k].inc /\ cluster[k].enabled = nodes[k].enabled
                          /\ cluster[k].open = nodes[k].open
                          /\ k # subject => cluster[k] = nodes[k]
      /\ cluster[subject].status = status
  BY DEF IInv, TypeOK, NodesType
<1>2. Sends(from, subject, status, delta, cluster, TRUE)
  BY DEF ChangeStatus
<1> HIDE DEF cluster
<1> QED BY <1>1, <1>2, SendsInv

----------------------------------------------------------------------------
(* The other closures and the handlers.                                    *)

LEMMA AssertBumpedInv == ASSUME IInv, AssertBumped PROVE IInv'
<1> USE DEF IInv, AssertBumped, Rests, sut
<1>1. view[Sut].inc \in Nat
  BY DEF TypeOK
<1>2. TypeOK'
  BY <1>1 DEF TypeOK, MemberType
<1>3. Shapes'
  BY DEF Shapes
<1>4. Agreement'
  BY DEF Agreement
<1>5. Disabling'
  BY DEF Disabling, DisabledUnsuspected
<1>6. Recorded'
  BY DEF Recorded
<1> QED BY <1>2, <1>3, <1>4, <1>5, <1>6

(* Disabling nodes leaves their statuses and numbers alone.                *)
LEMMA DisablingAlone ==
    ASSUME IInv, nodes' \in NodesType,
           \A i \in Nodes : nodes'[i].inc = nodes[i].inc,
           ping = NoPing, UNCHANGED <<sutInc, ping, stuck, sut, accused, evicted, unseen, untold>>,
           downOne' \in BOOLEAN
    PROVE  TypeOK' /\ Shapes' /\ Agreement' /\ Recorded'
<1> USE DEF IInv, sut
<1>1. TypeOK'
  BY DEF TypeOK, MemberType, NodesType
<1>2. Shapes'
  BY DEF Shapes
<1>3. Agreement'
  BY DEF Agreement
<1>4. Recorded'
  BY DEF Recorded
<1> QED BY <1>1, <1>2, <1>3, <1>4

LEMMA DisableAllInv == ASSUME IInv, DisableAllNodesPing PROVE IInv'
<1>1. /\ nodes \in NodesType /\ probe.of \in Nodes \cup {Sut} /\ accused \subseteq Nodes
      /\ downOne \in BOOLEAN
  BY DEF IInv, TypeOK, NodesType
<1>2. /\ nodes' \in NodesType
      /\ \A i \in Nodes : nodes'[i].inc = nodes[i].inc /\ ~nodes'[i].enabled
  BY <1>1 DEF DisableAllNodesPing, Disabled, NodesType
<1>3. /\ ping = NoPing /\ UNCHANGED <<sutInc, ping, stuck, sut, past>>
  BY DEF DisableAllNodesPing, Rests
<1>4. TypeOK' /\ Shapes' /\ Agreement' /\ Recorded'
  BY <1>1, <1>2, <1>3, DisablingAlone DEF past
<1>5. Disabling'
  BY <1>1, <1>2, <1>3 DEF IInv, Disabling, DisabledUnsuspected, sut, past
<1> QED BY <1>4, <1>5 DEF IInv

LEMMA DisableNodeInv == ASSUME IInv, NEW j \in Nodes, DisableNode(j) PROVE IInv'
<1>1. /\ nodes \in NodesType /\ probe.of \in Nodes \cup {Sut} /\ accused \subseteq Nodes
  BY DEF IInv, TypeOK, NodesType
<1>2. /\ nodes' \in NodesType
      /\ \A i \in Nodes : /\ nodes'[i].inc = nodes[i].inc
                          /\ nodes'[i].enabled => nodes[i].enabled /\ i # j
                          /\ i # j => nodes'[i] = nodes[i]
  BY <1>1 DEF DisableNode, ShutDown, NodesType
<1>3. /\ ping = NoPing /\ UNCHANGED <<sutInc, ping, stuck, sut, accused, evicted, unseen, untold>>
      /\ downOne' = TRUE
  BY DEF DisableNode, Rests
<1>4. TypeOK' /\ Shapes' /\ Agreement' /\ Recorded'
  BY <1>2, <1>3, DisablingAlone
<1>5. Disabling'
  BY <1>1, <1>2, <1>3 DEF IInv, Disabling, DisabledUnsuspected, sut
<1> QED BY <1>4, <1>5 DEF IInv

LEMMA JoinHandlerInv == ASSUME IInv, JoinHandler PROVE IInv'
<1> USE DEF IInv, JoinHandler, fakes, past
<1>1. nodes \in NodesType /\ sutInc \in Nat
  BY DEF TypeOK, NodesType
<1>2. /\ Members(nodes) \in SUBSET MemberType
      /\ \A i \in All : \E m \in Members(nodes) : m.of = i
      /\ \A m \in Members(nodes) : /\ m.of \in Nodes => m.inc = nodes[m.of].inc
                                   /\ m.of = Sut => m.status = "alive"
      /\ \A m, n \in Members(nodes) : m.of = n.of => m = n
  BY <1>1, MemberFacts DEF NodesType
<1>3. sync'.stage = "answered" /\ sync'.members = Members(nodes)
  OBVIOUS
<1>4. TypeOK'
  BY <1>2, <1>3 DEF TypeOK, MemberType
<1>5. Shapes'
  BY <1>2, <1>3 DEF Shapes, All
<1>6. \A m \in Members(nodes) : m.of \in Nodes => m.inc <= nodes[m.of].inc
  BY <1>1, <1>2 DEF NodesType
<1>7. Agreement'
  BY <1>2, <1>3, <1>6 DEF Agreement
<1>8. Disabling'
  BY DEF Disabling, DisabledUnsuspected
<1>9. Recorded'
  BY DEF Recorded
<1> QED BY <1>4, <1>5, <1>7, <1>8, <1>9

----------------------------------------------------------------------------
(* The SUT.                                                                *)

LEMMA SyncFailsInv == ASSUME IInv, SyncFails PROVE IInv'
<1> USE DEF IInv, SyncFails, fakes, past, NoSync
<1>1. sync'.stage # "answered"
  OBVIOUS
<1>2. TypeOK'
  BY <1>1 DEF TypeOK, MemberType
<1>3. Shapes' /\ Agreement'
  BY <1>1 DEF Shapes, Agreement
<1>4. Disabling' /\ Recorded'
  BY DEF Disabling, DisabledUnsuspected, Recorded
<1> QED BY <1>2, <1>3, <1>4

(* A probe is of a node that does not answer; if all were disabled at      *)
(* once, nobody answers for it.                                            *)
LEMMA SutPingFailsInv == ASSUME IInv, NEW i \in Nodes, SutPingFails(i) PROVE IInv'
<1> USE SutIsNoNode DEF IInv, SutPingFails, fakes, past
<1>1. probe'.of = i /\ probe'.said = {} /\ probe'.asked = {}
  OBVIOUS
<1>2. ~nodes[i].enabled
  BY DEF Answers, Disabling
<1>3. TypeOK'
  BY DEF TypeOK, MemberType
<1>4. Shapes' /\ Agreement'
  BY <1>1 DEF Shapes, Agreement
<1>5. Disabling'
  BY <1>1, <1>2 DEF Disabling, DisabledUnsuspected
<1>6. Recorded'
  BY DEF Recorded
<1> QED BY <1>3, <1>4, <1>5, <1>6

LEMMA SutAsksInv == ASSUME IInv, NEW k \in Nodes, SutAsks(k) PROVE IInv'
<1> USE SutIsNoNode DEF IInv, SutAsks, fakes, past
<1>1. probe.of \in Nodes /\ probe \in [of: Nodes \cup {Sut}, asked: SUBSET Nodes, said: SUBSET BOOLEAN]
  BY DEF TypeOK, Shapes
<1>2. nodes \in NodesType
  BY DEF TypeOK, NodesType
<1>3. PingReqAnswer(k, probe.of) \in SUBSET BOOLEAN
  BY <1>1, <1>2 DEF PingReqAnswer, NodesType
<1>4. /\ probe'.of = probe.of /\ probe'.said = probe.said \cup PingReqAnswer(k, probe.of)
      /\ probe' \in [of: Nodes \cup {Sut}, asked: SUBSET Nodes, said: SUBSET BOOLEAN]
  BY <1>1, <1>3
<1>5. PingReqAnswer(k, probe.of) # {} => downOne
  <2>1. ~nodes[probe.of].enabled
    BY <1>1 DEF Disabling
  <2>2. nodes[k].enabled => downOne
    BY <1>1, <2>1 DEF Disabling
  <2> QED BY <2>2 DEF PingReqAnswer, Answers
<1>6. TypeOK'
  BY <1>4 DEF TypeOK, MemberType
<1>7. Shapes' /\ Agreement'
  BY <1>1, <1>4 DEF Shapes, Agreement
<1>8. Disabling'
  BY <1>1, <1>4, <1>5 DEF Disabling, DisabledUnsuspected
<1>9. Recorded'
  BY DEF Recorded
<1> QED BY <1>6, <1>7, <1>8, <1>9

(* Its own steps change the statuses of members and no numbers, save that  *)
(* a member is forgotten.                                                  *)
LEMMA SutAlone ==
    ASSUME IInv, NEW j \in Nodes, UNCHANGED <<fakes, sync, downOne, unseen, untold>>,
           view' \in View, \A i \in All \ {j} : view'[i] = view[i],
           \/ view'[j] = Unknown /\ evicted' = evicted \cup {j}
           \/ /\ view'[j].inc = view[j].inc /\ view'[j] # Unknown /\ view[j] # Unknown
              /\ evicted' = evicted
    PROVE  /\ view' \in [Nodes \cup {Sut} -> [status: Statuses \cup {"unknown"}, inc: Nat]]
           /\ evicted' \subseteq Nodes /\ view'[Sut] = view[Sut] /\ Agreement' /\ Recorded'
<1> USE SutIsNoNode DEF IInv, fakes
<1>1. evicted' \subseteq Nodes /\ view'[Sut] = view[Sut]
  BY DEF TypeOK, All
<1>2. \A i \in Nodes \ {j} : view'[i] = view[i]
  BY DEF All
<1>3. \A i \in Nodes : view'[i] # Unknown => view'[i].inc <= nodes'[i].inc
  BY <1>2 DEF Agreement
<1>4. \A i \in Nodes \ evicted' :
         /\ view'[i] # Unknown
         /\ \/ view'[i].inc = nodes'[i].inc
            \/ i \in untold'
            \/ i \in ping'.raised /\ \E c \in ping'.changes : c.of = i /\ c.inc = nodes'[i].inc
  BY <1>2 DEF Agreement
<1>5. Agreement'
  BY <1>1, <1>3, <1>4 DEF Agreement
<1>6. Recorded'
  BY DEF Recorded
<1> QED BY <1>1, <1>5, <1>6 DEF View, All

LEMMA SutAgesInv == ASSUME IInv, NEW j \in Nodes, SutAges(j) PROVE IInv'
<1> USE SutIsNoNode DEF IInv
<1>1. view \in View
  BY DEF TypeOK, View, All
<1>2. /\ UNCHANGED <<fakes, sync, probe, accused, downOne, unseen, untold>>
      /\ view' \in View /\ \A i \in All \ {j} : view'[i] = view[i]
      /\ \/ view'[j] = Unknown /\ evicted' = evicted \cup {j}
         \/ /\ view'[j].inc = view[j].inc /\ view'[j] # Unknown /\ view[j] # Unknown
            /\ evicted' = evicted
  <2>1. CASE /\ view[j].status \in DOMAIN Older /\ view' = [view EXCEPT ![j].status = Older[@]]
             /\ UNCHANGED evicted
    <3>1. /\ view[j].status \in {"suspect", "faulty"}
          /\ Older[view[j].status] \in Statuses
      BY <2>1 DEF Older, Statuses
    <3>2. j \in All
      BY DEF All
    <3>3. view'[j].status \in Statuses /\ view'[j].inc = view[j].inc
      BY <1>1, <2>1, <3>1, <3>2 DEF View
    <3>4. view' \in View /\ \A i \in All \ {j} : view'[i] = view[i]
      BY <1>1, <2>1, <3>1, <3>2 DEF View
    <3>5. view'[j] # Unknown /\ view[j] # Unknown
      BY <3>1, <3>3 DEF Unknown, Statuses
    <3> QED BY <2>1, <3>3, <3>4, <3>5 DEF SutAges
  <2>2. CASE view' = [view EXCEPT ![j] = Unknown] /\ evicted' = evicted \cup {j}
    <3>1. view' \in View /\ view'[j] = Unknown /\ \A i \in All \ {j} : view'[i] = view[i]
      BY <1>1, <2>2 DEF View, All, Unknown
    <3> QED BY <2>2, <3>1 DEF SutAges
  <2> QED BY <2>1, <2>2 DEF SutAges
<1> HIDE DEF IInv
<1>3. /\ view' \in [Nodes \cup {Sut} -> [status: Statuses \cup {"unknown"}, inc: Nat]]
      /\ evicted' \subseteq Nodes /\ view'[Sut] = view[Sut] /\ Agreement' /\ Recorded'
  BY <1>2, SutAlone
<1> USE DEF IInv, fakes
<1>4. TypeOK'
  BY <1>2, <1>3 DEF TypeOK, MemberType
<1>5. Shapes'
  BY <1>2, <1>3 DEF Shapes
<1>6. Disabling'
  BY <1>2 DEF Disabling, DisabledUnsuspected
<1> QED BY <1>3, <1>4, <1>5, <1>6

LEMMA SutConcludesInv == ASSUME IInv, SutConcludes PROVE IInv'
<1> USE SutIsNoNode DEF IInv
<1> DEFINE j == probe.of
<1>1. view \in View /\ j \in Nodes /\ j \in All /\ ~nodes[j].enabled
  BY DEF SutConcludes, TypeOK, Shapes, Disabling, View, All
<1>2. UNCHANGED <<fakes, sync, downOne, evicted, unseen, untold>> /\ probe' = NoProbe
  BY DEF SutConcludes
<1>3. CASE probe.said = {FALSE} /\ view[j].status = "alive"
  <2>1. view' = [view EXCEPT ![j].status = "suspect"] /\ accused' = accused \cup {j} /\ downOne
    BY <1>3 DEF SutConcludes, Disabling
  <2>2. /\ view' \in View /\ \A i \in All \ {j} : view'[i] = view[i]
        /\ view'[j].inc = view[j].inc /\ view'[j].status = "suspect"
    BY <1>1, <2>1 DEF View, Statuses
  <2>3. view'[j] # Unknown /\ view[j] # Unknown
    BY <1>3, <2>2 DEF Unknown
  <2> HIDE DEF IInv
  <2>4. /\ view' \in [Nodes \cup {Sut} -> [status: Statuses \cup {"unknown"}, inc: Nat]]
        /\ evicted' \subseteq Nodes /\ view'[Sut] = view[Sut] /\ Agreement' /\ Recorded'
    BY <1>1, <1>2, <2>2, <2>3, SutAlone
  <2> USE DEF IInv, fakes, NoProbe
  <2>5. TypeOK'
    BY <1>1, <1>2, <2>1, <2>4 DEF TypeOK, MemberType
  <2>6. Shapes'
    BY <1>2, <2>4 DEF Shapes
  <2>7. Disabling'
    BY <1>1, <1>2, <2>1 DEF Disabling, DisabledUnsuspected
  <2> QED BY <2>4, <2>5, <2>6, <2>7
<1>4. CASE ~(probe.said = {FALSE} /\ view[j].status = "alive")
  <2>1. UNCHANGED <<view, accused>>
    BY <1>4 DEF SutConcludes
  <2> USE DEF fakes, NoProbe
  <2>2. TypeOK'
    BY <1>2, <2>1 DEF TypeOK, MemberType
  <2>3. Shapes' /\ Agreement'
    BY <1>2, <2>1 DEF Shapes, Agreement
  <2>4. Disabling' /\ Recorded'
    BY <1>2, <2>1 DEF Disabling, DisabledUnsuspected, Recorded
  <2> QED BY <2>2, <2>3, <2>4
<1> QED BY <1>3, <1>4

(* A change that is not ahead of the record is taken of a member that is   *)
(* known without a break only if its number is that of the record, and it  *)
(* is if the member is behind.                                             *)
LEMMA TakenAgrees ==
    ASSUME IInv, NEW c \in MemberType, NEW i \in Nodes, c.of = i, c.inc <= nodes[i].inc
    PROVE  LET new == Taken(c, view)[i]
           IN /\ new # Unknown => new.inc <= nodes[i].inc
              /\ i \notin evicted =>
                   /\ new # Unknown
                   /\ view[i].inc = nodes[i].inc => new.inc = nodes[i].inc
                   /\ c.inc = nodes[i].inc => new.inc = nodes[i].inc
<1> DEFINE told == [status |-> c.status, inc |-> c.inc]
<1>1. view \in View /\ view[i] \in [status: Statuses \cup {"unknown"}, inc: Nat]
  BY DEF IInv, TypeOK, View, All
<1>2. /\ view[i] # Unknown => view[i].inc <= nodes[i].inc
      /\ i \notin evicted => view[i] # Unknown
      /\ view[i].inc \in Nat /\ nodes[i].inc \in Nat /\ c.inc \in Nat
  BY <1>1 DEF IInv, Agreement, TypeOK, MemberType
<1>3. \/ Taken(c, view)[i] = view[i] /\ ~Overrides(c, view[i])
      \/ Overrides(c, view[i]) /\ Taken(c, view)[i] = told
  BY <1>1, TakenFacts
<1>4. told # Unknown /\ told.inc = c.inc
  BY TakenIsKnown
<1>5. /\ view[i] # Unknown /\ Overrides(c, view[i]) => c.inc >= view[i].inc
      /\ view[i] # Unknown /\ c.inc > view[i].inc => Overrides(c, view[i])
  BY <1>1, OverridesFacts
<1> HIDE DEF told
<1>6. CASE Taken(c, view)[i] = view[i] /\ ~Overrides(c, view[i])
  BY <1>2, <1>5, <1>6
<1>7. CASE Overrides(c, view[i]) /\ Taken(c, view)[i] = told
  BY <1>2, <1>4, <1>5, <1>7
<1> QED BY <1>3, <1>6, <1>7

LEMMA TheChange ==
    ASSUME IInv, NEW c \in ping.changes
    PROVE  /\ (CHOOSE change \in ping.changes : TRUE) = c /\ ping.changes # {}
           /\ c \in MemberType /\ c.of \in All
           /\ c.of \in Nodes => c.inc <= nodes[c.of].inc
BY DEF IInv, Shapes, TypeOK, Agreement, MemberType, All

LEMMA SutHandlesPingInv == ASSUME IInv, SutHandlesPing PROVE IInv'
<1> USE SutIsNoNode
<1>1. /\ ping' = NoPing /\ unseen' = (unseen \/ view'[Sut] # view[Sut])
      /\ UNCHANGED <<nodes, sutInc, stuck, probe, accused, downOne, evicted>>
      /\ untold' = untold \ Told(ping.changes)
      /\ view' = IF ping.changes = {} THEN view
                 ELSE Taken(CHOOSE change \in ping.changes : TRUE, view)
  BY DEF SutHandlesPing
<1>2. sync' = sync \/ (sync'.stage = "asked")
  BY DEF SutHandlesPing
<1>3. /\ view \in View /\ TypeOK /\ Shapes /\ Agreement /\ Disabling
  BY DEF IInv, TypeOK, View, All
<1>typed. untold' \subseteq Nodes
  BY <1>1, <1>3 DEF TypeOK
<1>4. /\ view' \in View
      /\ view'[Sut].inc >= 1 \/ view'[Sut] = view[Sut]
      /\ \A i \in Nodes :
           /\ view'[i] # Unknown => view'[i].inc <= nodes[i].inc
           /\ i \notin evicted => view'[i] # Unknown
           /\ i \notin evicted \cup untold' => view'[i].inc = nodes[i].inc
  <2>1. CASE ping.changes = {}
    <3>1. view' = view /\ untold' = untold
      BY <1>1, <2>1 DEF Told
    <3> QED BY <1>3, <2>1, <3>1 DEF Agreement
  <2>2. ASSUME NEW c \in ping.changes PROVE <1>4
    <3>1. view' = Taken(c, view) /\ c \in MemberType /\ (c.of \in Nodes => c.inc <= nodes[c.of].inc)
      BY <1>1, TheChange
    <3>2. /\ view' \in View
          /\ view'[Sut].inc >= 1 \/ view'[Sut] = view[Sut]
          /\ \A i \in Nodes : i # c.of => view'[i] = view[i]
      BY <1>3, <3>1, TakenFacts
    <3>3. ASSUME NEW i \in Nodes
          PROVE  /\ view'[i] # Unknown => view'[i].inc <= nodes[i].inc
                 /\ i \notin evicted => view'[i] # Unknown
                 /\ i \notin evicted \cup untold' => view'[i].inc = nodes[i].inc
      <4>1. \A d \in ping.changes : d = c
        BY <1>3 DEF Shapes
      <4>2. i \notin evicted =>
              /\ view[i] # Unknown
              /\ view[i].inc = nodes[i].inc \/ i \in untold \/ (c.of = i /\ c.inc = nodes[i].inc)
        BY <1>3, <4>1 DEF Agreement
      <4>3. i \in untold /\ i \notin untold' => c.of = i /\ c.inc = nodes[i].inc
        BY <1>1, <4>1 DEF Told
      <4>4. CASE c.of = i
        BY <3>1, <4>2, <4>3, <4>4, TakenAgrees
      <4>5. CASE c.of # i
        BY <1>3, <3>2, <4>2, <4>3, <4>5 DEF Agreement
      <4> QED BY <4>4, <4>5
    <3> QED BY <3>2, <3>3
  <2> QED BY <2>1, <2>2
<1>5. unseen' \in BOOLEAN
  BY <1>1, <1>3 DEF TypeOK
<1>6. TypeOK'
  BY <1>1, <1>2, <1>3, <1>4, <1>5, <1>typed DEF TypeOK, MemberType, NoPing, View, All
<1>7. Shapes'
  BY <1>1, <1>2, <1>3, <1>4 DEF Shapes, NoPing
<1>8. unseen' \/ view'[Sut].inc = sutInc'
  BY <1>1, <1>3 DEF Agreement
<1>9. Agreement'
  BY <1>1, <1>2, <1>3, <1>4, <1>8 DEF Agreement, NoPing
<1>10. Disabling' /\ Recorded'
  BY <1>1, <1>3 DEF Disabling, DisabledUnsuspected, Recorded, NoPing
<1> QED BY <1>6, <1>7, <1>9, <1>10 DEF IInv

(* A ping that is not sent leaves its number on record, untold.            *)
LEMMA PingNotSentInv == ASSUME IInv, PingNotSent PROVE IInv'
<1> USE SutIsNoNode DEF IInv, sut
<1>1. /\ ping' = NoPing /\ ping'.changes = {} /\ ping'.raised = {} /\ ping'.isRecorded = FALSE
      /\ untold' = untold \cup ping.raised
      /\ UNCHANGED <<nodes, sutInc, stuck, sut, accused, downOne, evicted, unseen>>
  BY DEF PingNotSent, NoPing
<1>2. untold' \subseteq Nodes
  BY <1>1 DEF TypeOK
<1>3. TypeOK'
  BY <1>1, <1>2 DEF TypeOK, MemberType, NoPing
<1>4. Shapes'
  BY <1>1 DEF Shapes
<1>5. Agreement'
  BY <1>1 DEF Agreement
<1>6. Disabling' /\ Recorded'
  BY <1>1 DEF Disabling, DisabledUnsuspected, Recorded
<1> QED BY <1>3, <1>4, <1>5, <1>6

LEMMA RequestFailsInv == ASSUME IInv, RequestFails PROVE IInv'
<1> USE DEF IInv, RequestFails, sut, past
<1>1. TypeOK'
  BY DEF TypeOK, MemberType
<1>2. Shapes' /\ Agreement'
  BY DEF Shapes, Agreement
<1>3. Disabling' /\ Recorded'
  BY DEF Disabling, DisabledUnsuspected, Recorded
<1> QED BY <1>1, <1>2, <1>3

LEMMA SutTakesMembersInv == ASSUME IInv, SutTakesMembers PROVE IInv'
<1> USE SutIsNoNode
<1> DEFINE Change(i) == CHOOSE m \in sync.members : m.of = i
<1>1. /\ UNCHANGED <<nodes, sutInc, ping, stuck, probe, accused, downOne, evicted, unseen>>
      /\ untold' = untold \ Told(sync.members)
      /\ sync' = NoSync /\ sync.stage = "answered"
      /\ view' = [i \in All |-> Taken(Change(i), view)[i]]
  BY DEF SutTakesMembers, fakes, past, All
<1>2. /\ view \in View /\ TypeOK /\ Shapes /\ Agreement /\ Disabling /\ Recorded
  BY DEF IInv, TypeOK, View, All
<1>3. \A i \in All : Change(i) \in sync.members /\ Change(i).of = i
  BY <1>1, <1>2 DEF Shapes
<1>4. \A i \in All : Change(i) \in MemberType
  BY <1>1, <1>2, <1>3 DEF TypeOK
<1>5. /\ \A i \in Nodes : Change(i).inc <= nodes[i].inc
      /\ Change(Sut).status = "alive"
  BY <1>1, <1>2, <1>3 DEF Agreement, All
<1> HIDE DEF Change
<1>6. \A i \in All : view'[i] = Taken(Change(i), view)[i]
  BY <1>1
<1>7. view' \in View
  <2>1. \A i \in All : Taken(Change(i), view) \in View
    BY <1>2, <1>4, TakenFacts
  <2>2. \A i \in All : view'[i] \in [status: Statuses \cup {"unknown"}, inc: Nat]
    BY <1>6, <2>1 DEF View
  <2> QED BY <1>1, <2>2 DEF View
<1>8. view'[Sut] = view[Sut]
  <2>1. Sut \in All /\ Change(Sut) \in MemberType
    BY <1>4 DEF All
  <2>2. Taken(Change(Sut), view)[Sut] = view[Sut]
    BY <1>2, <1>5, <2>1, TakenFacts
  <2> QED BY <1>6, <2>1, <2>2
<1>9. ASSUME NEW i \in Nodes
      PROVE  /\ view'[i] # Unknown => view'[i].inc <= nodes[i].inc
             /\ i \notin evicted => view'[i] # Unknown
             /\ i \notin evicted /\ view[i].inc = nodes[i].inc => view'[i].inc = nodes[i].inc
             /\ i \notin evicted /\ Change(i).inc = nodes[i].inc => view'[i].inc = nodes[i].inc
  BY <1>3, <1>4, <1>5, <1>6, TakenAgrees DEF All
<1>told. ASSUME NEW i \in Nodes, i \in untold, i \notin untold'
       PROVE  Change(i).inc = nodes[i].inc
  <2>1. PICK m \in sync.members : m.of = i /\ m.inc = nodes[i].inc
    BY <1>1, <1>told DEF Told
  <2>2. m = Change(i)
    BY <1>1, <1>2, <1>3, <2>1 DEF Shapes, All
  <2> QED BY <2>1, <2>2
<1>typed. untold' \subseteq Nodes
  BY <1>1, <1>2 DEF TypeOK
<1>10. TypeOK'
  BY <1>1, <1>2, <1>7, <1>typed DEF TypeOK, MemberType, NoSync, View, All
<1>11. Shapes'
  BY <1>1, <1>2, <1>8 DEF Shapes, NoSync
<1>12. Agreement'
  BY <1>1, <1>2, <1>8, <1>9, <1>told DEF Agreement, NoSync
<1>13. Disabling' /\ Recorded'
  BY <1>1, <1>2 DEF Disabling, DisabledUnsuspected, Recorded
<1> QED BY <1>10, <1>11, <1>12, <1>13 DEF IInv

----------------------------------------------------------------------------
(* The theorems.                                                           *)

LEMMA NextIInv == ASSUME IInv, [Next]_vars PROVE IInv'
<1>1. CASE UNCHANGED vars
  <2> USE <1>1 DEF vars, fakes, sut, past, IInv
  <2>1. TypeOK'
    BY DEF TypeOK, MemberType
  <2>2. Shapes' /\ Agreement'
    BY DEF Shapes, Agreement
  <2>3. Disabling'
    BY DEF Disabling, DisabledUnsuspected
  <2>4. Recorded'
    BY DEF Recorded
  <2> QED BY <2>1, <2>2, <2>3, <2>4
<1>2. CASE Closures
  BY <1>2, SendPingInv, ChangeStatusInv, SendPingAloneInv, SendPingOfSutInv, AssertBumpedInv,
     DisableAllInv, DisableNodeInv DEF Closures
<1>fails. CASE Failures
  BY <1>fails, PingNotSentInv, RequestFailsInv DEF Failures
<1>3. CASE JoinHandler
  BY <1>3, JoinHandlerInv
<1>4. CASE SutSteps
  BY <1>4, SutHandlesPingInv, SutTakesMembersInv, SyncFailsInv, SutConcludesInv, SutPingFailsInv,
     SutAsksInv, SutAgesInv DEF SutSteps
<1> QED BY <1>1, <1>2, <1>3, <1>4, <1>fails DEF Next

LEMMA Invariance == Spec => []IInv
<1>1. IInv /\ [Next]_vars => IInv'
  BY NextIInv
<1> QED BY <1>1, InitIInv, PTL DEF Spec

(* The variables keep their types.                                         *)
THEOREM TypeCorrect == Spec => []TypeOK
<1>1. IInv => TypeOK
  BY DEF IInv
<1> QED BY <1>1, Invariance, PTL

(* What assertStats expects of the incarnation numbers is what the SUT has *)
(* (sendPing and changeStatus, ringpop-assert.js), but for the nodes whose *)
(* number was recorded for a ping that was never sent (requestPing,        *)
(* fake-node.js) and that no ping or full sync has told the SUT since.     *)
THEOREM NumbersKept == Spec => []NumbersAgree
<1>1. IInv => NumbersAgree
  <2> SUFFICES ASSUME IInv PROVE NumbersAgree
    OBVIOUS
  <2>1. ping = NoPing => ping.changes = {}
    BY DEF NoPing
  <2> QED BY <2>1 DEF IInv, Agreement, NumbersAgree
<1> QED BY <1>1, Invariance, PTL

(* Nodes that disableAllNodesPing has disabled are not found to be suspect *)
(* (pingReqHandler, fake-node.js).                                         *)
THEOREM DisabledStayUnsuspected == Spec => []DisabledUnsuspected
<1>1. IInv => DisabledUnsuspected
  BY DEF IInv, Disabling
<1> QED BY <1>1, Invariance, PTL

(* The SUT's list with a member changed is the list with it replaced.      *)
LEMMA OneMemberTaken ==
    ASSUME NEW known \in View, NEW new \in View, NEW c \in MemberType, c.of \in Nodes,
           new[c.of] = [status |-> c.status, inc |-> c.inc],
           \A i \in All \ {c.of} : new[i] = known[i]
    PROVE  SutMembers(new) = {m \in SutMembers(known) : m.of # c.of} \cup {c}
<1> USE DEF Member
<1>1. c.of \in All /\ new[c.of] # Unknown /\ All = Nodes \cup {Sut}
  BY TakenIsKnown DEF All
<1>2. c = Member(c.of, new[c.of].status, new[c.of].inc)
  BY DEF MemberType
<1>3. c \in SutMembers(new)
  BY <1>1, <1>2 DEF SutMembers
<1>4. ASSUME NEW m \in SutMembers(new), m # c
      PROVE  m \in SutMembers(known) /\ m.of # c.of
  <2>1. PICK i \in All : new[i] # Unknown /\ m = Member(i, new[i].status, new[i].inc)
    BY <1>1 DEF SutMembers
  <2>2. i # c.of
    BY <1>2, <1>4, <2>1
  <2>3. m = Member(i, known[i].status, known[i].inc) /\ known[i] # Unknown
    BY <2>1, <2>2
  <2>4. m.of = i
    BY <2>1
  <2> QED BY <1>1, <2>2, <2>3, <2>4 DEF SutMembers
<1>5. ASSUME NEW m \in SutMembers(known), m.of # c.of
      PROVE  m \in SutMembers(new)
  <2>1. PICK i \in All : known[i] # Unknown /\ m = Member(i, known[i].status, known[i].inc)
    BY <1>1 DEF SutMembers
  <2>2. i # c.of
    BY <1>5, <2>1
  <2>3. m = Member(i, new[i].status, new[i].inc) /\ new[i] # Unknown
    BY <2>1, <2>2
  <2> QED BY <1>1, <2>3 DEF SutMembers
<1> QED BY <1>3, <1>4, <1>5

LEMMA ChangeTaken ==
    ASSUME IInv, SutHandlesPing, NEW c \in ping.changes, ping.isRecorded,
           c.inc = nodes[c.of].inc, Overrides(c, view[c.of]),
           ping.before = Checksum(SutMembers(view))
    PROVE  ping.sum = Checksum(SutMembers(view'))
<1> USE SutIsNoNode
<1>1. /\ c \in MemberType /\ ping.changes # {}
      /\ (CHOOSE change \in ping.changes : TRUE) = c
  BY TheChange
<1>2. /\ c.of \in Nodes
      /\ ping.sum = Checksum({m \in ping.before : m.of # c.of} \cup {c})
  BY DEF IInv, Recorded
<1>3. view \in View /\ view' = Taken(c, view)
  BY <1>1 DEF IInv, TypeOK, View, All, SutHandlesPing
<1>4. /\ view' \in View
      /\ view'[c.of] = [status |-> c.status, inc |-> c.inc]
      /\ \A i \in Nodes \ {c.of} : view'[i] = view[i]
      /\ view'[Sut] = view[Sut]
  BY <1>1, <1>2, <1>3, TakenFacts
<1>5. \A i \in All \ {c.of} : view'[i] = view[i]
  BY <1>4 DEF All
<1>6. SutMembers(view') = {m \in SutMembers(view) : m.of # c.of} \cup {c}
  BY <1>1, <1>2, <1>3, <1>4, <1>5, OneMemberTaken
<1>7. Checksum({m \in SutMembers(view) : m.of # c.of} \cup {c}) =
        Checksum({m \in Checksum(SutMembers(view)) : m.of # c.of} \cup {c})
  BY DEF Checksum
<1> QED BY <1>2, <1>6, <1>7

(* A changeStatus that the SUT takes sets off no full sync by itself       *)
(* (the order of change and checksum in changeStatus and sendPing).        *)
THEOREM ChangesStayInSync == Spec => ChangeKeepsInSync
<1>1. IInv /\ [Next]_vars =>
        [\A change \in ping.changes :
           (/\ SutHandlesPing /\ ping.isRecorded
            /\ change.inc = nodes[change.of].inc /\ Overrides(change, view[change.of])
            /\ ping.before = Checksum(SutMembers(view)))
              => ping.sum = Checksum(SutMembers(view'))]_vars
  BY ChangeTaken
<1> QED BY <1>1, Invariance, PTL DEF Spec, ChangeKeepsInSync
==============================================================================
