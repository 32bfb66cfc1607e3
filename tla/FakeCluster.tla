------------------------------ MODULE FakeCluster -----------------------------
(***************************************************************************)
(* The cluster that the integration tests play to the system under test    *)
(* (SUT): the fake nodes with their statuses and incarnation numbers, the  *)
(* changes that piggyback() puts on their pings, the checksum they send    *)
(* with them, the answers to the SUT's pings, ping-reqs and joins, and the *)
(* coordinator's record of the SUT's own incarnation number.  A scheme     *)
(* waits for the answer to its ping before the next closure, goes on       *)
(* without one when the ping could not be sent, and stops when it was sent *)
(* and its request fails.                                                  *)
(*                                                                         *)
(* External: the SUT.  It takes changes by the SWIM rules that the tests   *)
(* ask of it, probes members by ping and ping-req, ages suspects, and may  *)
(* answer a ping with a checksum other than its own by a join to its       *)
(* sender (the bidirectional full sync).                                   *)
(*                                                                         *)
(* A checksum stands for the members it is computed from: it leaves out    *)
(* tombstones and does not depend on their order, and the collisions of    *)
(* the hash are not modelled.  Labels are not modelled.                    *)
(***************************************************************************)
EXTENDS Integers

CONSTANTS
    Nodes,    \* the fake nodes
    Sut,      \* the system under test
    MaxInc,   \* bound: incarnation numbers that are reached (the first is 1)
    MaxPings  \* bound: closures of the scheme that send a ping

ASSUME FakeAssumption == Sut \notin Nodes /\ MaxInc \in Nat \ {0} /\ MaxPings \in Nat

VARIABLES
    nodes,     \* fakeNodes: status, incarnation number, enabled, listening
    sutInc,    \* test_state['sutIncarnationNumber']
    ping,      \* the ping of the scheme's closure under way
    stuck,     \* the request of the ping has failed: its closure never calls back
    view,      \* external: the members that the SUT knows
    sync,      \* external: a reverse full sync of the SUT
    probe,     \* external: the SUT's probe of a member that did not answer a ping
    accused,   \* history: the members that the SUT itself found to be suspect
    downOne,   \* history: a single node was disabled
    evicted,   \* history: the members the SUT has evicted
    unseen,    \* history: the SUT has a new number that no closure has read
    untold,    \* history: the nodes with a number on record that no ping has told the SUT
    sent       \* history: how many closures have sent a ping

fakes == <<nodes, sutInc, ping, stuck>>
sut   == <<view, sync, probe>>
past  == <<accused, downOne, evicted, unseen, untold>>
vars  == <<fakes, sut, past, sent>>

Deltas   == {-1, 0, 1}   \* the tests' values of subjectIncNoDelta, by sign
Statuses == {"alive", "suspect", "faulty", "tombstone"}

Member(of, status, inc) == [of |-> of, status |-> status, inc |-> inc]

Unknown == [status |-> "unknown", inc |-> 0]
NoPing  == [from |-> Sut, changes |-> {}, raised |-> {}, sum |-> {}, before |-> {},
            isRecorded |-> FALSE]
NoSync  == [stage |-> "none"]
NoProbe == [of |-> Sut, asked |-> {}, said |-> {}]

(* The SUT has joined, and waitForJoins has read its number.               *)
Init ==
    /\ nodes = [i \in Nodes |-> [status |-> "alive", inc |-> 1, enabled |-> TRUE, open |-> TRUE]]
    /\ sutInc = 1
    /\ ping = NoPing /\ stuck = FALSE
    /\ view = [i \in Nodes \cup {Sut} |-> [status |-> "alive", inc |-> 1]]
    /\ sync = NoSync /\ probe = NoProbe
    /\ accused = {} /\ downOne = FALSE /\ evicted = {} /\ unseen = FALSE
    /\ untold = {}
    /\ sent = 0

----------------------------------------------------------------------------
(* The checksum of a membership list.                                      *)

Checksum(members) == {m \in members : m.status # "tombstone"}

(* The coordinator's list: the fake nodes and the SUT, always alive.       *)
Members(cluster) ==
    {Member(i, cluster[i].status, cluster[i].inc) : i \in Nodes}
      \cup {Member(Sut, "alive", sutInc)}

SutMembers(known) ==
    {Member(i, known[i].status, known[i].inc) :
        i \in {j \in Nodes \cup {Sut} : known[j] # Unknown}}

----------------------------------------------------------------------------
(* External: what the SUT does with a change.                              *)

Rank == [unknown |-> 0, alive |-> 1, suspect |-> 2, faulty |-> 3, tombstone |-> 4]

(* A higher number wins, then the worse status; a tombstone is not taken   *)
(* of a member that is not known.                                          *)
Overrides(change, known) ==
    IF known = Unknown THEN change.status # "tombstone"
    ELSE \/ change.inc > known.inc
         \/ change.inc = known.inc /\ Rank[change.status] > Rank[known.status]

(* The SUT refutes what is said of itself with a new number.               *)
Refutes(change, known) ==
    change.of = Sut /\ change.status # "alive" /\ change.inc >= known[Sut].inc

Taken(change, known) ==
    IF Refutes(change, known)
    THEN [known EXCEPT ![Sut].inc = change.inc + 1]
    ELSE IF change.of # Sut /\ Overrides(change, known[change.of])
    THEN [known EXCEPT ![change.of] = [status |-> change.status, inc |-> change.inc]]
    ELSE known

----------------------------------------------------------------------------
(* Closures that send a ping.                                              *)

(* Mutant: the number is sent and not recorded.                            *)
BumpedOnWire(cluster, subject, delta) == cluster

(* Mutant: a lower number is recorded, too.                                *)
BumpedAlways(cluster, subject, delta) == [cluster EXCEPT ![subject].inc = @ + delta]

(* piggyback() records a higher number with the node.                      *)
Bumped(cluster, subject, delta) ==
    IF delta > 0 THEN [cluster EXCEPT ![subject].inc = @ + delta] ELSE cluster

(* Mutant: the checksum is computed before the change is made.             *)
PingWithOldSum(from, changes, raised, after, isRecorded) ==
    [from |-> from, changes |-> changes, raised |-> raised, sum |-> Checksum(Members(nodes)),
     before |-> Checksum(Members(nodes)), isRecorded |-> isRecorded]

(* A ping with the changes of piggyback(), none or one; in its history are *)
(* the nodes whose number on record it has raised, and the checksum before *)
(* the closure ran.                                                        *)
Ping(from, changes, raised, after, isRecorded) ==
    [from |-> from, changes |-> changes, raised |-> raised, sum |-> Checksum(Members(after)),
     before |-> Checksum(Members(nodes)), isRecorded |-> isRecorded]

(* The scheme runs one closure at a time.                                  *)
Rests == ping = NoPing /\ ~stuck

MaySend(from) ==
    /\ Rests /\ nodes[from].open
    /\ sent < MaxPings /\ sent' = sent + 1

Sends(from, subject, status, delta, cluster, isRecorded) ==
    /\ MaySend(from)
    /\ nodes[subject].inc + delta <= MaxInc
    /\ nodes' = Bumped(cluster, subject, delta)
    /\ ping' = Ping(from, {Member(subject, status, nodes[subject].inc + delta)},
                    IF delta > 0 THEN {subject} ELSE {}, nodes', isRecorded)
    /\ UNCHANGED <<sutInc, stuck, sut, past>>

SendPing(from, subject, status, delta) ==
    Sends(from, subject, status, delta, nodes, FALSE)

(* The status is recorded whether the SUT will take it or not.             *)
ChangeStatus(from, subject, status, delta) ==
    Sends(from, subject, status, delta, [nodes EXCEPT ![subject].status = status], TRUE)

(* The number of the SUT is the one on record.                             *)
SendPingOfSut(from, status, delta) ==
    /\ MaySend(from)
    /\ delta <= 0 /\ view[Sut].inc < MaxInc
    /\ ping' = Ping(from, {Member(Sut, status, sutInc + delta)}, {}, nodes, FALSE)
    /\ UNCHANGED <<nodes, sutInc, stuck, sut, past>>

SendPingAlone(from) ==
    /\ MaySend(from)
    /\ ping' = Ping(from, {}, {}, nodes, FALSE)
    /\ UNCHANGED <<nodes, sutInc, stuck, sut, past>>

(* waitForIdentified fails: the closure is called back with the error,     *)
(* ignores it and goes on, and what it has recorded stays on record.       *)
PingNotSent ==
    /\ ping # NoPing /\ ~stuck
    /\ ping' = NoPing
    /\ untold' = untold \cup ping.raised
    /\ UNCHANGED <<nodes, sutInc, stuck, sut, accused, downOne, evicted, unseen, sent>>

(* The request fails or times out, before the SUT has handled the ping or  *)
(* after (its response is then lost): the error is logged, and the closure *)
(* is not called back.                                                     *)
RequestFails ==
    /\ ping # NoPing /\ ~stuck
    /\ stuck' = TRUE
    /\ UNCHANGED <<nodes, sutInc, ping, sut, past, sent>>

(* The nodes whose number on record is among the changes.                  *)
Told(changes) ==
    {c.of : c \in {d \in changes : d.of \in Nodes /\ d.inc = nodes[d.of].inc}}

(* External: the SUT takes the changes, compares its checksum with the     *)
(* ping's, may ask the sender for its members, and responds.               *)
SutHandlesPing ==
    /\ ping # NoPing
    /\ view' = IF ping.changes = {} THEN view
               ELSE Taken(CHOOSE change \in ping.changes : TRUE, view)
    /\ unseen' = (unseen \/ view'[Sut] # view[Sut])
    /\ untold' = untold \ Told(ping.changes)
    /\ ping' = NoPing
    /\ sync' \in {sync} \cup
         IF sync = NoSync /\ ping.sum # Checksum(SutMembers(view'))
         THEN {[stage |-> "asked", to |-> ping.from]} ELSE {}
    /\ UNCHANGED <<nodes, sutInc, stuck, probe, accused, downOne, evicted, sent>>

----------------------------------------------------------------------------
(* The other closures.                                                     *)

(* Mutant: the number on record is not replaced.                           *)
AssertBumpedOnly ==
    /\ Rests
    /\ unseen' = FALSE
    /\ UNCHANGED <<fakes, sut, accused, downOne, evicted, untold, sent>>

(* assertBumpedIncarnationNumber reads the SUT's number from its stats,    *)
(* whether it has changed or not.                                          *)
AssertBumped ==
    /\ Rests
    /\ sutInc' = view[Sut].inc
    /\ unseen' = FALSE
    /\ UNCHANGED <<nodes, ping, stuck, sut, accused, downOne, evicted, untold, sent>>

Disabled(node) == [node EXCEPT !.enabled = FALSE]
ShutDown(node) == [node EXCEPT !.enabled = FALSE, !.open = FALSE]

(* disableAllNodesPing: no ping or ping-req comes in between.              *)
DisableAllNodesPing ==
    /\ Rests
    /\ nodes' = [i \in Nodes |-> Disabled(nodes[i])]
    /\ UNCHANGED <<sutInc, ping, stuck, sut, past, sent>>

DisableNode(i) ==
    /\ Rests
    /\ nodes' = [nodes EXCEPT ![i] = ShutDown(@)]
    /\ downOne' = TRUE
    /\ UNCHANGED <<sutInc, ping, stuck, sut, accused, evicted, unseen, untold, sent>>

----------------------------------------------------------------------------
(* The handlers of a fake node.                                            *)

(* pingHandler: whether there is a response.                               *)
Answers(i) == nodes[i].open /\ nodes[i].enabled

(* Mutant: a disabled node answers ping-reqs.                              *)
PingReqAnswerAnyway(i, target) == {nodes[target].enabled}

(* pingReqHandler: the pingStatus of the response, none if it is disabled. *)
PingReqAnswer(i, target) ==
    IF Answers(i) THEN {nodes[target].enabled} ELSE {}

(* joinHandler: a disabled node answers, too, with the coordinator's list. *)
JoinHandler ==
    /\ sync.stage = "asked" /\ nodes[sync.to].open
    /\ sync' = [stage |-> "answered", members |-> Members(nodes)]
    /\ UNCHANGED <<fakes, view, probe, past, sent>>

----------------------------------------------------------------------------
(* External: what the SUT does by itself.                                  *)

SutTakesMembers ==
    /\ sync.stage = "answered"
    /\ view' = [i \in Nodes \cup {Sut} |->
                  LET change == CHOOSE m \in sync.members : m.of = i
                  IN Taken(change, view)[i]]
    /\ untold' = untold \ Told(sync.members)
    /\ sync' = NoSync
    /\ UNCHANGED <<fakes, probe, accused, downOne, evicted, unseen, sent>>

SyncFails ==
    /\ sync.stage = "asked" /\ ~nodes[sync.to].open
    /\ sync' = NoSync
    /\ UNCHANGED <<fakes, view, probe, past, sent>>

(* No response to a ping to a member that is alive or suspect.             *)
SutPingFails(i) ==
    /\ probe = NoProbe /\ view[i].status \in {"alive", "suspect"} /\ ~Answers(i)
    /\ probe' = [of |-> i, asked |-> {}, said |-> {}]
    /\ UNCHANGED <<fakes, view, sync, past, sent>>

SutAsks(k) ==
    /\ probe # NoProbe /\ k \notin probe.asked \cup {probe.of}
    /\ probe' = [probe EXCEPT !.asked = @ \cup {k},
                              !.said  = @ \cup PingReqAnswer(k, probe.of)]
    /\ UNCHANGED <<fakes, view, sync, past, sent>>

(* Suspect if a ping-req was answered and none found the member alive.     *)
SutConcludes ==
    /\ probe # NoProbe /\ probe.asked = Nodes \ {probe.of}
    /\ IF probe.said = {FALSE} /\ view[probe.of].status = "alive"
       THEN /\ view' = [view EXCEPT ![probe.of].status = "suspect"]
            /\ accused' = accused \cup {probe.of}
       ELSE UNCHANGED <<view, accused>>
    /\ probe' = NoProbe
    /\ UNCHANGED <<fakes, sync, downOne, evicted, unseen, untold, sent>>

Older == [suspect |-> "faulty", faulty |-> "tombstone"]

(* The periods of 5 seconds; a tombstone is evicted at the end of its own. *)
SutAges(i) ==
    /\ \/ /\ view[i].status \in DOMAIN Older
          /\ view' = [view EXCEPT ![i].status = Older[@]]
          /\ UNCHANGED evicted
       \/ /\ view[i].status = "tombstone"
          /\ view' = [view EXCEPT ![i] = Unknown]
          /\ evicted' = evicted \cup {i}
    /\ UNCHANGED <<fakes, sync, probe, accused, downOne, unseen, untold, sent>>

----------------------------------------------------------------------------
Closures ==
    \/ \E from, subject \in Nodes, status \in Statuses, delta \in Deltas :
         SendPing(from, subject, status, delta) \/ ChangeStatus(from, subject, status, delta)
    \/ \E from \in Nodes :
         \/ SendPingAlone(from)
         \/ \E status \in Statuses, delta \in Deltas : SendPingOfSut(from, status, delta)
    \/ AssertBumped \/ DisableAllNodesPing
    \/ \E i \in Nodes : DisableNode(i)

SutSteps ==
    \/ SutHandlesPing \/ SutTakesMembers \/ SyncFails \/ SutConcludes
    \/ \E i \in Nodes : SutPingFails(i) \/ SutAsks(i) \/ SutAges(i)

(* What becomes of a ping that the SUT does not answer.                    *)
Failures == PingNotSent \/ RequestFails

Next == Closures \/ Failures \/ JoinHandler \/ SutSteps

Spec == Init /\ [][Next]_vars

----------------------------------------------------------------------------
(* Type invariant.                                                         *)
MemberType == [of: Nodes \cup {Sut}, status: Statuses, inc: Nat]

TypeOK ==
    /\ nodes \in [Nodes -> [status: Statuses, inc: Nat, enabled: BOOLEAN, open: BOOLEAN]]
    /\ sutInc \in Nat
    /\ ping \in [from: Nodes \cup {Sut}, changes: SUBSET MemberType, raised: SUBSET Nodes,
                 sum: SUBSET MemberType, before: SUBSET MemberType, isRecorded: BOOLEAN]
    /\ stuck \in BOOLEAN
    /\ view \in [Nodes \cup {Sut} -> [status: Statuses \cup {"unknown"}, inc: Nat]]
    /\ sync.stage = "answered" => sync.members \in SUBSET MemberType
    /\ probe \in [of: Nodes \cup {Sut}, asked: SUBSET Nodes, said: SUBSET BOOLEAN]
    /\ accused \subseteq Nodes /\ downOne \in BOOLEAN
    /\ evicted \subseteq Nodes /\ unseen \in BOOLEAN /\ untold \subseteq Nodes

(* Between two closures the incarnation numbers that assertStats expects   *)
(* are those of the SUT: a change that the SUT ignores moves neither,      *)
(* nothing the fake nodes answer is ahead of the record, and a number that *)
(* was recorded for a ping that could not be sent is made good by the next *)
(* ping about the node or full sync that the SUT takes.  Until then the    *)
(* node is left out; and so are evicted members (an old change brings them *)
(* back with an old number), and the SUT's own number until a closure has  *)
(* read a new one.                                                         *)
NumbersAgree ==
    /\ \A i \in Nodes : view[i] # Unknown => view[i].inc <= nodes[i].inc
    /\ ping = NoPing =>
         /\ \A i \in Nodes \ (evicted \cup untold) : view[i].inc = nodes[i].inc
         /\ unseen \/ view[Sut].inc = sutInc

(* Where the SUT and the coordinator had the same checksum, they have the  *)
(* same again when the SUT has handled a changeStatus that it takes, with  *)
(* the number on record: the change alone sets off no full sync.  (With a  *)
(* lower number it is only taken of a member that was evicted.)            *)
ChangeKeepsInSync ==
    [][\A change \in ping.changes :
         (/\ SutHandlesPing /\ ping.isRecorded
          /\ change.inc = nodes[change.of].inc /\ Overrides(change, view[change.of])
          /\ ping.before = Checksum(SutMembers(view)))
            => ping.sum = Checksum(SutMembers(view'))]_vars

(* "we disable ping and ping-req in all Fake nodes, so that R can never    *)
(* perform a successful indirect health check itself" (ping-req-tests.js): *)
(* disabled all at once, no fake node is found to be suspect; and the SUT  *)
(* never finds so one that answers.                                        *)
DisabledUnsuspected ==
    /\ accused # {} => downOne
    /\ \A i \in accused : ~nodes[i].enabled
=============================================================================
