--------------------------- MODULE MCSchemeRunner ---------------------------
(* Schemes of the repository's tests, with the kinds of event they name.   *)
EXTENDS SchemeRunner

Look(op, accept) == [op |-> op, accept |-> accept]
Plain(op) == [op |-> op]
Gather(kind, n) ==
    [op |-> "gather", accept |-> {kind}, want |-> {kind}, n |-> n, exact |-> TRUE]

(* The request functions: fake-node.js and test-coordinator.js.            *)
SendPing(reply) == [op |-> "request", reply |-> reply, once |-> TRUE, eventFirst |-> TRUE,
                    onError |-> {"silent", "callback"}]
SendJoin(reply) == [op |-> "request", reply |-> reply, once |-> TRUE, eventFirst |-> FALSE,
                    onError |-> {"callback"}]
Admin(reply, once) == [op |-> "request", reply |-> reply, once |-> once,
                       eventFirst |-> FALSE, onError |-> {"silent"}]

AllTypes == {"ping", "pingReq", "join", "suspects", "pingRes", "joinRes", "stats", "admin"}

(* A ping whose body lists the expected suspects is a kind of its own.     *)
Pings == {"ping", "suspects"}

(* Every kind of closure but multi, in the order of prepareCluster around  *)
(* the ping, healing, gossip-stop and self-eviction tests (test-util.js    *)
(* 121-145, partition-healing-tests.js 43-74, self-eviction-tests.js).     *)
TestScheme == <<Look("peek", Pings), Gather("join", 1), Admin("admin", FALSE),
                Look("take", {"admin"}), Plain("sync"), SendPing("pingRes"),
                [op |-> "sift", accept |-> Pings, want |-> {"suspects"}],
                Look("take", {"pingRes"}), SendJoin("joinRes"), Look("take", {"joinRes"}),
                Plain("wait"),
                [op |-> "splice", accept |-> Pings, want |-> {"suspects"}],
                Look("drop", Pings), Plain("exit"), Look("only", Pings \cup {"pingReq"})>>
TestRequests == {"ping", "join", "suspects"}

(* prepareCluster around a ping: test-util.js, ping-tests.js.              *)
PingScheme == <<Look("peek", {"ping"}), Gather("join", 1), Admin("stats", TRUE),
                Look("take", {"stats"}), SendPing("pingRes"), Look("take", {"pingRes"}),
                Look("only", {"ping", "pingReq"})>>
PingRequests == {"ping", "join"}

(* The merge of partitions: partition-healing-tests.js, 219-251.           *)
MergeScheme == <<Look("drop", {"ping"}), Admin("admin", FALSE), Look("take", {"admin"}),
                 Gather("join", 1), Look("multi", {"ping"}), Plain("sync"), Admin("stats", TRUE),
                 Look("take", {"stats"}), Look("only", {"ping"})>>
MergeRequests == {"ping", "join"}
=============================================================================
