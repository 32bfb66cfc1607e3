--------------------------- MODULE MCStatIngester ---------------------------
EXTENDS StatIngester

Cluster(up) == [cmd |-> "cluster", up |-> up]
Wait == [cmd |-> "wait-for-stable"]

(* Two hosts; one of them is killed, and then restarted.                   *)
KillAndStart == <<Cluster({"h1"}), Wait, Cluster({"h1", "h2"}), Wait>>

(* Two commands that leave every host up, e.g. network-drop.               *)
TwoDrops == <<Cluster({"h1", "h2"}), Wait, Cluster({"h1", "h2"}), Wait>>
=============================================================================
