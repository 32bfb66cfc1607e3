--------------------------- MODULE SchemeContract ---------------------------
(***************************************************************************)
(* What the comment above validate() (test/ringpop-assert.js, 938-958)     *)
(* promises of a scheme of N functions: they run one after the other, each *)
(* goes on by yielding a subset of the list it was given, what it discards *)
(* is not seen again, and the test is a success when all of them have run. *)
(***************************************************************************)
EXTENDS Naturals

CONSTANT N   \* the number of functions

VARIABLES
    ran,      \* how many functions have yielded
    seen,     \* how many events were received
    live,     \* the events that no function has discarded
    verdict

contractVars == <<ran, seen, live, verdict>>

ContractInit == ran = 0 /\ seen = 0 /\ live = {} /\ verdict = "running"

Receive ==
    /\ verdict = "running"
    /\ seen' = seen + 1 /\ live' = live \cup {seen + 1}
    /\ UNCHANGED <<ran, verdict>>

(* A function may discard events before it yields (it edits the list).     *)
Discard ==
    /\ live' \subseteq live
    /\ UNCHANGED <<ran, seen, verdict>>

Yield ==
    /\ ran < N
    /\ ran' = ran + 1 /\ live' \subseteq live
    /\ UNCHANGED <<seen, verdict>>

Succeed ==
    /\ verdict = "running" /\ ran = N
    /\ verdict' = "passed"
    /\ UNCHANGED <<ran, seen, live>>

GiveUp ==
    /\ verdict = "running"
    /\ verdict' \in {"timeout", "crash"}
    /\ UNCHANGED <<ran, seen, live>>

ContractNext == Receive \/ Discard \/ Yield \/ Succeed \/ GiveUp

ContractSpec == ContractInit /\ [][ContractNext]_contractVars
=============================================================================
