----------------------------- MODULE TickPrompt ------------------------------
(***************************************************************************)
(* The keyboard of tools/tick-cluster.js on top of the process control of  *)
(* TickCluster: onData with its prompts for a count and for a flag, and    *)
(* the commands that are sent to every host, each with a callback per host *)
(* that counts the answers and prints one summary after the last of them.  *)
(* An answer that cannot be read throws in its callback and takes the tool *)
(* down.  Several of these commands may be under way.                      *)
(*                                                                         *)
(* External: the hosts, that answer in any order, with an error or after a *)
(* timeout (4 seconds; send), but each of them once.                       *)
(***************************************************************************)
EXTENDS Naturals, Sequences, FiniteSets, SequencesExt

CONSTANTS
    N, MaxPids, MaxExits,   \* of TickCluster
    Digits,                 \* the digits that are typed
    MaxDigits,              \* bound: digits typed at one prompt
    MaxCalls                \* bound: commands sent to the hosts in all

ASSUME PromptAssumption ==
    /\ N \in Nat \ {0} /\ MaxPids \in Nat /\ MaxExits \in Nat
    /\ Digits \subseteq 0..9 /\ MaxDigits \in Nat /\ MaxCalls \in Nat

VARIABLES
    procs, os, slot, hardKill, onExit, quitting, tool, exits,   \* of TickCluster
    state, func, num,   \* the variables of onData
    calls,              \* the commands sent to the hosts, with what their callbacks hold
    typed,              \* history: the prompt that was opened and the digits typed since
    quits               \* history: how many of the last keys were q or control-c

table  == <<procs, os, slot, hardKill, onExit, quitting, tool, exits>>
prompt == <<state, func, num, typed>>
vars   == <<table, prompt, calls, quits>>

Table == INSTANCE TickCluster

CountFuncs == {"suspendProc", "killProc", "terminateProc"}
NotTyped   == [func |-> "null", digits |-> <<>>]

Init ==
    /\ Table!Init
    /\ state = "top" /\ func = "null" /\ num = 0
    /\ calls = <<>>
    /\ typed = NotTyped /\ quits = 0

----------------------------------------------------------------------------
(* The commands to the hosts.                                              *)

(* The closure of a command: the hosts it was sent to, whether its answers *)
(* are parsed, the requests under way, completed.length, the hosts whose   *)
(* answer was parsed (csums, stats), and the summaries that were printed.  *)
NewCall(list, parses) ==
    [list |-> list, parses |-> parses, pending |-> list, completed |-> 0,
     results |-> {}, printed |-> <<>>]

(* The commands that parse answers are t, s and p; j goes to all hosts.    *)
Send(list, parses) ==
    /\ tool = "up" /\ Len(calls) < MaxCalls
    /\ calls' = Append(calls, NewCall(list, parses))
    /\ UNCHANGED table

(* Mutant: only the answers without an error are counted.                  *)
CountedFine(call, h, err) ==
    [call EXCEPT !.pending   = @ \ {h},
                 !.completed = IF err THEN @ ELSE @ + 1,
                 !.results   = IF err \/ ~call.parses THEN @ ELSE @ \cup {h}]

Counted(call, h, err) ==
    [call EXCEPT !.pending   = @ \ {h},
                 !.completed = @ + 1,
                 !.results   = IF err \/ ~call.parses THEN @ ELSE @ \cup {h}]

(* Mutant: compared with the hosts that are up when the answer comes.      *)
SummedUpNow(call) ==
    IF call.completed # Cardinality(Table!HostsUp) THEN call
    ELSE [call EXCEPT !.printed = Append(@, call.results)]

(* completed.length === list.length                                        *)
SummedUp(call) ==
    IF call.completed # Cardinality(call.list) THEN call
    ELSE [call EXCEPT !.printed =
            Append(@, IF call.parses THEN call.results ELSE call.list)]

(* The callback of one host.                                               *)
Answer(c, h) ==
    /\ tool = "up" /\ h \in calls[c].pending
    /\ \/ \E err \in BOOLEAN :
             calls' = [calls EXCEPT ![c] = SummedUp(Counted(@, h, err))]
          /\ UNCHANGED table
       \/ /\ calls[c].parses
          /\ Table!CallbackThrows
          /\ UNCHANGED calls
    /\ UNCHANGED <<prompt, quits>>

----------------------------------------------------------------------------
(* onData at the top.                                                      *)

AtTop == tool = "up" /\ state = "top"

Quit ==
    /\ AtTop /\ Table!Shutdown
    /\ quits' = quits + 1
    /\ UNCHANGED <<prompt, calls>>

(* t, s, p; g, G, D; j.                                                    *)
Command ==
    /\ AtTop
    /\ \/ \E parses \in BOOLEAN : Send(Table!HostsUp, parses)
       \/ Send(Table!Slots, FALSE)
    /\ quits' = 0
    /\ UNCHANGED prompt

(* l, k and m ask for a count.                                             *)
AskCount ==
    /\ AtTop
    /\ func' \in CountFuncs
    /\ state' = "readnum" /\ typed' = [func |-> func', digits |-> <<>>]
    /\ quits' = 0
    /\ UNCHANGED <<table, num, calls>>

(* Mutant: the flag is asked for as a count is.                            *)
AskFlagAsCount ==
    /\ AtTop
    /\ func' = "debugSet" /\ state' = "readnum"
    /\ quits' = 0
    /\ UNCHANGED <<table, num, typed, calls>>

(* d asks for a flag.                                                      *)
AskFlag ==
    /\ AtTop
    /\ func' = "debugSet" /\ state' = "readchar"
    /\ quits' = 0
    /\ UNCHANGED <<table, num, typed, calls>>

Revive ==
    /\ AtTop /\ Table!ReviveProcs
    /\ quits' = 0
    /\ UNCHANGED <<prompt, calls>>

----------------------------------------------------------------------------
(* onData in a prompt.                                                     *)

Digit(d) ==
    /\ tool = "up" /\ state = "readnum" /\ Len(typed.digits) < MaxDigits
    /\ num' = num * 10 + d
    /\ typed' = [typed EXCEPT !.digits = Append(@, d)]
    /\ quits' = 0
    /\ UNCHANGED <<table, state, func, calls>>

(* Mutant: suspended hosts may be hit.                                     *)
SamplesAny(count) ==
    {slots \in SUBSET Table!Slots : Cardinality(slots) = IF count <= N THEN count ELSE N}

(* _.sampleSize(count) of the hosts that are up.                           *)
Samples(count) ==
    {slots \in SUBSET Table!HostsUp :
        Cardinality(slots) = IF count <= Cardinality(Table!HostsUp) THEN count
                             ELSE Cardinality(Table!HostsUp)}

(* The end of a prompt.                                                    *)
ToTop == state' = "top" /\ typed' = NotTyped

Enter ==
    /\ tool = "up" /\ state = "readnum"
    /\ \E slots \in Samples(num) :
         \/ func = "suspendProc"   /\ Table!SuspendProc(slots)
         \/ func = "killProc"      /\ Table!KillProc(slots)
         \/ func = "terminateProc" /\ Table!TerminateProc(slots)
    /\ ToTop /\ func' = "null" /\ num' = 0
    /\ quits' = 0
    /\ UNCHANGED calls

Flag ==
    /\ tool = "up" /\ state = "readchar"
    /\ Send(Table!HostsUp, FALSE)
    /\ ToTop /\ func' = "null"
    /\ quits' = 0
    /\ UNCHANGED num

(* Mutant: the digits stay.                                                *)
UnexpectedKeepsNum(isQuit) ==
    /\ tool = "up" /\ state # "top"
    /\ ToTop
    /\ quits' = IF isQuit THEN quits + 1 ELSE 0
    /\ UNCHANGED <<table, func, num, calls>>

(* Mutant: the prompt is repeated until it is answered.                    *)
UnexpectedAsksAgain(isQuit) ==
    /\ tool = "up" /\ state # "top" /\ quits < 2
    /\ num' = 0
    /\ quits' = IF isQuit THEN quits + 1 ELSE 0
    /\ UNCHANGED <<table, state, func, typed, calls>>

(* A key that the prompt does not expect: q and control-c are such keys.   *)
Unexpected(isQuit) ==
    /\ tool = "up" /\ state # "top"
    /\ ToTop /\ num' = IF state = "readnum" THEN 0 ELSE num
    /\ quits' = IF isQuit THEN quits + 1 ELSE 0
    /\ UNCHANGED <<table, func, calls>>

----------------------------------------------------------------------------
(* Without a key: a signal, timers, exits and processes.                   *)
Elsewhere ==
    /\ \/ Table!Shutdown
       \/ \E pid \in Table!Pids :
            Table!HardKill(pid) \/ Table!ExitByItself(pid)
                                \/ Table!ExitOnTerm(pid) \/ Table!Reap(pid)
    /\ UNCHANGED <<prompt, calls, quits>>

Next ==
    \/ Quit \/ Command \/ AskCount \/ AskFlag \/ Revive
    \/ \E d \in Digits : Digit(d)
    \/ Enter \/ Flag
    \/ \E isQuit \in BOOLEAN : Unexpected(isQuit)
    \/ \E c \in DOMAIN calls : \E h \in calls[c].pending : Answer(c, h)
    \/ Elsewhere

(* A request is answered or times out.                                     *)
Fairness ==
    \A c \in 1..MaxCalls : \A h \in 1..N :
        WF_vars(c \in DOMAIN calls /\ h \in calls[c].pending /\ Answer(c, h))

Spec == Init /\ [][Next]_vars

FairSpec == Spec /\ Fairness

----------------------------------------------------------------------------
(* Type invariant.                                                         *)
Call == [list: SUBSET (1..N), parses: BOOLEAN, pending: SUBSET (1..N), completed: 0..N,
         results: SUBSET (1..N), printed: Seq(SUBSET (1..N))]

TypeOK ==
    /\ state \in {"top", "readnum", "readchar"}
    /\ func \in CountFuncs \cup {"null", "debugSet"}
    /\ state = "readnum" => func \in CountFuncs
    /\ num \in Nat
    /\ calls \in Seq(Call)
    /\ typed \in [func: CountFuncs \cup {"null"}, digits: Seq(Digits)]
    /\ quits \in Nat

(* The prompts and commands do to the processes what the table's own       *)
(* operations do, and nothing else.                                        *)
KeysDriveTable == Table!Spec

(* A command's summary is printed once, when every host has answered or    *)
(* failed that was up when the key was pressed, however the table changes  *)
(* meanwhile; the results of the hosts that failed are not in it.          *)
OneFullSummary ==
    \A c \in DOMAIN calls : LET call == calls[c] IN
        call.printed = IF call.list = {} \/ call.pending # {} THEN <<>>
                       ELSE <<IF call.parses THEN call.results ELSE call.list>>

(* The count that was typed since the prompt was opened, and it alone, is  *)
(* how many processes the prompt's command hits; digits of a prompt that   *)
(* was left by an unexpected key do not count.                             *)
CountTyped ==
    LET up    == Cardinality(Table!HostsUp)
        count == FoldLeft(LAMBDA n, d : 10 * n + d, 0, typed.digits)
    IN IF count <= up THEN count ELSE up

(* What a step newly marks as killed without an exit, marks as suspended,  *)
(* or sets a timer for.                                                    *)
Hit(by) ==
    CASE by = "killProc" ->
           {i \in 1..N : /\ procs'[i].pid = procs[i].pid
                         /\ ~procs[i].killed /\ procs'[i].killed
                         /\ ~Table!Reaped(procs[i].pid)' \/ Table!Reaped(procs[i].pid)}
      [] by = "suspendProc" ->
           {i \in 1..N : ~procs[i].suspended /\ procs'[i].suspended}
      [] by = "terminateProc" -> hardKill' \ hardKill

HitsAsTyped ==
    [][\A by \in CountFuncs :
         Hit(by) # {} /\ tool' = "up" =>
            /\ typed.func = by
            /\ by # "terminateProc" => Cardinality(Hit(by)) = CountTyped
            /\ by = "terminateProc" => Cardinality(Hit(by)) <= CountTyped]_vars

(* In a prompt q and control-c only leave the prompt; pressed twice in a   *)
(* row they always end the tool, by process.exit or by what killAllProcs   *)
(* throws.                                                                 *)
TwoQuitsQuit == quits >= 2 => tool # "up"

(* A command that was sent to somebody is summed up, whoever has died,     *)
(* been killed or stopped meanwhile, unless the tool dies.                 *)
CallsEnd ==
    \A c \in 1..MaxCalls :
        (c \in DOMAIN calls /\ calls[c].list # {})
          ~> ((c \in DOMAIN calls /\ calls[c].printed # <<>>) \/ tool # "up")
=============================================================================
