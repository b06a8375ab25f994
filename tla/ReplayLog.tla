------------------------------ MODULE ReplayLog ------------------------------
(***************************************************************************)
(* What src/agent_runs.py promises its clients: a run is a log that only   *)
(* grows; a client reads one run at a time, from its first event, in       *)
(* order, nothing skipped and nothing twice, for as long as it stays.      *)
(***************************************************************************)
EXTENDS Naturals, Sequences

CONSTANTS Logs, Readers, NoLog      \* NoLog is not in Logs

VARIABLES
    length,     \* log -> number of events in it; events are numbered from 0
    reading,    \* reader -> the log it is attached to, or NoLog
    received    \* reader -> the events it got since it attached

vars == <<length, reading, received>>

Init ==
    /\ length = [l \in Logs |-> 0]
    /\ reading = [c \in Readers |-> NoLog]
    /\ received = [c \in Readers |-> <<>>]

Append1(l) ==
    /\ length' = [length EXCEPT ![l] = @ + 1]
    /\ UNCHANGED <<reading, received>>

\* A failed run closes its log with two events at once.
Append2(l) ==
    /\ length' = [length EXCEPT ![l] = @ + 2]
    /\ UNCHANGED <<reading, received>>

Attach(c, l) ==
    /\ reading[c] = NoLog
    /\ reading' = [reading EXCEPT ![c] = l]
    /\ UNCHANGED <<length, received>>

\* The next event: the one numbered by how many came before it.
Deliver(c) ==
    /\ reading[c] # NoLog /\ Len(received[c]) < length[reading[c]]
    /\ received' = [received EXCEPT ![c] = Append(@, Len(@))]
    /\ UNCHANGED <<length, reading>>

Detach(c) ==
    /\ reading[c] # NoLog
    /\ reading' = [reading EXCEPT ![c] = NoLog]
    /\ received' = [received EXCEPT ![c] = <<>>]
    /\ UNCHANGED length

Next == \/ \E l \in Logs : Append1(l) \/ Append2(l)
        \/ \E c \in Readers : \/ Deliver(c) \/ Detach(c)
                              \/ \E l \in Logs : Attach(c, l)

Spec == Init /\ [][Next]_vars
=============================================================================
