------------------------------ MODULE JobLedger ------------------------------
(***************************************************************************)
(* What the store of background jobs promises the chat: a job is launched  *)
(* once, runs, is over, is closed by a report or a kill, and is forgotten  *)
(* no earlier.  A report can come again only if it did not close the job.  *)
(***************************************************************************)
EXTENDS Naturals

CONSTANT Jobs

VARIABLES
    phase,      \* job -> none, running, over, closed or forgotten
    reports     \* job -> reports in its chat, 2 for many

vars == <<phase, reports>>

In(p) == {j \in Jobs : phase[j] = p}

Init ==
    /\ phase = [j \in Jobs |-> "none"]
    /\ reports = [j \in Jobs |-> 0]

Launch(j) ==
    /\ phase[j] = "none"
    /\ phase' = [phase EXCEPT ![j] = "running"]
    /\ UNCHANGED reports

\* Running jobs are found to be over or are killed, closed ones are forgotten.
Settle(over, killed, old) ==
    /\ over \cup killed \subseteq In("running") /\ old \subseteq In("closed")
    /\ phase' = [j \in Jobs |-> IF j \in killed THEN "closed"
                                ELSE IF j \in over THEN "over"
                                ELSE IF j \in old THEN "forgotten" ELSE phase[j]]
    /\ UNCHANGED reports

\* The report closes the job, or the server dies before it does.
ReportTo(j) ==
    /\ phase[j] = "over"
    /\ reports' = [reports EXCEPT ![j] = IF @ = 0 THEN 1 ELSE 2]
    /\ phase' = [phase EXCEPT ![j] = "closed"] \/ UNCHANGED phase

Next == \/ \E j \in Jobs : Launch(j) \/ ReportTo(j)
        \/ \E over, killed, old \in SUBSET Jobs : Settle(over, killed, old)

Spec == Init /\ [][Next]_vars
=============================================================================
