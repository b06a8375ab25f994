----------------------------- MODULE SessionRuns -----------------------------
(***************************************************************************)
(* What the chat page relies on and src/agent_runs.py provides: a session  *)
(* has one running run at a time.  The next run of the session ends the    *)
(* last one, whichever way it was going to end; a run that is over is      *)
(* never running again, and no run changes its session.                    *)
(***************************************************************************)
CONSTANTS Sessions, Runs, None      \* None is not in Sessions

VARIABLES
    home,       \* run -> the session it was started for, or None
    live        \* the runs that are running

vars == <<home, live>>

Init == home = [r \in Runs |-> None] /\ live = {}

Start(r, s) ==
    /\ home[r] = None
    /\ home' = [home EXCEPT ![r] = s]
    /\ live' = {r} \cup {q \in live : home[q] # s}

\* By itself, by an error or by a Stop.
EndRun(r) ==
    /\ r \in live /\ live' = live \ {r}
    /\ UNCHANGED home

Next == \E r \in Runs : EndRun(r) \/ \E s \in Sessions : Start(r, s)

Spec == Init /\ [][Next]_vars
=============================================================================
