------------------------------- MODULE BgJobs -------------------------------
(***************************************************************************)
(* Detached shell jobs (src/bg_jobs.py), the tool that starts and kills    *)
(* them (agent_tools/bg_job_tools.py), and the monitor that continues the  *)
(* chat of a job that ended (src/bg_monitor.py).                           *)
(*                                                                         *)
(* The record of a job is on disk and its process outlives the server; a   *)
(* process that ends leaves an exit file, or nothing.  On the event loop   *)
(* an action is the code between two awaits: the only ones of the monitor  *)
(* are the agent's turn and the sleep.                                     *)
(***************************************************************************)
EXTENDS Naturals

CONSTANTS
    Sessions,
    MaxJobs         \* bound: jobs launched

Jobs == 1..MaxJobs      \* in the order of the store, which is that of launching
None == 0

ASSUME BgAssumption == MaxJobs \in Nat /\ None \notin Sessions

VARIABLES
    status,         \* record: none, running, ended (done or failed), pruned
    followed,       \* records with followed_up
    home,           \* job -> its session
    proc,           \* process: none, alive, exited (exit file) or dead (none)
    late,           \* jobs past max_runtime_s
    sess,           \* session -> idle, live (a detached run is active), deleted
    mon,            \* the monitor: the job it continues, and what is left of its tick
    up,
    delivered,      \* job -> follow-up messages in its session, 2 for many (history)
    killed,         \* jobs the agent killed (history)
    torn            \* jobs whose follow-up a crash cut from its mark (history)

vars == <<status, followed, home, proc, late, sess, mon, up, delivered, killed, torn>>

Asleep == [job |-> None, left |-> {}]

Init ==
    /\ status = [j \in Jobs |-> "none"] /\ followed = {} /\ late = {}
    /\ home = [j \in Jobs |-> None]
    /\ proc = [j \in Jobs |-> "none"]
    /\ sess = [s \in Sessions |-> "idle"]
    /\ mon = Asleep /\ up = TRUE
    /\ delivered = [j \in Jobs |-> 0] /\ killed = {} /\ torn = {}

-----------------------------------------------------------------------------
(* The store *)

Running == {j \in Jobs : status[j] = "running"}

\* What refresh() settles: an exit file, a runaway, a process that vanished.
Settled == {j \in Running : proc[j] \in {"exited", "dead"} \/ j \in late}

PrunableEnded == {j \in Jobs : status[j] = "ended"}                       \* variant
\* What _prune drops once it is old: ended and followed up.
Prunable == {j \in Jobs : status[j] = "ended" /\ j \in followed}

\* refresh(): the records P are old by now, and the job k is killed after it.
Reconcile(P, k) ==
    /\ P \subseteq Prunable
    /\ status' = [j \in Jobs |-> IF j \in Settled \cup {k} THEN "ended"
                                 ELSE IF j \in P THEN "pruned" ELSE status[j]]
    /\ proc' = [j \in Jobs |-> IF j \in (Settled \cup {k}) /\ proc[j] = "alive"
                               THEN "dead" ELSE proc[j]]

-----------------------------------------------------------------------------
(* The agent's tools: in a live turn, or in a follow-up *)

Working(s) == up /\ (sess[s] = "live" \/ (mon.job # None /\ home[mon.job] = s))

Launch(j, s) ==
    /\ Working(s) /\ status[j] = "none" /\ \A i \in 1..(j - 1) : status[i] # "none"
    /\ status' = [status EXCEPT ![j] = "running"]
    /\ proc' = [proc EXCEPT ![j] = "alive"]
    /\ home' = [home EXCEPT ![j] = s]
    /\ UNCHANGED <<followed, late, sess, mon, up, delivered, killed, torn>>

\* manage_bg_jobs list and output
Look(s) ==
    /\ Working(s)
    /\ \E P \in SUBSET Prunable : Reconcile(P, None)
    /\ UNCHANGED <<followed, home, late, sess, mon, up, delivered, killed, torn>>

\* Variant: the record does not say that it is dealt with.
KillUnmarked(j) ==
    /\ j \in Running \ Settled /\ Working(home[j])
    /\ \E P \in SUBSET Prunable : Reconcile(P, j)
    /\ killed' = killed \cup {j}
    /\ UNCHANGED <<followed, home, late, sess, mon, up, delivered, torn>>

\* manage_bg_jobs kill: a job that is still running after a refresh.
Kill(j) ==
    /\ j \in Running \ Settled /\ Working(home[j])
    /\ \E P \in SUBSET Prunable : Reconcile(P, j)
    /\ followed' = followed \cup {j}
    /\ killed' = killed \cup {j}
    /\ UNCHANGED <<home, late, sess, mon, up, delivered, torn>>

-----------------------------------------------------------------------------
(* The monitor *)

\* The loop goes on over the records q: one whose session is busy is deferred, one
\* whose session is deleted raises KeyError and is left for the next tick, and the
\* first of the others starts a turn of the agent.
Scan(q) ==
    LET ready == {j \in q : sess[home[j]] = "idle"} IN
    \/ ready = {} /\ mon' = Asleep
    \/ \E j \in ready :
          /\ \A i \in ready : j <= i
          /\ mon' = [job |-> j, left |-> {i \in q : i > j}]

\* Variant: a record is served whether it was before or not.
PendingAll(st) == {j \in Jobs : st[j] = "ended"}
\* Variant: whatever has no follow-up yet.
PendingUnended(st) == {j \in Jobs : st[j] \in {"running", "ended"} /\ j \notin followed}
\* pending_followups
Pending(st) == {j \in Jobs : st[j] = "ended" /\ j \notin followed}

Tick ==
    /\ up /\ mon = Asleep
    /\ \E P \in SUBSET Prunable : Reconcile(P, None)
    /\ Scan(Pending(status'))
    /\ UNCHANGED <<followed, home, late, sess, up, delivered, killed, torn>>

Report(j) == [delivered EXCEPT ![j] = IF @ = 0 THEN 1 ELSE 2]

\* The reply is written, whatever became of the session meanwhile, and marked.
Delivers ==
    LET j == mon.job IN
    /\ up /\ j # None /\ sess[home[j]] # "deleted"
    /\ delivered' = Report(j)
    /\ followed' = followed \cup {j}
    /\ Scan(mon.left)
    /\ UNCHANGED <<status, home, proc, late, sess, up, killed, torn>>

\* Variant: the record is marked when the turn begins or fails.
FailsMarked ==
    /\ up /\ mon.job # None
    /\ followed' = followed \cup {mon.job}
    /\ Scan(mon.left)
    /\ UNCHANGED <<status, home, proc, late, sess, up, delivered, killed, torn>>

\* The turn, or the write into a deleted session, raises: the next tick retries.
Fails ==
    /\ up /\ mon.job # None
    /\ Scan(mon.left)
    /\ UNCHANGED <<status, followed, home, proc, late, sess, up, delivered, killed, torn>>

-----------------------------------------------------------------------------
(* The processes, the sessions, the server *)

ProcEnds(j) ==
    /\ proc[j] = "alive"
    /\ \E how \in {"exited", "dead"} : proc' = [proc EXCEPT ![j] = how]
    /\ UNCHANGED <<status, followed, home, late, sess, mon, up, delivered, killed, torn>>

TimePasses(j) ==
    /\ status[j] = "running" /\ j \notin late
    /\ late' = late \cup {j}
    /\ UNCHANGED <<status, followed, home, proc, sess, mon, up, delivered, killed, torn>>

\* A turn does not ask whether a follow-up is under way.
TurnStarts(s) ==
    /\ up /\ sess[s] = "idle"
    /\ sess' = [sess EXCEPT ![s] = "live"]
    /\ UNCHANGED <<status, followed, home, proc, late, mon, up, delivered, killed, torn>>

TurnEnds(s) ==
    /\ sess[s] = "live"
    /\ sess' = [sess EXCEPT ![s] = "idle"]
    /\ UNCHANGED <<status, followed, home, proc, late, mon, up, delivered, killed, torn>>

Delete(s) ==
    /\ up /\ sess[s] # "deleted"
    /\ sess' = [sess EXCEPT ![s] = "deleted"]
    /\ UNCHANGED <<status, followed, home, proc, late, mon, up, delivered, killed, torn>>

\* The server dies; between a follow-up's message and its mark, or elsewhere.
Crash ==
    LET j == mon.job IN
    /\ up /\ up' = FALSE
    /\ mon' = Asleep
    /\ sess' = [s \in Sessions |-> IF sess[s] = "live" THEN "idle" ELSE sess[s]]
    /\ \/ UNCHANGED <<delivered, torn>>
       \/ /\ j # None /\ sess[home[j]] # "deleted"
          /\ delivered' = Report(j)
          /\ torn' = torn \cup {j}
    /\ UNCHANGED <<status, followed, home, proc, late, killed>>

Restart ==
    /\ ~up /\ up' = TRUE
    /\ UNCHANGED <<status, followed, home, proc, late, sess, mon, delivered, killed, torn>>

-----------------------------------------------------------------------------
Next ==
    \/ \E j \in Jobs : \/ \E s \in Sessions : Launch(j, s)
                       \/ Kill(j) \/ ProcEnds(j) \/ TimePasses(j)
    \/ \E s \in Sessions : Look(s) \/ TurnStarts(s) \/ TurnEnds(s) \/ Delete(s)
    \/ Tick \/ Delivers \/ Fails
    \/ Crash \/ Restart

Spec == Init /\ [][Next]_vars

\* The loop polls, the clock runs, turns end (RunsEnd of AgentRuns), the server is
\* restarted.  A session is not busy at every tick for ever, and an agent that is
\* asked again and again answers.
FairSpec ==
    /\ Spec
    /\ WF_vars(Tick) /\ WF_vars(Delivers \/ Fails) /\ WF_vars(Restart)
    /\ \A s \in Sessions : WF_vars(TurnEnds(s))
    /\ \A j \in Jobs :
        /\ WF_vars(TimePasses(j))
        /\ SF_vars((Tick \/ Delivers \/ Fails) /\ mon'.job = j)
        /\ SF_vars(Delivers /\ mon.job = j)

-----------------------------------------------------------------------------
(* Properties *)

\* The types of the store, of the processes and of the monitor; what the monitor
\* still has to serve has ended, comes after the job it serves, and is kept.
TypeOK ==
    /\ status \in [Jobs -> {"none", "running", "ended", "pruned"}]
    /\ home \in [Jobs -> Sessions \cup {None}]
    /\ \A j \in Jobs : home[j] = None <=> status[j] = "none"
    /\ proc \in [Jobs -> {"none", "alive", "exited", "dead"}]
    /\ followed \subseteq Jobs /\ late \subseteq Jobs
    /\ sess \in [Sessions -> {"idle", "live", "deleted"}]
    /\ up \in BOOLEAN
    /\ mon.job \in Jobs \cup {None}
    /\ \A j \in {mon.job} \cup mon.left :
          j # None => status[j] = "ended" /\ j >= mon.job
    /\ delivered \in [Jobs -> 0..2]
    /\ killed \subseteq Jobs /\ torn \subseteq Jobs

\* "Idempotent follow-up": a job is reported twice only if the server died between
\* the report and its mark.
ReportedOnce == \A j \in Jobs : delivered[j] > 1 => j \in torn

\* "Sets followed_up so the monitor does not also fire an auto-continue for a job
\* the agent deliberately stopped."
KilledIsSilent == \A j \in killed : delivered[j] = 0

\* The life of a record, seen from the chat: JobLedger, whatever the monitor, the
\* tools, the clock, the processes and crashes of the server do to it.
Ledger == INSTANCE JobLedger WITH
    reports <- delivered,
    phase <- [j \in Jobs |-> IF status[j] = "pruned" THEN "forgotten"
                            ELSE IF status[j] = "ended"
                                 THEN (IF j \in followed THEN "closed" ELSE "over")
                            ELSE status[j]]
ImplementsLedger == Ledger!Spec

\* "You always hear back": whatever becomes of the process, of the server and of
\* other sessions, a launched job is reported, unless it is killed or its session
\* deleted.
HeardBack ==
    \A j \in Jobs :
        status[j] = "running"
        ~> delivered[j] > 0 \/ j \in killed \/ (\E s \in Sessions : home[j] = s /\ sess[s] = "deleted")
=============================================================================
