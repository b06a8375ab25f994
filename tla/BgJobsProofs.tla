---------------------------- MODULE BgJobsProofs ----------------------------
(* Theorems of BgJobs, for every number of jobs and every set of sessions. *)
EXTENDS BgJobs, TLAPS

-----------------------------------------------------------------------------
(* The inductive invariant.  A record that was served or killed has ended and  *)
(* carries its mark, unless a crash cut the mark off; what the monitor still   *)
(* has to serve is in the order of the store and carries none.                 *)

Over == {"ended", "pruned"}

\* The jobs the monitor is serving or will serve in this tick.
Served == {mon.job} \cup mon.left

QueueInv ==
    /\ mon.job \in Jobs \cup {None} /\ mon.left \subseteq Jobs
    /\ \A j \in Served \ {None} : status[j] = "ended" /\ j \notin followed
    /\ \A j \in mon.left : j > mon.job

StoreInv ==
    /\ \A j \in Jobs : status[j] = "pruned" => j \in followed
    /\ \A j \in followed : status[j] \in Over /\ (delivered[j] > 0 \/ j \in killed)
    /\ \A j \in killed : j \in followed /\ delivered[j] = 0
    /\ \A j \in Jobs : delivered[j] > 0 => status[j] \in Over /\ j \in followed \cup torn
    /\ \A j \in Jobs : delivered[j] > 1 => j \in torn

IInv == TypeOK /\ QueueInv /\ StoreInv

-----------------------------------------------------------------------------
(* What the operators do *)

\* Scanning q leaves a job of q, or none, and the jobs of q after it.
LEMMA ScanResult ==
    ASSUME NEW q \in SUBSET Jobs, Scan(q)
    PROVE  /\ mon'.job \in q \cup {None} /\ mon'.left \subseteq q
           /\ \A j \in mon'.left : j > mon'.job
BY DEF Scan, Asleep, Jobs, None

\* A scan of unmarked, ended records re-establishes the monitor's part.
LEMMA ScanQueue ==
    ASSUME NEW q \in SUBSET Jobs, Scan(q),
           \A j \in q : status'[j] = "ended" /\ j \notin followed'
    PROVE  QueueInv'
BY ScanResult DEF QueueInv, Served, None, Jobs

LEMMA ReportResult ==
    ASSUME TypeOK, NEW j \in Jobs
    PROVE  /\ Report(j) \in [Jobs -> 0..2]
           /\ Report(j)[j] > 0 /\ (delivered[j] = 0 => Report(j)[j] = 1)
           /\ \A i \in Jobs \ {j} : Report(j)[i] = delivered[i]
BY DEF TypeOK, Report

\* What refresh() leaves, and a kill of k after it.
Reconciled(k) ==
    /\ status' \in [Jobs -> {"none", "running", "ended", "pruned"}]
    /\ proc' \in [Jobs -> {"none", "alive", "exited", "dead"}]
    /\ \A j \in Jobs : status[j] = "none" <=> status'[j] = "none"
    /\ \A j \in Jobs : status[j] \in Over => status'[j] \in Over
    /\ \A j \in Jobs : status'[j] = "pruned" => j \in followed
    /\ \A j \in Jobs : status[j] = "ended" /\ j \notin followed => status'[j] = "ended"
    /\ k # None => status'[k] = "ended"

\* refresh() touches only what is running or marked.
LEMMA ReconcileResult ==
    ASSUME IInv, NEW P \in SUBSET Prunable, NEW k, k \in Running \cup {None}, Reconcile(P, k)
    PROVE  Reconciled(k)
BY DEF IInv, TypeOK, StoreInv, Reconcile, Reconciled, Prunable, Running, Settled, Over, None, Jobs

-----------------------------------------------------------------------------
(* Steps *)

LEMMA ToolStep ==
    ASSUME IInv,
           \/ \E j \in Jobs, s \in Sessions : Launch(j, s)
           \/ \E s \in Sessions : Look(s)
           \/ \E j \in Jobs : Kill(j)
    PROVE  IInv'
<1>1. CASE \E j \in Jobs, s \in Sessions : Launch(j, s)
  BY <1>1, BgAssumption DEF IInv, TypeOK, QueueInv, StoreInv, Served, Launch, Over
<1>2. CASE \E s \in Sessions : Look(s)
  <2>1. PICK P \in SUBSET Prunable : Reconcile(P, None)
    BY <1>2 DEF Look
  <2>2. UNCHANGED <<followed, home, late, sess, mon, up, delivered, killed, torn>>
    BY <1>2 DEF Look
  <2>3. Reconciled(None)
    BY <2>1, ReconcileResult
  <2> QED BY <2>2, <2>3 DEF IInv, TypeOK, QueueInv, StoreInv, Served, Over, Reconciled, None, Jobs
<1>3. ASSUME NEW j \in Jobs, Kill(j)
      PROVE  IInv'
  <2>1. PICK P \in SUBSET Prunable : Reconcile(P, j)
    BY <1>3 DEF Kill
  <2>2. /\ followed' = followed \cup {j} /\ killed' = killed \cup {j}
        /\ UNCHANGED <<home, late, sess, mon, up, delivered, torn>>
        /\ j \in Running
    BY <1>3 DEF Kill
  <2>3. delivered[j] = 0 /\ j \notin Served
    BY <2>2 DEF IInv, TypeOK, QueueInv, StoreInv, Served, Running, Over, Jobs, None
  <2>4. Reconciled(j)
    BY <2>1, <2>2, ReconcileResult
  <2>5. j # None /\ status'[j] = "ended"
    BY <2>4 DEF Reconciled, Jobs, None
  <2>6. QueueInv'
    BY <2>2, <2>3, <2>4 DEF IInv, QueueInv, Served, Reconciled
  <2>7. StoreInv'
    BY <2>2, <2>3, <2>4, <2>5 DEF IInv, TypeOK, StoreInv, Reconciled, Over
  <2>8. TypeOK'
    BY <2>2, <2>4, <2>6 DEF IInv, TypeOK, QueueInv, Served, Reconciled, Jobs, None
  <2> QED BY <2>6, <2>7, <2>8 DEF IInv
<1> QED BY <1>1, <1>2, <1>3

LEMMA MonitorStep ==
    ASSUME IInv, Tick \/ Delivers \/ Fails
    PROVE  IInv'
<1>1. CASE Tick
  <2>1. PICK P \in SUBSET Prunable : Reconcile(P, None)
    BY <1>1 DEF Tick
  <2>2. /\ Scan(Pending(status'))
        /\ UNCHANGED <<followed, home, late, sess, up, delivered, killed, torn>>
    BY <1>1 DEF Tick
  <2>0. Reconciled(None)
    BY <2>1, ReconcileResult
  <2>3. /\ Pending(status') \in SUBSET Jobs
        /\ \A j \in Pending(status') : status'[j] = "ended" /\ j \notin followed'
    BY <2>2 DEF Pending
  <2>4. QueueInv'
    BY <2>2, <2>3, ScanQueue
  <2>5. StoreInv'
    BY <2>2, <2>0 DEF IInv, TypeOK, StoreInv, Reconciled
  <2>6. TypeOK'
    BY <2>2, <2>0, <2>4 DEF IInv, TypeOK, QueueInv, Served, Reconciled, Jobs, None
  <2> QED BY <2>4, <2>5, <2>6 DEF IInv
<1>2. CASE Delivers
  <2> DEFINE j == mon.job
  <2>1. /\ j \in Jobs /\ status[j] = "ended" /\ j \notin followed /\ j \notin killed
        /\ mon.left \in SUBSET Jobs /\ j \notin mon.left
    BY <1>2 DEF IInv, Delivers, QueueInv, StoreInv, Served, Jobs, None
  <2>2. /\ delivered' = Report(j) /\ followed' = followed \cup {j} /\ Scan(mon.left)
        /\ UNCHANGED <<status, home, proc, late, sess, up, killed, torn>>
    BY <1>2 DEF Delivers
  <2>3. QueueInv'
    <3>1. \A i \in mon.left : status'[i] = "ended" /\ i \notin followed'
      BY <2>1, <2>2 DEF IInv, QueueInv, Served, Jobs, None
    <3> QED BY <2>1, <2>2, <3>1, ScanQueue
  <2>4. StoreInv'
    <3> HIDE DEF j
    <3>1. Report(j)[j] > 1 => j \in torn
      BY <2>1, ReportResult DEF IInv, TypeOK, StoreInv
    <3> QED BY <2>1, <2>2, <3>1, ReportResult DEF IInv, TypeOK, StoreInv, Over
  <2>5. TypeOK'
    <3>1. delivered' \in [Jobs -> 0..2] /\ followed' \subseteq Jobs
      BY <2>1, <2>2, ReportResult DEF IInv, TypeOK
    <3>2. \A i \in Served' : i # None => status'[i] = "ended" /\ i >= mon'.job
      BY <2>3 DEF QueueInv, Served, Jobs, None
    <3> QED BY <2>2, <2>3, <3>1, <3>2 DEF IInv, TypeOK, QueueInv, Served
  <2> QED BY <2>3, <2>4, <2>5 DEF IInv
<1>3. CASE Fails
  <2>1. /\ mon.job # None /\ Scan(mon.left)
        /\ UNCHANGED <<status, followed, home, proc, late, sess, up, delivered, killed, torn>>
    BY <1>3 DEF Fails
  <2>2. QueueInv'
    <3>1. /\ mon.left \in SUBSET Jobs
          /\ \A i \in mon.left : status'[i] = "ended" /\ i \notin followed'
      BY <2>1 DEF IInv, QueueInv, Served, Jobs, None
    <3> QED BY <2>1, <3>1, ScanQueue
  <2> QED BY <2>1, <2>2 DEF IInv, TypeOK, StoreInv, QueueInv, Served, Jobs, None
<1> QED BY <1>1, <1>2, <1>3

LEMMA WorldStep ==
    ASSUME IInv,
           \/ \E j \in Jobs : ProcEnds(j) \/ TimePasses(j)
           \/ \E s \in Sessions : TurnStarts(s) \/ TurnEnds(s) \/ Delete(s)
           \/ Crash \/ Restart \/ UNCHANGED vars
    PROVE  IInv'
<1> USE DEF IInv, TypeOK, QueueInv, StoreInv, Served, Over
<1>1. CASE \E j \in Jobs : ProcEnds(j) \/ TimePasses(j)
  BY <1>1 DEF ProcEnds, TimePasses
<1>2. CASE \E s \in Sessions : TurnStarts(s) \/ TurnEnds(s) \/ Delete(s)
  BY <1>2 DEF TurnStarts, TurnEnds, Delete
<1>3. CASE Crash
  <2>1. mon' = Asleep /\ UNCHANGED <<status, followed, home, proc, late, killed>>
    BY <1>3 DEF Crash
  <2>2. QueueInv'
    BY <2>1 DEF Asleep
  <2>3. \/ UNCHANGED <<delivered, torn>>
        \/ /\ mon.job \in Jobs /\ mon.job \notin followed /\ status[mon.job] = "ended"
           /\ delivered' = Report(mon.job) /\ torn' = torn \cup {mon.job}
    BY <1>3 DEF Crash
  <2>4. StoreInv'
    BY <2>1, <2>3, ReportResult
  <2>5. delivered' \in [Jobs -> 0..2] /\ torn' \subseteq Jobs
    BY <2>3, ReportResult
  <2>6. sess' \in [Sessions -> {"idle", "live", "deleted"}] /\ up' \in BOOLEAN
    BY <1>3 DEF Crash
  <2>7. TypeOK'
    BY <2>1, <2>5, <2>6 DEF Asleep, None, Jobs
  <2> QED BY <2>2, <2>4, <2>7
<1>4. CASE Restart \/ UNCHANGED vars
  BY <1>4 DEF Restart, vars
<1> QED BY <1>1, <1>2, <1>3, <1>4

LEMMA StoreIsSound == Spec => []IInv
<1>1. Init => IInv
  BY BgAssumption DEF Init, IInv, TypeOK, QueueInv, StoreInv, Served, Asleep, Jobs, None, Over
<1>2. IInv /\ [Next]_vars => IInv'
  BY ToolStep, MonitorStep, WorldStep DEF Next
<1> QED BY <1>1, <1>2, PTL DEF Spec

-----------------------------------------------------------------------------
(* The theorems *)

\* The store, the processes and the monitor's tick keep their types, and what is
\* left of a tick stays an ended, kept record (bg_monitor._loop).
THEOREM JobsTyped == Spec => []TypeOK
<1> QED BY StoreIsSound, PTL DEF IInv

\* A result is reported twice only across a crash that cuts its mark off
\* (bg_jobs.pending_followups and mark_followed_up).
THEOREM OneReport == Spec => []ReportedOnce
<1>1. IInv => ReportedOnce
  BY DEF IInv, StoreInv, ReportedOnce
<1> QED BY <1>1, StoreIsSound, PTL

\* A job the agent killed is never reported, not even if it ended by itself in
\* the same moment (bg_jobs.kill).
THEOREM NoReportOfKilled == Spec => []KilledIsSilent
<1>1. IInv => KilledIsSilent
  BY DEF IInv, StoreInv, KilledIsSilent
<1> QED BY <1>1, StoreIsSound, PTL

\* A record is dropped only when the agent has seen the result, or killed the job.
KeptUntilHeard ==
    \A j \in Jobs : status[j] = "pruned" => delivered[j] > 0 \/ j \in killed

\* Pruning never drops a result nobody has heard of (bg_jobs._prune).
THEOREM PruneKeepsUnheard == Spec => []KeptUntilHeard
<1>1. IInv => KeptUntilHeard
  BY DEF IInv, StoreInv, KeptUntilHeard
<1> QED BY <1>1, StoreIsSound, PTL

-----------------------------------------------------------------------------
(* The refinement *)

\* A refresh, with or without a kill after it, settles the ledger.
LEMMA ReconcileSettles ==
    ASSUME IInv, NEW P \in SUBSET Prunable, NEW k \in (Running \ Settled) \cup {None}, Reconcile(P, k),
           UNCHANGED delivered, followed' = followed \cup ({k} \ {None})
    PROVE  Ledger!Next
<1> DEFINE phase == [j \in Jobs |-> IF status[j] = "pruned" THEN "forgotten"
                                   ELSE IF status[j] = "ended"
                                        THEN (IF j \in followed THEN "closed" ELSE "over")
                                   ELSE status[j]]
           kill == {k} \ {None}
<1>1. /\ Settled \subseteq Running /\ kill \subseteq Running /\ kill \cap Settled = {}
      /\ Running \subseteq Jobs /\ kill \subseteq Jobs /\ None \notin Jobs
  BY DEF Settled, Running, None, Jobs
<1>2. \A j \in Jobs : j \in followed => status[j] \in {"ended", "pruned"}
  BY DEF IInv, StoreInv, Over
<1>3. \A j \in Jobs : j \in Running <=> status[j] = "running"
  BY DEF Running
<1>4. \A j \in Jobs : status'[j] = IF j \in Settled \cup kill THEN "ended"
                                   ELSE IF j \in P THEN "pruned" ELSE status[j]
  BY <1>1 DEF Reconcile
<1>5. P \subseteq Jobs /\ \A j \in P : status[j] = "ended" /\ j \in followed
  BY DEF Prunable
<1>6. Settled \cup kill \subseteq Ledger!In("running")
  BY <1>1, <1>3 DEF Ledger!In
<1>7. P \subseteq Ledger!In("closed")
  BY <1>5 DEF Ledger!In
<1>8. phase' = [j \in Jobs |-> IF j \in kill THEN "closed"
                               ELSE IF j \in Settled THEN "over"
                               ELSE IF j \in P THEN "forgotten" ELSE phase[j]]
  <2>1. ASSUME NEW j \in Jobs
        PROVE  (IF status'[j] = "pruned" THEN "forgotten"
                ELSE IF status'[j] = "ended" THEN (IF j \in followed' THEN "closed" ELSE "over")
                ELSE status'[j])
               = IF j \in kill THEN "closed"
                 ELSE IF j \in Settled THEN "over"
                 ELSE IF j \in P THEN "forgotten" ELSE phase[j]
    BY <1>1, <1>2, <1>3, <1>4, <1>5
  <2> QED BY <2>1
<1>9. PICK over \in SUBSET Jobs : over = Settled
  BY <1>1
<1>10. PICK kd \in SUBSET Jobs : kd = kill
  BY <1>1
<1>11. PICK old \in SUBSET Jobs : old = P
  BY <1>5
<1>12. Ledger!Settle(over, kd, old)
  BY <1>6, <1>7, <1>8, <1>9, <1>10, <1>11 DEF Ledger!Settle
<1> HIDE DEF phase, kill
<1> QED BY <1>12, Zenon DEF Ledger!Next

\* A follow-up that is written reports a job that is over, and closes it if it is marked.
LEMMA DeliveryReports ==
    ASSUME IInv, mon.job # None, delivered' = Report(mon.job), UNCHANGED status,
           followed' \in {followed, followed \cup {mon.job}}
    PROVE  Ledger!Next
<1> DEFINE phase == [i \in Jobs |-> IF status[i] = "pruned" THEN "forgotten"
                                   ELSE IF status[i] = "ended"
                                        THEN (IF i \in followed THEN "closed" ELSE "over")
                                   ELSE status[i]]
<1>1. PICK j \in Jobs : j = mon.job
  BY DEF IInv, QueueInv
<1>2. status[j] = "ended" /\ j \notin followed
  BY <1>1 DEF IInv, QueueInv, Served
<1>3. delivered' = [delivered EXCEPT ![j] = IF @ = 0 THEN 1 ELSE 2]
  BY <1>1 DEF Report
<1>4. phase[j] = "over"
  BY <1>2
<1>5. CASE followed' = followed
  <2>1. phase' = phase
    BY <1>5
  <2>2. Ledger!ReportTo(j)
    BY <1>3, <1>4, <2>1 DEF Ledger!ReportTo
  <2> HIDE DEF phase
  <2> QED BY <2>2, Zenon DEF Ledger!Next
<1>6. CASE followed' = followed \cup {j}
  <2>1. phase' = [phase EXCEPT ![j] = "closed"]
    BY <1>2, <1>6
  <2>2. Ledger!ReportTo(j)
    BY <1>3, <1>4, <2>1 DEF Ledger!ReportTo
  <2> HIDE DEF phase
  <2> QED BY <2>2, Zenon DEF Ledger!Next
<1> QED BY <1>1, <1>5, <1>6

LEMMA LaunchRecords ==
    ASSUME IInv, NEW j \in Jobs, NEW s \in Sessions, Launch(j, s)
    PROVE  Ledger!Next
<1> DEFINE phase == [i \in Jobs |-> IF status[i] = "pruned" THEN "forgotten"
                                   ELSE IF status[i] = "ended"
                                        THEN (IF i \in followed THEN "closed" ELSE "over")
                                   ELSE status[i]]
<1>1. /\ status[j] = "none" /\ status' = [status EXCEPT ![j] = "running"]
      /\ UNCHANGED <<followed, delivered>>
  BY DEF Launch
<1>2. phase[j] = "none" /\ phase' = [phase EXCEPT ![j] = "running"]
  BY <1>1 DEF IInv, TypeOK
<1>3. Ledger!Launch(j)
  BY <1>1, <1>2 DEF Ledger!Launch
<1> HIDE DEF phase
<1> QED BY <1>3, Zenon DEF Ledger!Next

\* The store keeps its promise to the chat (bg_jobs.refresh, kill, mark_followed_up and
\* _prune; bg_monitor._loop): a job is reported only while it is over and not dealt
\* with, and dropped only afterwards, however crashes and kills fall in between.
THEOREM KeepsTheLedger == Spec => ImplementsLedger
<1>1. Init => Ledger!Init
  BY DEF Init, Ledger!Init
<1>2. IInv /\ [Next]_vars => [Ledger!Next]_(Ledger!vars)
  <2> SUFFICES ASSUME IInv, [Next]_vars
               PROVE  Ledger!Next \/ UNCHANGED (Ledger!vars)
    OBVIOUS
  <2>1. ASSUME UNCHANGED <<status, followed, delivered>> PROVE UNCHANGED (Ledger!vars)
    BY <2>1 DEF Ledger!vars
  <2>2. ASSUME NEW j \in Jobs, NEW s \in Sessions, Launch(j, s) PROVE Ledger!Next
    BY <2>2, LaunchRecords
  <2>3. CASE Tick \/ \E s \in Sessions : Look(s)
    <3>1. PICK P \in SUBSET Prunable : Reconcile(P, None)
      BY <2>3 DEF Tick, Look
    <3>2. UNCHANGED <<followed, delivered>>
      BY <2>3 DEF Tick, Look
    <3> QED BY <3>1, <3>2, ReconcileSettles
  <2>4. ASSUME NEW j \in Jobs, Kill(j) PROVE Ledger!Next
    <3>1. PICK P \in SUBSET Prunable : Reconcile(P, j)
      BY <2>4 DEF Kill
    <3>2. /\ j \in Running \ Settled /\ UNCHANGED delivered /\ followed' = followed \cup ({j} \ {None})
      BY <2>4 DEF Kill, None, Jobs
    <3> QED BY <3>1, <3>2, ReconcileSettles
  <2>5. CASE Delivers \/ (Crash /\ ~UNCHANGED <<delivered, torn>>)
    <3>1. /\ mon.job # None /\ delivered' = Report(mon.job) /\ UNCHANGED status
          /\ followed' \in {followed, followed \cup {mon.job}}
      BY <2>5 DEF Delivers, Crash
    <3> QED BY <3>1, DeliveryReports
  <2>6. ASSUME \/ Fails \/ (Crash /\ UNCHANGED <<delivered, torn>>) \/ Restart \/ UNCHANGED vars
               \/ \E j \in Jobs : ProcEnds(j) \/ TimePasses(j)
               \/ \E s \in Sessions : TurnStarts(s) \/ TurnEnds(s) \/ Delete(s)
        PROVE  UNCHANGED <<status, followed, delivered>>
    BY <2>6 DEF Fails, Crash, Restart, vars, ProcEnds, TimePasses, TurnStarts, TurnEnds, Delete
  <2> QED BY <2>1, <2>2, <2>3, <2>4, <2>5, <2>6 DEF Next
<1> QED BY <1>1, <1>2, StoreIsSound, PTL DEF Spec, ImplementsLedger, Ledger!Spec
=============================================================================
