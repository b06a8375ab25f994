------------------------- MODULE TaskSchedulerProofs -------------------------
(* Theorems of TaskScheduler, for every set of tasks and of coroutine slots. *)
EXTENDS TaskScheduler, TLAPS

-----------------------------------------------------------------------------
(* Type correctness *)

RowStates    == Open \cup {"none", "done", "aborted"}
CancelStates == {"none", "stop", "foreground"}
PcStates     == {"free"} \cup Unstarted \cup Started

EndTyped ==
    /\ handle' \in [Tasks -> Runs \cup {NoRun}]
    /\ executing' \subseteq Tasks
    /\ slotHolder' \in Runs \cup {NoRun}
    /\ force' \in [Runs -> BOOLEAN]
    /\ cancel' \in [Runs -> CancelStates]
    /\ seen' \in [Runs -> SUBSET {"next", "ahead"}]

\* Leaving a coroutine keeps the types, given dictionaries of the right type.
LEMMA EndType ==
    ASSUME TypeOK, NEW s \in Runs, pc[s] # "free",
           NEW h \in [Tasks -> Runs \cup {NoRun}], NEW ex \in SUBSET Tasks,
           NEW holder \in Runs \cup {NoRun},
           Release(s, h, ex, holder)
    PROVE  EndTyped
BY DEF TypeOK, Release, CancelStates, EndTyped

LEMMA EnterType ==
    ASSUME TypeOK, NEW s \in Runs, pc[s] # "free",
           NEW h \in [Tasks -> Runs \cup {NoRun}], NEW ex \in SUBSET Tasks,
           NEW holder \in Runs \cup {NoRun}, NEW r \in RowStates, NEW c \in CancelStates,
           Enter(s, h, ex, holder, r, c),
           UNCHANGED <<counter, ahead, procVars>>,
           slotLoop' \in {"unbound", "main", "worker"}
    PROVE  TypeOK'
<1> DEFINE t == task[s]
<1>1. t \in Tasks
  BY DEF TypeOK
<1>2. CASE status[t] # "active" /\ End(s, h, ex, holder)
           /\ row' = [row EXCEPT ![s] = IF r = "queued" THEN "done" ELSE r]
           /\ UNCHANGED <<status, nextRun>>
  <2>1. Release(s, h, ex, holder)
    BY <1>2 DEF End
  <2>2. EndTyped
    BY <2>1, EndType
  <2>3. /\ pc' \in [Runs -> PcStates] /\ task' \in [Runs -> Tasks \cup {NoTask}]
        /\ \A q \in Runs : task'[q] = NoTask <=> pc'[q] = "free"
    BY <1>2 DEF TypeOK, End, PcStates
  <2> QED BY <1>1, <1>2, <2>2, <2>3
          DEF TypeOK, RowStates, CancelStates, PcStates, EndTyped, procVars
<1>3. CASE status[t] = "active" /\ End(s, h, ex, holder)
           /\ row' = [row EXCEPT ![s] = "done"]
           /\ status' = [status EXCEPT ![t] = "paused"]
           /\ nextRun' = [nextRun EXCEPT ![t] = "none"]
  <2>1. Release(s, h, ex, holder)
    BY <1>3 DEF End
  <2>2. EndTyped
    BY <2>1, EndType
  <2>3. /\ pc' \in [Runs -> PcStates] /\ task' \in [Runs -> Tasks \cup {NoTask}]
        /\ \A q \in Runs : task'[q] = NoTask <=> pc'[q] = "free"
    BY <1>3 DEF TypeOK, End, PcStates
  <2> QED BY <1>1, <1>3, <2>2, <2>3
          DEF TypeOK, RowStates, CancelStates, PcStates, EndTyped, procVars
<1>4. CASE /\ handle' = h /\ executing' = ex /\ slotHolder' = holder
           /\ cancel' = [cancel EXCEPT ![s] = c]
           /\ \/ /\ pc' = [pc EXCEPT ![s] = "quiet"]
                 /\ row' = [row EXCEPT ![s] = r]
                 /\ UNCHANGED <<status, nextRun, seen>>
              \/ StartBody(s)
           /\ UNCHANGED <<task, force>>
  BY <1>1, <1>4 DEF TypeOK, StartBody, Loaded, RowStates, CancelStates, PcStates,
                    Open, Started, Unstarted, InBody, procVars
<1> QED BY <1>2, <1>3, <1>4 DEF Enter

\* Steps of one coroutine.
LEMMA RunStepType ==
    ASSUME TypeOK, NEW s \in Runs, RunStep(s)
    PROVE  TypeOK'
<1> USE DEF RowStates, CancelStates, PcStates
<1>1. CASE Begin(s)
  <2> DEFINE t    == task[s]
             h    == [handle EXCEPT ![t] = s]
             ex   == IF pc[s] = "chained" THEN executing \cup {t} ELSE executing
             loop == IF pc[s] = "worker" THEN "worker" ELSE "main"
             c    == IF pc[s] = "worker" THEN "stop" ELSE "none"
  <2>1. /\ pc[s] # "free" /\ t \in Tasks
        /\ h \in [Tasks -> Runs \cup {NoRun}] /\ ex \in SUBSET Tasks
        /\ loop \in {"unbound", "main", "worker"} /\ c \in CancelStates
    BY <1>1 DEF Begin, TypeOK, Unstarted
  <2>2. UNCHANGED <<counter, ahead, procVars>>
    BY <1>1 DEF Begin
  <2>7. /\ slotHolder \in Runs \cup {NoRun} /\ s \in Runs \cup {NoRun}
        /\ "queued" \in RowStates
        /\ slotLoop' = slotLoop => slotLoop' \in {"unbound", "main", "worker"}
    BY DEF TypeOK, Open
  <2> HIDE DEF t, h, ex, loop, c
  <2>3. CASE Enter(s, h, ex, slotHolder, "queued", c) /\ UNCHANGED slotLoop
    BY <2>1, <2>2, <2>3, <2>7, EnterType
  <2>4. CASE Enter(s, h, ex, s, "queued", c) /\ UNCHANGED slotLoop
    BY <2>1, <2>2, <2>4, <2>7, EnterType
  <2>5. CASE /\ slotLoop' = loop
             /\ pc' = [pc EXCEPT ![s] = "slot"]
             /\ row' = [row EXCEPT ![s] = "queued"]
             /\ cancel' = [cancel EXCEPT ![s] = c]
             /\ handle' = h /\ executing' = ex
             /\ UNCHANGED <<status, nextRun, slotHolder, task, force, seen>>
    BY <2>1, <2>2, <2>5 DEF TypeOK, Open, Started, procVars
  <2>6. CASE /\ row' = [row EXCEPT ![s] = "queued"]
             /\ End(s, h, ex, slotHolder)
             /\ UNCHANGED <<status, nextRun, slotLoop>>
    <3>1. EndTyped
      BY <2>1, <2>6, EndType DEF End, TypeOK
    <3>2. /\ pc' \in [Runs -> PcStates] /\ task' \in [Runs -> Tasks \cup {NoTask}]
          /\ \A q \in Runs : task'[q] = NoTask <=> pc'[q] = "free"
      BY <2>6 DEF TypeOK, End
    <3> QED BY <2>1, <2>2, <2>6, <3>1, <3>2 DEF TypeOK, Open, EndTyped, procVars
  <2> QED BY <1>1, <2>3, <2>4, <2>5, <2>6 DEF Begin, t, h, ex, loop, c
<1>2. CASE ChainRefused(s)
  BY <1>2 DEF ChainRefused, TypeOK, dbVars, memVars, procVars
<1>3. CASE TakeSlot(s)
  <2>1. pc[s] # "free" /\ row[s] \in RowStates
    BY <1>3 DEF TakeSlot, Waiting, TypeOK
  <2>2. /\ Enter(s, handle, executing, s, row[s], "none")
        /\ UNCHANGED <<counter, ahead, slotLoop, procVars>>
    BY <1>3 DEF TakeSlot
  <2> QED BY <2>1, <2>2, EnterType DEF TypeOK
<1>4. CASE LeaveQuiet(s)
  BY <1>4 DEF LeaveQuiet, StartBody, Loaded, TypeOK, Open, Started, InBody, memVars, procVars
<1>5. CASE DeliverResult(s)
  BY <1>5 DEF DeliverResult, Loaded, TypeOK, Open, Started, InBody, dbVars, memVars, procVars
<1>6. ASSUME NEW o \in Unwinding, pc[s] # "free", Finish(s, o),
             UNCHANGED <<counter, ahead, slotLoop, procVars>>
      PROVE  TypeOK'
  <2>1. EndTyped
    BY <1>6, EndType DEF Finish, TypeOK
  <2>2. task[s] \in Tasks
    BY <1>6 DEF TypeOK
  <2>3. /\ pc' \in [Runs -> PcStates] /\ task' \in [Runs -> Tasks \cup {NoTask}]
        /\ \A q \in Runs : task'[q] = NoTask <=> pc'[q] = "free"
    <3>1. CASE o = "success" /\ Chains(task[s])
      <4>1. ThenTask[task[s]] \in Tasks /\ ThenTask[task[s]] # NoTask
        BY <2>2, <3>1, TasksAssumption DEF Chains
      <4> QED BY <1>6, <3>1, <4>1 DEF Finish, TypeOK, Unstarted
    <3>2. CASE ~(o = "success" /\ Chains(task[s]))
      BY <1>6, <3>2 DEF Finish, TypeOK
    <3> QED BY <3>1, <3>2
  <2>4. NextAfter(s) \in {"none", "later"}
    BY DEF NextAfter
  <2>5. row' \in [Runs -> RowStates]
    BY <1>6 DEF Finish, TypeOK
  <2>6. /\ nextRun' \in [Tasks -> {"none", "due", "later"}]
        /\ status' \in [Tasks -> {"active", "paused", "completed"}]
    BY <1>6, <2>2, <2>4 DEF Finish, WriteNextRun, TypeOK
  <2> QED BY <1>6, <2>1, <2>3, <2>5, <2>6 DEF TypeOK, EndTyped, procVars
<1>7. CASE BodyEnds(s)
  <2>1. pc[s] # "free" /\ UNCHANGED <<counter, ahead, slotLoop, procVars>>
    BY <1>7 DEF BodyEnds, InBody
  <2>2. PICK o \in {"success", "failure", "raised"} :
           IF force[s] THEN Finish(s, o)
           ELSE /\ pc' = [pc EXCEPT ![s] = o]
                /\ UNCHANGED <<status, nextRun, row, executing, handle, slotHolder,
                               task, force, cancel, seen>>
    BY <1>7 DEF BodyEnds
  <2>3. CASE force[s]
    BY <2>1, <2>2, <2>3, <1>6 DEF Unwinding
  <2>4. CASE ~force[s]
    BY <2>1, <2>2, <2>4 DEF TypeOK, Started, Unwinding, procVars
  <2> QED BY <2>3, <2>4
<1>8. ASSUME NEW r \in RowStates, NEW v \in {"none", "later"}, NEW direct \in BOOLEAN,
             pc[s] # "free", Settled(s, r, v, direct)
      PROVE  TypeOK'
  <2>1. task[s] \in Tasks /\ nextRun' \in [Tasks -> {"none", "due", "later"}]
    BY <1>8 DEF Settled, WriteNextRun, TypeOK
  <2>2. row' \in [Runs -> RowStates] /\ UNCHANGED <<status, counter, ahead, slotLoop, procVars>>
    BY <1>8 DEF Settled, TypeOK
  <2>3. CASE direct
    <3>1. EndTyped
      BY <1>8, <2>3, EndType DEF Settled, End, TypeOK
    <3>2. /\ pc' \in [Runs -> PcStates] /\ task' \in [Runs -> Tasks \cup {NoTask}]
          /\ \A q \in Runs : task'[q] = NoTask <=> pc'[q] = "free"
      BY <1>8, <2>3 DEF TypeOK, Settled, End
    <3> QED BY <2>1, <2>2, <3>1, <3>2 DEF TypeOK, EndTyped, procVars
  <2>4. CASE ~direct
    BY <1>8, <2>1, <2>2, <2>4 DEF Settled, TypeOK, Started, Unwinding, procVars
  <2> QED BY <2>3, <2>4
<1>9. NextAfter(s) \in {"none", "later"} /\ force[s] \in BOOLEAN
  BY DEF NextAfter, TypeOK
<1>10. CASE BodyNoop(s)
  BY <1>8, <1>9, <1>10 DEF BodyNoop
<1>11. CASE BodyDefers(s)
  BY <1>8, <1>9, <1>11 DEF BodyDefers
<1>12. CASE CancelBody(s)
  <2> DEFINE v == IF cancel[s] = "foreground" THEN "later" ELSE NextAfter(s)
             d == force[s] \/ cancel[s] = "foreground"
  <2>1. v \in {"none", "later"} /\ d \in BOOLEAN /\ pc[s] # "free"
    BY <1>9, <1>12 DEF CancelBody, InBody
  <2>2. Settled(s, "aborted", v, d)
    BY <1>12 DEF CancelBody
  <2> HIDE DEF v, d
  <2> QED BY <1>8, <2>1, <2>2
<1>13. CASE Settle(s)
  BY <1>6, <1>13 DEF Settle, Unwinding
<1>14. CASE CancelQueued(s)
  <2>1. EndTyped
    BY <1>14, EndType DEF CancelQueued, End, TypeOK
  <2>2. /\ pc' \in [Runs -> PcStates] /\ task' \in [Runs -> Tasks \cup {NoTask}]
        /\ \A q \in Runs : task'[q] = NoTask <=> pc'[q] = "free"
    BY <1>14 DEF TypeOK, CancelQueued, End
  <2>3. /\ row' \in [Runs -> RowStates]
        /\ nextRun' \in [Tasks -> {"none", "due", "later"}]
        /\ UNCHANGED <<status, counter, ahead, slotLoop, procVars>>
    BY <1>14 DEF TypeOK, CancelQueued
  <2> QED BY <2>1, <2>2, <2>3 DEF TypeOK, EndTyped, procVars
<1>15. CASE MonitorFires(s)
  BY <1>15 DEF MonitorFires, TypeOK, dbVars, memVars, procVars
<1> QED BY <1>1, <1>2, <1>3, <1>4, <1>5, <1>7, <1>10, <1>11, <1>12, <1>13, <1>14, <1>15
        DEF RunStep

\* Steps of the dispatcher, of users on one task, and of the process.
LEMMA DispatchType ==
    ASSUME TypeOK, Dispatch
    PROVE  TypeOK'
<1>1. CASE DispatchDue
  <2>0. PICK S \in SUBSET FreeRuns : \E f \in Bijection(S, Due) :
          /\ pc' = [s \in Runs |-> IF s \in S THEN "spawned" ELSE pc[s]]
          /\ task' = [s \in Runs |-> IF s \in S THEN f[s] ELSE task[s]]
    BY <1>1 DEF DispatchDue
  <2>1. PICK f \in Bijection(S, Due) :
          /\ pc' = [s \in Runs |-> IF s \in S THEN "spawned" ELSE pc[s]]
          /\ task' = [s \in Runs |-> IF s \in S THEN f[s] ELSE task[s]]
    BY <2>0
  <2>2. f \in [S -> Due] /\ Due \subseteq Tasks
    BY DEF Bijection, Injection, Due
  <2>3. \A s \in S : f[s] \in Tasks /\ f[s] # NoTask
    BY <2>2, TasksAssumption
  <2>4. /\ pc' \in [Runs -> PcStates] /\ task' \in [Runs -> Tasks \cup {NoTask}]
        /\ \A s \in Runs : task'[s] = NoTask <=> pc'[s] = "free"
    BY <2>1, <2>3 DEF TypeOK, PcStates, Unstarted
  <2>5. executing' \subseteq Tasks
    BY <1>1, <2>2 DEF DispatchDue, TypeOK
  <2> QED BY <1>1, <2>4, <2>5 DEF DispatchDue, TypeOK, PcStates, dbVars, procVars
<1>2. CASE DeferDue
  BY <1>2 DEF DeferDue, TypeOK, memVars, runVars, procVars
<1>3. ASSUME NEW s \in Runs, NEW t \in Tasks, RunNow(s, t)
      PROVE  TypeOK'
  BY <1>3, TasksAssumption DEF RunNow, Spawn, TypeOK, Unstarted, dbVars, procVars
<1>4. ASSUME NEW s \in Runs, NEW t \in Tasks, ForceRun(s, t)
      PROVE  TypeOK'
  BY <1>4, TasksAssumption DEF ForceRun, Spawn, TypeOK, Unstarted, dbVars, memVars, procVars
<1>5. ASSUME NEW s \in Runs, NEW t \in Tasks, NEW how \in {"spawned", "worker"},
             TriggerEvent(s, t, how)
      PROVE  TypeOK'
  <2>1. /\ pc' \in [Runs -> PcStates] /\ task' \in [Runs -> Tasks \cup {NoTask}]
        /\ \A q \in Runs : task'[q] = NoTask <=> pc'[q] = "free"
        /\ executing' \subseteq Tasks
    BY <1>5, TasksAssumption DEF TriggerEvent, Spawn, TypeOK, PcStates, Unstarted
  <2>2. /\ counter' \in [Tasks -> 0..(Threshold - 1)]
        /\ nextRun' \in [Tasks -> {"none", "due", "later"}]
    BY <1>5, ThresholdAssumption DEF TriggerEvent, TypeOK
  <2> QED BY <1>5, <2>1, <2>2 DEF TriggerEvent, TypeOK, PcStates, procVars
<1> QED BY <1>1, <1>2, <1>3, <1>4, <1>5 DEF Dispatch

LEMMA TaskStepType ==
    ASSUME TypeOK, NEW t \in Tasks, TaskStep(t)
    PROVE  TypeOK'
<1>1. CASE TimePasses(t)
  BY <1>1 DEF TimePasses, DatePasses, TypeOK, memVars, procVars
<1>2. CASE CountEvent(t)
  <2>1. counter' \in [Tasks -> 0..(Threshold - 1)]
    BY <1>2, ThresholdAssumption DEF CountEvent, TypeOK
  <2> QED BY <1>2, <2>1 DEF CountEvent, TypeOK, memVars, runVars, procVars
<1>3. CASE StopTask(t)
  <2>1. /\ row' \in [Runs -> RowStates] /\ cancel' \in [Runs -> CancelStates]
        /\ executing' \subseteq Tasks
    BY <1>3 DEF StopTask, Cancelled, TypeOK, RowStates, CancelStates
  <2> QED BY <1>3, <2>1 DEF StopTask, TypeOK, RowStates, CancelStates, dbVars, procVars
<1>4. CASE Pause(t)
  BY <1>4 DEF Pause, TypeOK, memVars, runVars, procVars
<1>5. CASE Resume(t)
  BY <1>5 DEF Resume, TypeOK, memVars, runVars, procVars
<1>6. CASE Reschedule(t)
  BY <1>6 DEF Reschedule, TypeOK, memVars, runVars, procVars
<1> QED BY <1>1, <1>2, <1>3, <1>4, <1>5, <1>6 DEF TaskStep

LEMMA ProcessStepType ==
    ASSUME TypeOK, ProcessStep
    PROVE  TypeOK'
<1>1. CASE StopBackground
  <2>1. row' \in [Runs -> RowStates] /\ cancel' \in [Runs -> CancelStates]
    BY <1>1 DEF StopBackground, Cancelled, TypeOK, RowStates, CancelStates
  <2> QED BY <1>1, <2>1 DEF StopBackground, TypeOK, RowStates, CancelStates, dbVars, memVars
<1>2. CASE ForegroundStarts
  BY <1>2 DEF ForegroundStarts, TypeOK, dbVars, memVars, runVars
<1>3. CASE ForegroundEnds
  BY <1>3 DEF ForegroundEnds, TypeOK, dbVars, memVars, runVars
<1>4. CASE Crash
  BY <1>4 DEF Crash, TypeOK, dbVars
<1>5. CASE Restart
  BY <1>5 DEF Restart, TypeOK, memVars
<1> QED BY <1>1, <1>2, <1>3, <1>4, <1>5 DEF ProcessStep

\* Every variable keeps its type; in particular an event counter never reaches
\* the threshold at which _handle_event resets it.
THEOREM TypeCorrect == Spec => []TypeOK
<1>1. Init => TypeOK
  <2> SUFFICES ASSUME Init PROVE TypeOK
    OBVIOUS
  <2>1. counter \in [Tasks -> 0..(Threshold - 1)]
    BY ThresholdAssumption DEF Init
  <2>2. nextRun \in [Tasks -> {"none", "due", "later"}]
    BY DEF Init
  <2> QED BY <2>1, <2>2 DEF Init, TypeOK
<1>2. TypeOK /\ [Next]_vars => TypeOK'
  <2> SUFFICES ASSUME TypeOK, [Next]_vars
               PROVE  TypeOK'
    OBVIOUS
  <2>1. CASE UNCHANGED vars
    BY <2>1 DEF vars, dbVars, memVars, runVars, procVars, TypeOK
  <2> QED BY <2>1, RunStepType, DispatchType, TaskStepType, ProcessStepType DEF Next
<1> QED BY <1>1, <1>2, PTL DEF Spec

-----------------------------------------------------------------------------
(* What a step of one coroutine does to the dictionaries and to the others *)

\* A run past the semaphore is inside `async with`.
SlotHeldBy(s) == NeedsSlot(s) /\ pc[s] \in Started \ {"slot"} => slotHolder = s
SlotHeld      == \A s \in Runs : SlotHeldBy(s)

\* Other coroutines, other tasks' entries and the slot of another are left alone.
Framed(s) ==
    /\ \A q \in Runs \ {s} :
        /\ pc'[q] = pc[q] /\ task'[q] = task[q] /\ force'[q] = force[q]
        /\ cancel'[q] = cancel[q] /\ row'[q] = row[q]
    /\ \A t \in Tasks \ {task[s]} : handle'[t] = handle[t] /\ (t \in executing <=> t \in executing')
    /\ force[s] => executing \subseteq executing'
    /\ slotHolder' = slotHolder \/ slotHolder \in {s, NoRun}
    /\ up' = up

\* A coroutine still in flight kept its task, its membership and its handle, or
\* has just taken them.
Keeps(s) ==
    /\ pc'[s] \notin {"spawned", "worker"}
    /\ pc'[s] \in Started =>
        /\ task'[s] = task[s] /\ force'[s] = force[s]
        /\ task[s] \in executing => task[s] \in executing'
        /\ \/ pc[s] \in Started /\ handle' = handle
           \/ pc[s] \in {"spawned", "worker"} /\ handle'[task[s]] = s
           \/ /\ pc[s] = "chained" /\ handle'[task[s]] = s
              /\ task[s] \notin executing /\ task[s] \in executing'
    /\ pc'[s] \notin Started /\ force'[s] => pc[s] = "chained" /\ force[s]
    /\ pc[s] = "chained" => task[s] \notin executing \/ executing' = executing

Effect(s) == Framed(s) /\ Keeps(s) /\ SlotHeldBy(s)'

LEMMA EndEffect ==
    ASSUME TypeOK, NEW s \in Runs, pc[s] # "free",
           NEW ex, ex = executing \/ (pc[s] = "chained" /\ ex = executing \cup {task[s]}),
           pc[s] = "chained" => task[s] \notin executing,
           NEW holder \in {slotHolder, s}, holder = slotHolder \/ slotHolder = NoRun,
           NEW h \in {handle, [handle EXCEPT ![task[s]] = s]},
           Release(s, h, ex, holder),
           NEW p \in {"free", "chained"}, pc' = [pc EXCEPT ![s] = p],
           NEW u, task' = [task EXCEPT ![s] = u],
           \A q \in Runs \ {s} : row'[q] = row[q], up' = up
    PROVE  Effect(s)
<1> task[s] \in Tasks
  BY DEF TypeOK
<1>1. Framed(s)
  BY DEF Framed, Release, TypeOK
<1>2. Keeps(s)
  BY DEF Keeps, Release, TypeOK, Started, InBody, Unwinding
<1>3. SlotHeldBy(s)'
  BY DEF SlotHeldBy, Started, InBody, Unwinding, TypeOK
<1> QED BY <1>1, <1>2, <1>3 DEF Effect

LEMMA EnterEffect ==
    ASSUME TypeOK, NEW s \in Runs, pc[s] \in Unstarted \cup {"slot"},
           NEW ex, ex = executing \/ (pc[s] = "chained" /\ ex = executing \cup {task[s]}),
           pc[s] = "chained" => task[s] \in ex /\ task[s] \notin executing,
           NEW holder \in {slotHolder, s}, holder = slotHolder \/ slotHolder = NoRun,
           NeedsSlot(s) => holder = s,
           NEW h, h = IF pc[s] = "slot" THEN handle ELSE [handle EXCEPT ![task[s]] = s],
           NEW r, NEW c, Enter(s, h, ex, holder, r, c), up' = up
    PROVE  Effect(s)
<1>1. pc[s] # "free" /\ task[s] \in Tasks
  BY DEF TypeOK, Unstarted
<1>2. CASE End(s, h, ex, holder)
  <2>1. \A q \in Runs \ {s} : row'[q] = row[q]
    BY DEF Enter, StartBody, TypeOK
  <2> QED BY <1>1, <1>2, <2>1, EndEffect DEF End
<1>3. CASE /\ handle' = h /\ executing' = ex /\ slotHolder' = holder
           /\ cancel' = [cancel EXCEPT ![s] = c]
           /\ \/ /\ pc' = [pc EXCEPT ![s] = "quiet"]
                 /\ row' = [row EXCEPT ![s] = r]
                 /\ UNCHANGED <<status, nextRun, seen>>
              \/ StartBody(s)
           /\ UNCHANGED <<task, force>>
  <2>1. Framed(s)
    BY <1>1, <1>3 DEF Framed, StartBody, TypeOK
  <2>2. Keeps(s)
    BY <1>1, <1>3 DEF Keeps, StartBody, TypeOK, Started, Unstarted, InBody, Unwinding
  <2>3. SlotHeldBy(s)'
    BY <1>3 DEF SlotHeldBy, NeedsSlot
  <2> QED BY <2>1, <2>2, <2>3 DEF Effect
<1> QED BY <1>2, <1>3 DEF Enter

LEMMA RunStepEffect ==
    ASSUME TypeOK, NEW s \in Runs, SlotHeldBy(s), RunStep(s)
    PROVE  Effect(s)
<1> USE DEF Started, InBody, Unwinding
<1>1. CASE Begin(s)
  <2> DEFINE t  == task[s]
             h  == [handle EXCEPT ![t] = s]
             ex == IF pc[s] = "chained" THEN executing \cup {t} ELSE executing
             c  == IF pc[s] = "worker" THEN "stop" ELSE "none"
  <2>1. /\ pc[s] \in Unstarted /\ pc[s] # "free" /\ pc[s] # "slot" /\ t \in Tasks
        /\ ex = executing \/ (pc[s] = "chained" /\ ex = executing \cup {t})
        /\ pc[s] = "chained" => t \in ex /\ t \notin executing
        /\ h = IF pc[s] = "slot" THEN handle ELSE [handle EXCEPT ![task[s]] = s]
        /\ h \in {handle, [handle EXCEPT ![task[s]] = s]}
        /\ up' = up
    BY <1>1 DEF Begin, TypeOK, Unstarted, procVars
  <2> HIDE DEF ex, c
  <2>2. CASE ~NeedsSlot(s) /\ Enter(s, h, ex, slotHolder, "queued", c)
    BY <2>1, <2>2, EnterEffect
  <2>3. CASE SlotFree /\ Enter(s, h, ex, s, "queued", c)
    BY <2>1, <2>3, EnterEffect DEF SlotFree
  <2>4. CASE /\ pc' = [pc EXCEPT ![s] = "slot"]
             /\ row' = [row EXCEPT ![s] = "queued"]
             /\ cancel' = [cancel EXCEPT ![s] = c]
             /\ handle' = h /\ executing' = ex
             /\ UNCHANGED <<status, nextRun, slotHolder, task, force, seen>>
    BY <2>1, <2>4 DEF Effect, Framed, Keeps, SlotHeldBy, TypeOK, Unstarted
  <2>5. CASE row' = [row EXCEPT ![s] = "queued"] /\ End(s, h, ex, slotHolder)
    <3>1. \A q \in Runs \ {s} : row'[q] = row[q]
      BY <2>5 DEF TypeOK
    <3> QED BY <2>1, <2>5, <3>1, EndEffect DEF End
  <2> QED BY <1>1, <2>2, <2>3, <2>4, <2>5 DEF Begin, ex, c
<1>2. CASE ChainRefused(s)
  BY <1>2 DEF ChainRefused, Effect, Framed, Keeps, SlotHeldBy, TypeOK, memVars, procVars
<1>3. CASE TakeSlot(s)
  <2>1. /\ pc[s] = "slot" /\ slotHolder = NoRun /\ UNCHANGED procVars
        /\ Enter(s, handle, executing, s, row[s], "none")
    BY <1>3 DEF TakeSlot, Waiting
  <2> QED BY <2>1, EnterEffect DEF procVars
<1>4. CASE LeaveQuiet(s)
  BY <1>4 DEF LeaveQuiet, StartBody, Effect, Framed, Keeps, SlotHeldBy, NeedsSlot, TypeOK,
              memVars, procVars
<1>5. CASE DeliverResult(s)
  BY <1>5 DEF DeliverResult, Effect, Framed, Keeps, SlotHeldBy, NeedsSlot, TypeOK,
              memVars, procVars
<1>6. ASSUME NEW o, pc[s] \in Started, Finish(s, o), UNCHANGED procVars
      PROVE  Effect(s)
  <2>1. \A q \in Runs \ {s} : row'[q] = row[q]
    BY <1>6 DEF Finish, TypeOK
  <2>2. Release(s, handle, executing, slotHolder) /\ up' = up
    BY <1>6 DEF Finish, procVars
  <2>3. CASE /\ pc' = [pc EXCEPT ![s] = "chained"]
             /\ task' = [task EXCEPT ![s] = ThenTask[task[s]]]
    BY <1>6, <2>1, <2>2, <2>3, EndEffect
  <2>4. CASE /\ pc' = [pc EXCEPT ![s] = "free"]
             /\ task' = [task EXCEPT ![s] = NoTask]
    BY <1>6, <2>1, <2>2, <2>4, EndEffect
  <2> QED BY <1>6, <2>3, <2>4 DEF Finish
<1>7. CASE BodyEnds(s)
  <2>1. pc[s] \in Started /\ UNCHANGED procVars
    BY <1>7 DEF BodyEnds
  <2>2. PICK o \in {"success", "failure", "raised"} :
           IF force[s] THEN Finish(s, o)
           ELSE /\ pc' = [pc EXCEPT ![s] = o]
                /\ UNCHANGED <<status, nextRun, row, executing, handle, slotHolder,
                               task, force, cancel, seen>>
    BY <1>7 DEF BodyEnds
  <2>3. CASE force[s]
    BY <2>1, <2>2, <2>3, <1>6
  <2>4. CASE ~force[s]
    BY <1>7, <2>1, <2>2, <2>4
       DEF BodyEnds, Effect, Framed, Keeps, SlotHeldBy, NeedsSlot, TypeOK, procVars
  <2> QED BY <2>3, <2>4
<1>8. ASSUME NEW r, NEW v, NEW direct, pc[s] \in InBody, Settled(s, r, v, direct)
      PROVE  Effect(s)
  <2>1. (\A q \in Runs \ {s} : row'[q] = row[q]) /\ up' = up
    BY <1>8 DEF Settled, TypeOK, procVars
  <2>2. CASE End(s, handle, executing, slotHolder)
    BY <1>8, <2>1, <2>2, EndEffect DEF End
  <2>3. CASE /\ pc' = [pc EXCEPT ![s] = "settled"]
             /\ cancel' = [cancel EXCEPT ![s] = "none"]
             /\ UNCHANGED <<executing, handle, slotHolder, task, force, seen>>
    BY <1>8, <2>1, <2>3 DEF Effect, Framed, Keeps, SlotHeldBy, NeedsSlot, TypeOK
  <2> QED BY <1>8, <2>2, <2>3 DEF Settled
<1>9. CASE BodyNoop(s)
  BY <1>8, <1>9 DEF BodyNoop
<1>10. CASE BodyDefers(s)
  BY <1>8, <1>10 DEF BodyDefers
<1>11. CASE CancelBody(s)
  BY <1>8, <1>11 DEF CancelBody
<1>12. CASE Settle(s)
  BY <1>6, <1>12 DEF Settle
<1>13. CASE CancelQueued(s)
  <2>1. /\ (\A q \in Runs \ {s} : row'[q] = row[q]) /\ up' = up
        /\ pc[s] # "free" /\ pc[s] # "chained"
    BY <1>13 DEF CancelQueued, TypeOK, procVars
  <2> QED BY <1>13, <2>1, EndEffect DEF CancelQueued, End
<1>14. CASE MonitorFires(s)
  BY <1>14 DEF MonitorFires, Effect, Framed, Keeps, SlotHeldBy, NeedsSlot, TypeOK,
               memVars, procVars
<1> QED BY <1>1, <1>2, <1>3, <1>4, <1>5, <1>7, <1>9, <1>10, <1>11, <1>12, <1>13, <1>14
        DEF RunStep

-----------------------------------------------------------------------------
(* Serial execution of model-backed runs *)

\* Steps outside the coroutines leave the slot alone, and move no coroutine
\* from where it is, unless the process stops.
Outside == Dispatch \/ (\E t \in Tasks : TaskStep(t)) \/ ProcessStep

LEMMA OutsideFrame ==
    ASSUME TypeOK, Outside
    PROVE  \/ /\ slotHolder' = slotHolder
              /\ handle' = handle
              /\ \A s \in Runs : pc[s] # "free" => /\ pc'[s] = pc[s] /\ task'[s] = task[s]
                                                   /\ force'[s] = force[s]
              /\ \A s \in Runs : pc[s] = "free" => pc'[s] \in {"free", "spawned", "worker"}
           \/ \A s \in Runs : pc'[s] = "free" /\ force'[s] = FALSE
<1>1. CASE Dispatch
  BY <1>1 DEF Dispatch, DispatchDue, DeferDue, RunNow, ForceRun, TriggerEvent, Spawn, FreeRuns,
              TypeOK, memVars, runVars
<1>2. CASE \E t \in Tasks : TaskStep(t)
  BY <1>2 DEF TaskStep, TimePasses, CountEvent, StopTask, Pause, Resume, Reschedule, memVars, runVars
<1>3. CASE ProcessStep
  BY <1>3 DEF ProcessStep, StopBackground, ForegroundStarts, ForegroundEnds, Crash, Restart,
              memVars, runVars
<1> QED BY <1>1, <1>2, <1>3 DEF Outside

LEMMA SerialInvariant == Spec => []SlotHeld
<1>1. Init => SlotHeld
  BY DEF Init, SlotHeld, SlotHeldBy, Started, InBody, Unwinding
<1>2. TypeOK /\ SlotHeld /\ [Next]_vars => SlotHeld'
  <2> SUFFICES ASSUME TypeOK, SlotHeld, [Next]_vars
               PROVE  SlotHeld'
    OBVIOUS
  <2>1. ASSUME NEW s \in Runs, RunStep(s)
        PROVE  SlotHeld'
    <3>1. Effect(s)
      BY <2>1, RunStepEffect DEF SlotHeld
    <3>2. ASSUME NEW q \in Runs \ {s}
          PROVE  SlotHeldBy(q)'
      <4>1. SlotHeldBy(q) /\ q # NoRun
        BY TasksAssumption DEF SlotHeld
      <4> QED BY <3>1, <3>2, <4>1 DEF Effect, Framed, SlotHeldBy, NeedsSlot
    <3> QED BY <3>1, <3>2 DEF Effect, SlotHeld
  <2>2. CASE Outside
    <3> SUFFICES ASSUME NEW q \in Runs, NeedsSlot(q)', pc'[q] \in Started \ {"slot"}
                 PROVE  slotHolder' = q
      BY DEF SlotHeld, SlotHeldBy
    <3>1. pc'[q] \notin {"free", "spawned", "worker"}
      BY DEF Started, InBody, Unwinding
    <3>2. /\ slotHolder' = slotHolder
          /\ pc'[q] = pc[q] /\ task'[q] = task[q] /\ force'[q] = force[q]
      BY <2>2, <3>1, OutsideFrame
    <3> QED BY <3>2 DEF SlotHeld, SlotHeldBy, NeedsSlot
  <2>3. CASE UNCHANGED vars
    BY <2>3 DEF vars, memVars, runVars, SlotHeld, SlotHeldBy, NeedsSlot
  <2> QED BY <2>1, <2>2, <2>3 DEF Next, Outside
<1> QED BY <1>1, <1>2, TypeCorrect, PTL DEF Spec

\* "Strict serial execution": of the runs that go through the semaphore, at most
\* one is past it.  The inductive strengthening names the one: the holder.
THEOREM SerialModelRuns == Spec => []OneModelRun
<1>1. SlotHeld => OneModelRun
  BY DEF SlotHeld, SlotHeldBy, OneModelRun
<1> QED BY <1>1, SerialInvariant, PTL

-----------------------------------------------------------------------------
(* One dispatch per task *)

\* What _executing is for: the task of a coroutine in flight is a member of it.
Member(s)    == Dispatched(s) /\ task[s] \notin Stoppable => task[s] \in executing
DispatchInv  == DispatchedOnce /\ \A s \in Runs : Member(s)

LEMMA RunStepDispatch ==
    ASSUME TypeOK, SlotHeld, DispatchInv, NEW s \in Runs, RunStep(s)
    PROVE  DispatchInv'
<1> USE DEF Dispatched
<1>1. Framed(s) /\ Keeps(s)
  BY RunStepEffect DEF SlotHeld, Effect
<1>2. \A q \in Runs : pc[q] # "free" => task[q] \in Tasks
  BY DEF TypeOK
<1>3. \A q \in Runs \ {s} :
         Dispatched(q)' => /\ Dispatched(q) /\ task'[q] = task[q]
                           /\ task[q] \notin Stoppable => task[q] \in executing'
  <2> SUFFICES ASSUME NEW q \in Runs \ {s}, Dispatched(q)'
               PROVE  /\ Dispatched(q) /\ task'[q] = task[q]
                      /\ task[q] \notin Stoppable => task[q] \in executing'
    OBVIOUS
  <2>1. Dispatched(q) /\ task'[q] = task[q]
    BY <1>1 DEF Framed
  <2>2. ASSUME task[q] \notin Stoppable PROVE task[q] \in executing'
    <3>1. task[q] \in executing /\ task[q] \in Tasks
      BY <1>2, <2>1, <2>2 DEF DispatchInv, Member
    <3>2. CASE task[q] # task[s]
      BY <1>1, <3>1, <3>2 DEF Framed
    <3>3. CASE task[q] = task[s]
      <4>1. pc[s] # "free"
        BY <3>1, <3>3, TasksAssumption DEF TypeOK
      <4>2. ~Dispatched(s)
        BY <2>1, <2>2, <3>3 DEF DispatchInv, DispatchedOnce
      <4>3. force[s] \/ pc[s] = "chained"
        BY <4>1, <4>2 DEF TypeOK
      <4> QED BY <1>1, <3>1, <3>3, <4>3 DEF Framed, Keeps
    <3> QED BY <3>2, <3>3
  <2> QED BY <2>1, <2>2
<1>4. Dispatched(s)' =>
        /\ task'[s] = task[s]
        /\ \/ Dispatched(s) /\ (task[s] \in executing => task[s] \in executing')
           \/ task[s] \notin executing /\ task[s] \in executing'
  <2>1. pc'[s] \in Started \/ pc'[s] \in {"free", "chained", "spawned", "worker"} \/ s \notin DOMAIN pc'
    BY RunStepType DEF TypeOK, Unstarted
  <2> QED BY <1>1, <2>1, RunStepType DEF Keeps, TypeOK, Started, InBody, Unwinding
<1>5. \A q \in Runs : Member(q)'
  BY <1>2, <1>3, <1>4 DEF Member, DispatchInv
<1>6. DispatchedOnce'
  BY <1>3, <1>4 DEF DispatchedOnce, DispatchInv, Member
<1> QED BY <1>5, <1>6 DEF DispatchInv

LEMMA OutsideDispatch ==
    ASSUME TypeOK, DispatchInv, Outside
    PROVE  DispatchInv'
<1> USE DEF Dispatched
<1>1. ASSUME NEW s \in Runs, NEW t \in Tasks, NEW how \in {"spawned", "worker"},
             t \notin executing, Spawn(s, t, how), executing' = executing \cup {t},
             UNCHANGED force
      PROVE  DispatchInv'
  BY <1>1 DEF Spawn, DispatchInv, DispatchedOnce, Member, TypeOK
<1>2. ASSUME UNCHANGED <<pc, task, force>>, NEW gone \in SUBSET Stoppable, executing' = executing \ gone
      PROVE  DispatchInv'
  BY <1>2 DEF DispatchInv, DispatchedOnce, Member
<1>3. CASE UNCHANGED <<pc, task, force, executing>>
  BY <1>3 DEF DispatchInv, DispatchedOnce, Member
<1>4. CASE DispatchDue
  <2>1. PICK S \in SUBSET FreeRuns : \E f \in Bijection(S, Due) :
          /\ pc' = [s \in Runs |-> IF s \in S THEN "spawned" ELSE pc[s]]
          /\ task' = [s \in Runs |-> IF s \in S THEN f[s] ELSE task[s]]
    BY <1>4 DEF DispatchDue
  <2>2. PICK f \in Bijection(S, Due) :
          /\ pc' = [s \in Runs |-> IF s \in S THEN "spawned" ELSE pc[s]]
          /\ task' = [s \in Runs |-> IF s \in S THEN f[s] ELSE task[s]]
    BY <2>1
  <2>3. /\ \A s \in S : f[s] \in Due
        /\ \A r, s \in S : f[r] = f[s] => r = s
    BY DEF Bijection, Injection, IsInjective
  <2>4. executing' = executing \cup Due /\ force' = force
    BY <1>4 DEF DispatchDue
  <2>5. \A s \in S : s \in Runs /\ pc[s] = "free"
    BY DEF FreeRuns
  <2>6. \A s \in Runs : Member(s)'
    BY <2>2, <2>3, <2>4, <2>5 DEF Member, DispatchInv
  <2>7. \A t \in Due : t \notin executing
    BY DEF Due
  <2>8. DispatchedOnce'
    <3> SUFFICES ASSUME NEW r \in Runs, NEW s \in Runs, Dispatched(r)', Dispatched(s)',
                        task'[r] = task'[s], task'[r] \notin Stoppable
                 PROVE  r = s
      BY DEF DispatchedOnce
    <3>1. CASE r \in S /\ s \in S
      BY <2>2, <2>3, <3>1
    <3>2. CASE r \notin S /\ s \notin S
      BY <2>2, <2>4, <3>2 DEF DispatchInv, DispatchedOnce
    <3>3. CASE r \in S /\ s \notin S
      BY <2>2, <2>3, <2>4, <2>7, <3>3 DEF DispatchInv, Member
    <3>4. CASE r \notin S /\ s \in S
      BY <2>2, <2>3, <2>4, <2>7, <3>4 DEF DispatchInv, Member
    <3> QED BY <3>1, <3>2, <3>3, <3>4
  <2> QED BY <2>6, <2>8 DEF DispatchInv
<1>5. ASSUME NEW s \in Runs, NEW t \in Tasks, ForceRun(s, t)
      PROVE  DispatchInv'
  BY <1>5 DEF ForceRun, Spawn, DispatchInv, DispatchedOnce, Member, TypeOK, memVars
<1>6. CASE Dispatch
  <2>1. CASE DeferDue
    BY <1>3, <2>1 DEF DeferDue, memVars, runVars
  <2>2. ASSUME NEW s \in Runs, NEW t \in Tasks, RunNow(s, t) PROVE DispatchInv'
    BY <1>1, <2>2 DEF RunNow
  <2>3. ASSUME NEW s \in Runs, NEW t \in Tasks, NEW how \in {"spawned", "worker"},
               TriggerEvent(s, t, how)
        PROVE  DispatchInv'
    BY <1>1, <1>3, <2>3 DEF TriggerEvent
  <2> QED BY <1>4, <1>5, <1>6, <2>1, <2>2, <2>3 DEF Dispatch
<1>7. ASSUME NEW t \in Tasks, TaskStep(t) PROVE DispatchInv'
  <2>1. CASE StopTask(t)
    BY <1>2, <2>1 DEF StopTask
  <2>2. CASE ~StopTask(t)
    BY <1>3, <1>7, <2>2 DEF TaskStep, TimePasses, CountEvent, Pause, Resume, Reschedule,
                            memVars, runVars
  <2> QED BY <2>1, <2>2
<1>8. CASE ProcessStep
  <2>1. CASE Crash
    BY <2>1 DEF Crash, DispatchInv, DispatchedOnce, Member
  <2>2. CASE ~Crash
    BY <1>3, <1>8, <2>2 DEF ProcessStep, StopBackground, ForegroundStarts, ForegroundEnds, Restart,
                            memVars, runVars
  <2> QED BY <2>1, <2>2
<1> QED BY <1>6, <1>7, <1>8 DEF Outside

\* The three invariants together, and their preservation.
CoreInv == TypeOK /\ SlotHeld /\ DispatchInv

LEMMA CoreInvariant == Spec => []CoreInv
<1>1. Init => DispatchInv
  BY DEF Init, DispatchInv, DispatchedOnce, Member, Dispatched
<1>2. TypeOK /\ SlotHeld /\ DispatchInv /\ [Next]_vars => DispatchInv'
  <2> SUFFICES ASSUME TypeOK, SlotHeld, DispatchInv, [Next]_vars
               PROVE  DispatchInv'
    OBVIOUS
  <2>1. CASE UNCHANGED vars
    BY <2>1 DEF vars, memVars, runVars, DispatchInv, DispatchedOnce, Member, Dispatched
  <2> QED BY <2>1, RunStepDispatch, OutsideDispatch DEF Next, Outside
<1> QED BY <1>1, <1>2, TypeCorrect, SerialInvariant, PTL DEF Spec, CoreInv

\* A task that no user stops never has two coroutines in flight: the scheduler
\* tick, manual runs, events and chains all go through _executing, and only the
\* coroutine that is in flight takes its task out of it.
THEOREM DispatchOnce == Spec => []DispatchedOnce
<1>1. CoreInv => DispatchedOnce
  BY DEF CoreInv, DispatchInv
<1> QED BY <1>1, CoreInvariant, PTL

-----------------------------------------------------------------------------
(* The foreground reaches every run *)

ForcedOnly == \A s \in Runs : force[s] => /\ task[s] \in Forceable
                                          /\ pc[s] \in {"spawned"} \cup Started
ReachInv   == RunsAreStoppable /\ ForcedOnly

LEMMA RunStepReach ==
    ASSUME CoreInv, ReachInv, NEW s \in Runs, RunStep(s)
    PROVE  ReachInv'
<1>1. Framed(s) /\ Keeps(s) /\ TypeOK /\ DispatchInv'
  BY RunStepEffect, RunStepDispatch DEF SlotHeld, Effect, CoreInv
<1>2. ForcedOnly'
  <2> SUFFICES ASSUME NEW q \in Runs, force'[q]
               PROVE  task'[q] \in Forceable /\ pc'[q] \in {"spawned"} \cup Started
    BY DEF ForcedOnly
  <2>1. CASE q # s
    BY <1>1, <2>1 DEF Framed, ReachInv, ForcedOnly
  <2>2. CASE q = s
    BY <1>1, <2>2 DEF Keeps, ReachInv, ForcedOnly, Started, InBody, Unwinding
  <2> QED BY <2>1, <2>2
<1>3. RunsAreStoppable'
  <2> SUFFICES ASSUME NEW q \in Runs, pc'[q] \in Started, ~force'[q],
                      task'[q] \notin Stoppable \cup Forceable
               PROVE  task'[q] \in executing' /\ handle'[task'[q]] = q
    BY DEF RunsAreStoppable
  <2>1. Dispatched(q)' /\ task'[q] \in executing'
    BY <1>1 DEF Dispatched, DispatchInv, Member, Started, InBody, Unwinding
  <2>2. CASE q = s
    BY <1>1, <2>1, <2>2 DEF Keeps, ReachInv, RunsAreStoppable
  <2>3. CASE q # s
    <3>1. pc[q] \in Started /\ ~force[q] /\ task'[q] = task[q]
      BY <1>1, <2>3 DEF Framed
    <3>2. task[q] \in executing /\ handle[task[q]] = q /\ task[q] \in Tasks /\ Dispatched(q)
      BY <1>1, <3>1 DEF ReachInv, RunsAreStoppable, TypeOK, Dispatched, Started, InBody, Unwinding
    <3>3. CASE task[q] # task[s]
      BY <1>1, <2>1, <3>1, <3>2, <3>3 DEF Framed
    <3>4. CASE task[q] = task[s]
      <4>1. ~force[s]
        BY <3>1, <3>4 DEF ReachInv, ForcedOnly
      <4>2. pc[s] # "free"
        BY <3>2, <3>4, TasksAssumption, <1>1 DEF TypeOK
      <4>3. pc[s] = "chained"
        BY <2>3, <3>1, <3>2, <3>4, <4>1, <4>2 DEF CoreInv, DispatchInv, DispatchedOnce, Dispatched
      <4>4. ~ChainRefused(s) => FALSE
        BY <4>3, <3>2, <3>4 DEF RunStep, Begin, TakeSlot, Waiting, LeaveQuiet, DeliverResult,
           BodyEnds, BodyNoop, BodyDefers, CancelBody, CancelQueued, Settle, MonitorFires,
           InBody, Unwinding
      <4> QED BY <2>1, <3>1, <3>2, <4>4 DEF ChainRefused, memVars
    <3> QED BY <3>3, <3>4
  <2> QED BY <2>2, <2>3
<1> QED BY <1>2, <1>3 DEF ReachInv

LEMMA OutsideReach ==
    ASSUME CoreInv, ReachInv, Outside
    PROVE  ReachInv'
<1>1. DispatchInv' /\ TypeOK
  BY OutsideDispatch DEF CoreInv
<1>2. RunsAreStoppable'
  <2> SUFFICES ASSUME NEW q \in Runs, pc'[q] \in Started, ~force'[q],
                      task'[q] \notin Stoppable \cup Forceable
               PROVE  task'[q] \in executing' /\ handle'[task'[q]] = q
    BY DEF RunsAreStoppable
  <2>1. task'[q] \in executing'
    BY <1>1 DEF Dispatched, DispatchInv, Member, Started, InBody, Unwinding
  <2>2. pc'[q] \notin {"free", "spawned", "worker"}
    BY DEF Started, InBody, Unwinding
  <2>3. handle' = handle /\ pc'[q] = pc[q] /\ task'[q] = task[q] /\ force'[q] = force[q]
    BY <1>1, <2>2, OutsideFrame
  <2> QED BY <2>1, <2>3 DEF ReachInv, RunsAreStoppable
<1>3. ForcedOnly'
  <2>1. ASSUME NEW s \in Runs, NEW t \in Tasks, ForceRun(s, t) PROVE ForcedOnly'
    BY <1>1, <2>1 DEF ForceRun, Spawn, ReachInv, ForcedOnly, TypeOK, Started, InBody, Unwinding
  <2>2. CASE Dispatch /\ ~ \E s \in Runs, t \in Tasks : ForceRun(s, t)
    BY <1>1, <2>2 DEF Dispatch, DispatchDue, DeferDue, RunNow, TriggerEvent, Spawn, FreeRuns,
       ReachInv, ForcedOnly, TypeOK, Started, InBody, Unwinding, runVars
  <2>3. CASE \E t \in Tasks : TaskStep(t)
    BY <2>3 DEF TaskStep, TimePasses, CountEvent, StopTask, Pause, Resume, Reschedule, runVars,
       ReachInv, ForcedOnly
  <2>4. CASE ProcessStep
    BY <2>4 DEF ProcessStep, StopBackground, ForegroundStarts, ForegroundEnds, Crash, Restart,
       runVars, ReachInv, ForcedOnly
  <2> QED BY <2>1, <2>2, <2>3, <2>4 DEF Outside
<1> QED BY <1>2, <1>3 DEF ReachInv

LEMMA ReachInvariant == Spec => []ReachInv
<1>1. Init => ReachInv
  BY DEF Init, ReachInv, RunsAreStoppable, ForcedOnly, Started, InBody, Unwinding
<1>2. CoreInv /\ ReachInv /\ [Next]_vars => ReachInv'
  <2> SUFFICES ASSUME CoreInv, ReachInv, [Next]_vars
               PROVE  ReachInv'
    OBVIOUS
  <2>1. CASE UNCHANGED vars
    BY <2>1 DEF vars, memVars, runVars, ReachInv, RunsAreStoppable, ForcedOnly
  <2> QED BY <2>1, RunStepReach, OutsideReach DEF Next, Outside
<1> QED BY <1>1, <1>2, CoreInvariant, PTL DEF Spec

\* Every coroutine that has started a task nobody stops or forces is in
\* _executing under its own handle: stop_background_tasks_for_foreground, which
\* walks those two dictionaries, misses none.
THEOREM EveryRunReachable == Spec => []RunsAreStoppable
<1>1. ReachInv => RunsAreStoppable
  BY DEF ReachInv
<1> QED BY <1>1, ReachInvariant, PTL

-----------------------------------------------------------------------------
(* Nothing that blocks the others outlives its coroutine *)

\* A step of s takes the slot, the handle and the membership of its task only for
\* the coroutine it leaves in flight.
Gives(s) ==
    /\ slotHolder' \in {slotHolder, s, NoRun}
    /\ slotHolder' = s => InSlot(s)'
    /\ handle'[task[s]] \in {handle[task[s]], s, NoRun}
    /\ handle'[task[s]] = s => pc'[s] \in Started /\ task'[s] = task[s]
    /\ \/ Dispatched(s)' /\ task'[s] = task[s]
       \/ task[s] \in executing' => task[s] \in executing /\ ~Dispatched(s)

\* What NothingLeaks and ForcedOnly say of the coroutine that takes the step.
Owns(s) ==
    /\ slotHolder = s => InSlot(s)
    /\ \A t \in Tasks : handle[t] = s => task[s] = t /\ pc[s] \in Started
    /\ force[s] => pc[s] \in {"spawned"} \cup Started
    /\ pc[s] = "slot" => NeedsSlot(s)

LEMMA EndGives ==
    ASSUME TypeOK, NEW s \in Runs, pc[s] # "free",
           NEW ex, force[s] => ex = executing,
           NEW holder \in {slotHolder, s},
           NEW h \in {handle, [handle EXCEPT ![task[s]] = s]},
           Release(s, h, ex, holder)
    PROVE  Gives(s)
<1> task[s] \in Tasks /\ s # NoRun
  BY TasksAssumption DEF TypeOK
<1>1. handle'[task[s]] \in {handle[task[s]], NoRun} /\ handle'[task[s]] # s
  BY DEF Release, TypeOK
<1>2. slotHolder' \in {slotHolder, NoRun} /\ slotHolder' # s
  BY DEF Release, TypeOK
<1>3. task[s] \in executing' => task[s] \in executing /\ ~Dispatched(s)
  BY DEF Release, Dispatched
<1> QED BY <1>1, <1>2, <1>3 DEF Gives

LEMMA EnterGives ==
    ASSUME TypeOK, NEW s \in Runs, Owns(s), pc[s] \in Unstarted \cup {"slot"},
           NEW ex, force[s] => ex = executing,
           NEW holder \in {slotHolder, s}, holder = s => NeedsSlot(s),
           NEW h \in {handle, [handle EXCEPT ![task[s]] = s]},
           NEW r, NEW c, Enter(s, h, ex, holder, r, c)
    PROVE  Gives(s)
<1>1. pc[s] # "free" /\ task[s] \in Tasks
  BY DEF TypeOK, Unstarted
<1>2. CASE End(s, h, ex, holder)
  BY <1>1, <1>2, EndGives DEF End
<1>3. CASE /\ handle' = h /\ executing' = ex /\ slotHolder' = holder
           /\ cancel' = [cancel EXCEPT ![s] = c]
           /\ \/ /\ pc' = [pc EXCEPT ![s] = "quiet"]
                 /\ row' = [row EXCEPT ![s] = r]
                 /\ UNCHANGED <<status, nextRun, seen>>
              \/ StartBody(s)
           /\ UNCHANGED <<task, force>>
  <2>1. pc'[s] \in {"quiet", "body"} /\ task'[s] = task[s] /\ force'[s] = force[s]
    BY <1>3 DEF StartBody, TypeOK
  <2>2. pc'[s] \in Started \ {"slot"} /\ pc'[s] \notin {"free", "chained"}
    BY <2>1 DEF Started, InBody, Unwinding
  <2>3. holder = s => InSlot(s)'
    BY <2>1, <2>2 DEF InSlot, NeedsSlot
  <2>4. handle'[task[s]] \in {handle[task[s]], s}
    BY <1>1, <1>3 DEF TypeOK
  <2>5. Dispatched(s)' \/ (task[s] \in executing' => task[s] \in executing /\ ~Dispatched(s))
    BY <1>3, <2>1, <2>2 DEF Dispatched
  <2> QED BY <1>3, <2>1, <2>2, <2>3, <2>4, <2>5 DEF Gives
<1> QED BY <1>2, <1>3 DEF Enter

LEMMA RunStepGives ==
    ASSUME TypeOK, NEW s \in Runs, Owns(s), RunStep(s)
    PROVE  Gives(s)
<1> USE DEF Started, InBody, Unwinding
<1>0. TypeOK' /\ s # NoRun
  BY RunStepType, TasksAssumption
<1>1. CASE Begin(s)
  <2> DEFINE t  == task[s]
             h  == [handle EXCEPT ![t] = s]
             ex == IF pc[s] = "chained" THEN executing \cup {t} ELSE executing
             c  == IF pc[s] = "worker" THEN "stop" ELSE "none"
  <2>1. /\ pc[s] \in Unstarted /\ pc[s] # "free" /\ t \in Tasks
        /\ force[s] => ex = executing
        /\ h \in {handle, [handle EXCEPT ![task[s]] = s]}
        /\ slotHolder # s
    BY <1>1 DEF Begin, TypeOK, Unstarted, Owns, InSlot
  <2> HIDE DEF ex, c
  <2>2. CASE ~NeedsSlot(s) /\ Enter(s, h, ex, slotHolder, "queued", c)
    BY <2>1, <2>2, EnterGives
  <2>3. CASE NeedsSlot(s) /\ Enter(s, h, ex, s, "queued", c)
    BY <2>1, <2>3, EnterGives
  <2>4. CASE /\ NeedsSlot(s)
             /\ pc' = [pc EXCEPT ![s] = "slot"]
             /\ handle' = h /\ executing' = ex
             /\ UNCHANGED <<status, nextRun, slotHolder, task, force, seen>>
    BY <2>1, <2>4 DEF Gives, Dispatched, NeedsSlot, TypeOK
  <2>5. CASE End(s, h, ex, slotHolder)
    BY <2>1, <2>5, EndGives DEF End
  <2> QED BY <1>1, <2>2, <2>3, <2>4, <2>5 DEF Begin, ex, c
<1>2. CASE ChainRefused(s)
  <2>1. UNCHANGED <<executing, handle, slotHolder>> /\ pc[s] = "chained"
    BY <1>2 DEF ChainRefused, memVars
  <2>2. slotHolder # s /\ handle[task[s]] # s /\ ~Dispatched(s)
    BY <2>1 DEF Owns, InSlot, Dispatched, TypeOK
  <2> QED BY <2>1, <2>2 DEF Gives
<1>3. CASE TakeSlot(s)
  <2>1. pc[s] = "slot" /\ Enter(s, handle, executing, s, row[s], "none")
    BY <1>3 DEF TakeSlot, Waiting
  <2> QED BY <2>1, EnterGives DEF Owns
<1>4. ASSUME pc[s] \in Started \ {"slot"}, pc'[s] \in Started \ {"slot"},
             task'[s] = task[s], force'[s] = force[s],
             UNCHANGED <<executing, handle, slotHolder>>
      PROVE  Gives(s)
  BY <1>4 DEF Gives, Owns, InSlot, NeedsSlot, Dispatched, TypeOK
<1>5. CASE LeaveQuiet(s) \/ DeliverResult(s) \/ MonitorFires(s)
  BY <1>4, <1>5 DEF LeaveQuiet, StartBody, DeliverResult, MonitorFires, memVars, TypeOK
<1>6. ASSUME NEW o, pc[s] # "free", Finish(s, o) PROVE Gives(s)
  BY <1>6, EndGives DEF Finish
<1>7. CASE BodyEnds(s)
  <2>1. CASE \E o \in {"success", "failure", "raised"} : Finish(s, o)
    BY <1>6, <1>7, <2>1 DEF BodyEnds
  <2>2. CASE \E o \in {"success", "failure", "raised"} :
                /\ pc' = [pc EXCEPT ![s] = o]
                /\ UNCHANGED <<executing, handle, slotHolder, task, force>>
    BY <1>4, <1>7, <2>2 DEF BodyEnds, TypeOK
  <2> QED BY <1>7, <2>1, <2>2 DEF BodyEnds
<1>8. ASSUME NEW r, NEW v, NEW direct, pc[s] \in InBody, Settled(s, r, v, direct)
      PROVE  Gives(s)
  <2>1. CASE End(s, handle, executing, slotHolder)
    BY <1>8, <2>1, EndGives DEF End
  <2>2. CASE /\ pc' = [pc EXCEPT ![s] = "settled"]
             /\ UNCHANGED <<executing, handle, slotHolder, task, force, seen>>
    BY <1>4, <1>8, <2>2 DEF TypeOK
  <2> QED BY <1>8, <2>1, <2>2 DEF Settled
<1>9. CASE BodyNoop(s) \/ BodyDefers(s) \/ CancelBody(s)
  BY <1>8, <1>9 DEF BodyNoop, BodyDefers, CancelBody
<1>10. CASE Settle(s)
  BY <1>6, <1>10 DEF Settle
<1>11. CASE CancelQueued(s)
  BY <1>11, EndGives DEF CancelQueued, End
<1> QED BY <1>1, <1>2, <1>3, <1>5, <1>7, <1>9, <1>10, <1>11 DEF RunStep

\* A coroutine waits for the semaphore only if it needs it.
SlotWaiters == \A s \in Runs : pc[s] = "slot" => NeedsSlot(s)
LeakInv     == NothingLeaks /\ SlotWaiters

LEMMA RunStepLeaks ==
    ASSUME CoreInv, ReachInv, LeakInv, NEW s \in Runs, RunStep(s)
    PROVE  LeakInv'
<1>1. Framed(s) /\ TypeOK
  BY RunStepEffect DEF SlotHeld, Effect, CoreInv
<1>2. Owns(s)
  BY TasksAssumption DEF Owns, LeakInv, NothingLeaks, SlotOwned, HandlesAlive, SlotWaiters,
     ReachInv, ForcedOnly
<1>3. Gives(s)
  BY <1>1, <1>2, RunStepGives
<1>4. SlotOwned'
  <2>1. CASE slotHolder' = s
    BY <1>3, <2>1 DEF Gives, SlotOwned
  <2>2. CASE slotHolder' = slotHolder /\ slotHolder \in Runs \ {s}
    BY <1>1, <2>2 DEF LeakInv, NothingLeaks, SlotOwned, InSlot, NeedsSlot, Framed
  <2>3. CASE slotHolder' = NoRun
    BY <2>3 DEF SlotOwned
  <2> QED BY <1>1, <1>3, <2>1, <2>2, <2>3 DEF Gives, TypeOK
<1>5. ASSUME NEW t \in Tasks, t \in executing' PROVE \E q \in Runs : Dispatched(q)' /\ task'[q] = t
  <2>1. CASE t = task[s] /\ Dispatched(s)' /\ task'[s] = task[s]
    BY <2>1
  <2>2. CASE t \in executing /\ (t = task[s] => ~Dispatched(s))
    <3>1. PICK q \in Runs : Dispatched(q) /\ task[q] = t
      BY <2>2 DEF LeakInv, NothingLeaks, MembersAlive
    <3>2. q # s
      BY <2>2, <3>1
    <3> QED BY <1>1, <3>1, <3>2 DEF Framed, Dispatched
  <2> QED BY <1>1, <1>3, <1>5, <2>1, <2>2 DEF Framed, Gives
<1>6. ASSUME NEW t \in Tasks, NEW q \in Runs, handle'[t] = q
      PROVE  task'[q] = t /\ pc'[q] \in Started
  <2>1. CASE q # s
    <3>1. handle[t] = q
      BY <1>1, <1>3, <1>6, <2>1, TasksAssumption DEF Framed, Gives
    <3> QED BY <1>1, <2>1, <3>1 DEF Framed, LeakInv, NothingLeaks, HandlesAlive
  <2>2. CASE q = s
    <3>1. t = task[s]
      BY <1>1, <1>6, <2>2 DEF Framed, LeakInv, NothingLeaks, HandlesAlive
    <3> QED BY <1>3, <1>6, <2>2, <3>1 DEF Gives
  <2> QED BY <2>1, <2>2
<1>7. ASSUME NEW q \in Runs, pc'[q] = "slot" PROVE NeedsSlot(q)'
  <2>1. CASE q # s
    BY <1>1, <1>7, <2>1 DEF Framed, LeakInv, SlotWaiters, NeedsSlot
  <2>2. CASE q = s
    <3>1. NeedsSlot(s) /\ task'[s] = task[s] /\ force'[s] = force[s]
      BY <1>1, <1>7, <2>2 DEF RunStep, Begin, Enter, End, StartBody, ChainRefused, TakeSlot, LeaveQuiet,
         DeliverResult, BodyEnds, BodyNoop, BodyDefers, Finish, Settled, CancelBody, CancelQueued,
         Settle, MonitorFires, InBody, Unwinding, Unstarted, TypeOK
    <3> QED BY <2>2, <3>1 DEF NeedsSlot
  <2> QED BY <2>1, <2>2
<1>8. MembersAlive' /\ HandlesAlive' /\ SlotWaiters'
  <2>1. executing' \subseteq Tasks
    BY <1>1, RunStepType DEF TypeOK
  <2> QED BY <1>5, <1>6, <1>7, <2>1 DEF MembersAlive, HandlesAlive, SlotWaiters
<1> QED BY <1>4, <1>8 DEF LeakInv, NothingLeaks

LEMMA OutsideLeaks ==
    ASSUME CoreInv, ReachInv, LeakInv, Outside
    PROVE  LeakInv'
<1>1. TypeOK /\ NoRun \notin Runs
  BY TasksAssumption DEF CoreInv
<1>2. ASSUME UNCHANGED <<pc, task, force, handle, slotHolder>>,
             executing' \subseteq executing
      PROVE  LeakInv'
  BY <1>2 DEF LeakInv, NothingLeaks, SlotOwned, MembersAlive, HandlesAlive, SlotWaiters, InSlot,
              NeedsSlot, Dispatched
<1>3. ASSUME NEW s \in Runs, NEW t \in Tasks, NEW how \in {"spawned", "worker"}, Spawn(s, t, how),
             \/ force' = force /\ executing' = executing \cup {t}
             \/ force' = [force EXCEPT ![s] = TRUE] /\ executing' = executing,
             UNCHANGED <<handle, slotHolder>>
      PROVE  LeakInv'
  <2>1. pc[s] = "free" /\ ~force[s] /\ pc'[s] = how /\ task'[s] = t /\ how \notin Started
    BY <1>1, <1>3 DEF Spawn, ReachInv, ForcedOnly, TypeOK, Started, InBody, Unwinding
  <2>2. \A q \in Runs \ {s} : pc'[q] = pc[q] /\ task'[q] = task[q] /\ force'[q] = force[q]
    BY <1>1, <1>3 DEF Spawn, TypeOK
  <2>3. pc[s] \notin Started /\ how # "slot"
    BY <2>1 DEF Started, InBody, Unwinding
  <2>4. SlotOwned' /\ HandlesAlive' /\ SlotWaiters'
    <3>1. SlotOwned'
      <4>1. ASSUME slotHolder # NoRun PROVE InSlot(slotHolder)'
        <5>1. slotHolder \in Runs \ {s} /\ InSlot(slotHolder)
          BY <1>1, <2>3, <4>1 DEF LeakInv, NothingLeaks, SlotOwned, InSlot, TypeOK
        <5> QED BY <1>3, <2>2, <5>1 DEF InSlot, NeedsSlot
      <4> QED BY <1>3, <4>1 DEF SlotOwned
    <3>2. HandlesAlive'
      BY <1>3, <2>2, <2>3 DEF LeakInv, NothingLeaks, HandlesAlive
    <3>3. SlotWaiters'
      BY <2>1, <2>2, <2>3 DEF LeakInv, SlotWaiters, NeedsSlot
    <3> QED BY <3>1, <3>2, <3>3
  <2>5. ASSUME NEW u \in executing' PROVE \E q \in Runs : Dispatched(q)' /\ task'[q] = u
    <3>1. CASE u \in executing
      <4>1. PICK q \in Runs : Dispatched(q) /\ task[q] = u
        BY <3>1 DEF LeakInv, NothingLeaks, MembersAlive
      <4>2. q # s
        BY <2>1, <4>1 DEF Dispatched
      <4> QED BY <2>2, <4>1, <4>2 DEF Dispatched
    <3>2. CASE u = t /\ force' = force
      BY <2>1, <3>2 DEF Dispatched
    <3> QED BY <1>3, <2>5, <3>1, <3>2
  <2> QED BY <2>4, <2>5 DEF LeakInv, NothingLeaks, MembersAlive
<1>4. CASE DispatchDue
  <2>1. PICK S \in SUBSET FreeRuns : \E f \in Bijection(S, Due) :
          /\ pc' = [s \in Runs |-> IF s \in S THEN "spawned" ELSE pc[s]]
          /\ task' = [s \in Runs |-> IF s \in S THEN f[s] ELSE task[s]]
    BY <1>4 DEF DispatchDue
  <2>2. PICK f \in Bijection(S, Due) :
          /\ pc' = [s \in Runs |-> IF s \in S THEN "spawned" ELSE pc[s]]
          /\ task' = [s \in Runs |-> IF s \in S THEN f[s] ELSE task[s]]
    BY <2>1
  <2>3. \A u \in Due : \E s \in S : f[s] = u
    BY DEF Bijection, Surjection
  <2>4. UNCHANGED <<force, handle, slotHolder>> /\ executing' = executing \cup Due
    BY <1>4 DEF DispatchDue
  <2>5. \A s \in S : s \in Runs /\ pc[s] = "free" /\ ~force[s]
    BY DEF FreeRuns, ReachInv, ForcedOnly, Started, InBody, Unwinding
  <2>6. SlotOwned' /\ HandlesAlive' /\ SlotWaiters'
    <3>1. \A q \in Runs : pc[q] \in Started => pc'[q] = pc[q] /\ task'[q] = task[q]
      BY <2>2, <2>5 DEF Started, InBody, Unwinding
    <3>2. SlotOwned'
      <4>1. ASSUME slotHolder # NoRun PROVE InSlot(slotHolder)'
        <5>1. slotHolder \in Runs /\ InSlot(slotHolder)
          BY <1>1, <4>1 DEF LeakInv, NothingLeaks, SlotOwned, TypeOK
        <5> QED BY <2>4, <3>1, <5>1 DEF InSlot, NeedsSlot
      <4> QED BY <2>4, <4>1 DEF SlotOwned
    <3>3. HandlesAlive'
      BY <2>4, <3>1 DEF LeakInv, NothingLeaks, HandlesAlive
    <3>4. SlotWaiters'
      <4>1. \A q \in Runs : pc'[q] = "slot" => pc[q] = "slot"
        BY <2>2
      <4> QED BY <2>4, <3>1, <4>1 DEF LeakInv, SlotWaiters, NeedsSlot, Started
    <3> QED BY <3>2, <3>3, <3>4
  <2>7. ASSUME NEW u \in executing' PROVE \E q \in Runs : Dispatched(q)' /\ task'[q] = u
    <3>1. CASE u \in executing
      <4>1. PICK q \in Runs : Dispatched(q) /\ task[q] = u
        BY <3>1 DEF LeakInv, NothingLeaks, MembersAlive
      <4>2. q \notin S
        BY <2>5, <4>1 DEF Dispatched
      <4> QED BY <2>2, <2>4, <4>1, <4>2 DEF Dispatched
    <3>2. CASE u \in Due
      <4>1. PICK q \in S : f[q] = u
        BY <2>3, <3>2
      <4> QED BY <2>2, <2>4, <2>5, <4>1 DEF Dispatched
    <3> QED BY <2>4, <2>7, <3>1, <3>2
  <2> QED BY <2>6, <2>7 DEF LeakInv, NothingLeaks, MembersAlive
<1>5. CASE Dispatch
  <2>1. CASE DeferDue
    BY <1>2, <2>1 DEF DeferDue, memVars, runVars
  <2>2. ASSUME NEW s \in Runs, NEW t \in Tasks, RunNow(s, t) \/ ForceRun(s, t) PROVE LeakInv'
    BY <1>3, <2>2 DEF RunNow, ForceRun, memVars
  <2>3. ASSUME NEW s \in Runs, NEW t \in Tasks, NEW how \in {"spawned", "worker"},
               TriggerEvent(s, t, how)
        PROVE  LeakInv'
    BY <1>2, <1>3, <2>3 DEF TriggerEvent
  <2> QED BY <1>4, <1>5, <2>1, <2>2, <2>3 DEF Dispatch
<1>6. CASE \E t \in Tasks : TaskStep(t)
  BY <1>2, <1>6 DEF TaskStep, TimePasses, CountEvent, StopTask, Pause, Resume, Reschedule,
                    memVars, runVars
<1>7. CASE ProcessStep
  <2>1. CASE Crash
    BY <1>1, <2>1 DEF Crash, LeakInv, NothingLeaks, SlotOwned, MembersAlive, HandlesAlive, SlotWaiters
  <2>2. CASE ~Crash
    BY <1>2, <1>7, <2>2 DEF ProcessStep, StopBackground, ForegroundStarts, ForegroundEnds, Restart,
                            memVars, runVars
  <2> QED BY <2>1, <2>2
<1> QED BY <1>5, <1>6, <1>7 DEF Outside

\* However coroutines end, whoever stops or forces them and in whatever order their
\* cleanups run, none leaves the semaphore taken, a task refused with 409 or a handle
\* behind: each of the three always belongs to a coroutine in flight.
THEOREM NoLeaks == Spec => []NothingLeaks
<1>1. Init => LeakInv
  BY TasksAssumption DEF Init, LeakInv, NothingLeaks, SlotOwned, MembersAlive, HandlesAlive, SlotWaiters
<1>2. CoreInv /\ ReachInv /\ LeakInv /\ [Next]_vars => LeakInv'
  <2> SUFFICES ASSUME CoreInv, ReachInv, LeakInv, [Next]_vars
               PROVE  LeakInv'
    OBVIOUS
  <2>1. CASE UNCHANGED vars
    BY <2>1 DEF vars, memVars, runVars, LeakInv, NothingLeaks, SlotOwned, MembersAlive, HandlesAlive,
       SlotWaiters, InSlot, NeedsSlot, Dispatched
  <2> QED BY <2>1, RunStepLeaks, OutsideLeaks DEF Next, Outside
<1>3. LeakInv => NothingLeaks
  BY DEF LeakInv
<1> QED BY <1>1, <1>2, <1>3, CoreInvariant, ReachInvariant, PTL DEF Spec

-----------------------------------------------------------------------------
(* A row aborted by the foreground stays aborted *)

\* The coroutine of an aborted row has a cancellation to come, or is past it.
DoomedBy(s) ==
    pc[s] \in Started /\ row[s] = "aborted" /\ task[s] \notin Stoppable \cup Forceable
    => cancel[s] # "none" \/ pc[s] \in Unwinding
DownIsEmpty == ~up => \A s \in Runs : pc[s] = "free"
Doomed == DownIsEmpty /\ \A s \in Runs : DoomedBy(s)

\* A step of s that keeps its promise for s: no new doomed row, none revived.
Own(s) == /\ DoomedBy(s)'
          /\ pc[s] \in Started /\ row[s] = "aborted" /\ task[s] \notin Stoppable \cup Forceable
             => row'[s] # "running"

LEMMA EnterOwn ==
    ASSUME TypeOK, NEW s \in Runs, NEW h, NEW ex, NEW holder, NEW r, NEW c,
           Enter(s, h, ex, holder, r, c), r # "aborted",
           pc[s] \in Started => row[s] = r
    PROVE  Own(s)
<1>1. pc'[s] \in Started => row'[s] # "aborted"
  BY DEF Enter, End, StartBody, TypeOK, Started, InBody, Unwinding
<1> QED BY <1>1 DEF Own, DoomedBy

LEMMA EnterDoomed ==
    ASSUME TypeOK, NEW s \in Runs, NEW h, NEW ex, NEW holder, NEW r, NEW c,
           Enter(s, h, ex, holder, r, c), task[s] \in Stoppable \cup Forceable
    PROVE  Own(s)
<1>1. pc'[s] \in Started => task'[s] = task[s]
  BY DEF Enter, End, StartBody, TypeOK, Started, InBody, Unwinding
<1> QED BY <1>1 DEF Own, DoomedBy

LEMMA RunStepOwn ==
    ASSUME TypeOK, NEW s \in Runs, DoomedBy(s), RunStep(s)
    PROVE  Own(s)
<1> USE DEF Started, InBody, Unwinding
<1>1. CASE Begin(s)
  <2>1. pc[s] \notin Started
    BY <1>1 DEF Begin, Unstarted
  <2>2. CASE \E h, ex, holder, c : Enter(s, h, ex, holder, "queued", c)
    BY <2>1, <2>2, EnterOwn
  <2>3. CASE /\ pc' = [pc EXCEPT ![s] = "slot"]
             /\ row' = [row EXCEPT ![s] = "queued"]
    BY <2>1, <2>3 DEF Own, DoomedBy, TypeOK
  <2>4. CASE pc' = [pc EXCEPT ![s] = "free"]
    BY <2>1, <2>4 DEF Own, DoomedBy, TypeOK
  <2> QED BY <1>1, <2>2, <2>3, <2>4 DEF Begin, End
<1>2. CASE TakeSlot(s)
  <2>1. pc[s] = "slot" /\ cancel[s] = "none" /\ Enter(s, handle, executing, s, row[s], "none")
    BY <1>2 DEF TakeSlot, Waiting
  <2>2. CASE task[s] \in Stoppable \cup Forceable
    BY <2>1, <2>2, EnterDoomed
  <2>3. CASE task[s] \notin Stoppable \cup Forceable
    <3>1. row[s] # "aborted"
      BY <2>1, <2>3 DEF DoomedBy
    <3> QED BY <2>1, <3>1, EnterOwn
  <2> QED BY <2>2, <2>3
<1>3. CASE LeaveQuiet(s)
  BY <1>3 DEF LeaveQuiet, StartBody, TypeOK, Own, DoomedBy
<1>4. CASE DeliverResult(s)
  BY <1>4 DEF DeliverResult, TypeOK, Own, DoomedBy
<1>5. ASSUME NEW o, Finish(s, o) PROVE Own(s)
  <2>1. pc'[s] \notin Started
    BY <1>5 DEF Finish, TypeOK
  <2>2. row'[s] \in {row[s], "done"}
    BY <1>5 DEF Finish, TypeOK
  <2> QED BY <2>1, <2>2 DEF Own, DoomedBy
<1>6. CASE BodyEnds(s)
  <2>1. CASE \E o : Finish(s, o)
    BY <1>5, <2>1
  <2>2. CASE \E o \in {"success", "failure", "raised"} :
               pc' = [pc EXCEPT ![s] = o] /\ UNCHANGED row
    BY <2>2 DEF TypeOK, Own, DoomedBy
  <2> QED BY <1>6, <2>1, <2>2 DEF BodyEnds
<1>7. ASSUME NEW r \in {"none", "done", "aborted"}, NEW v, NEW direct, Settled(s, r, v, direct)
      PROVE  Own(s)
  <2>1. row'[s] = r /\ pc'[s] \in {"free", "settled"}
    BY <1>7 DEF Settled, End, TypeOK
  <2> QED BY <2>1 DEF Own, DoomedBy
<1>8. CASE BodyNoop(s)
  BY <1>7, <1>8 DEF BodyNoop
<1>9. CASE BodyDefers(s)
  BY <1>7, <1>9 DEF BodyDefers
<1>10. CASE CancelBody(s)
  BY <1>7, <1>10 DEF CancelBody
<1>11. CASE Settle(s)
  BY <1>5, <1>11 DEF Settle
<1>12. CASE CancelQueued(s)
  <2>1. pc'[s] = "free" /\ (row[s] = "aborted" => row'[s] = row[s])
    BY <1>12 DEF CancelQueued, End, Open, TypeOK
  <2> QED BY <2>1 DEF Own, DoomedBy
<1>13. CASE MonitorFires(s)
  BY <1>13 DEF MonitorFires, TypeOK, Own, DoomedBy
<1>14. CASE ChainRefused(s)
  BY <1>14 DEF ChainRefused, TypeOK, Own, DoomedBy
<1> QED BY <1>1, <1>2, <1>3, <1>4, <1>6, <1>8, <1>9, <1>10, <1>11, <1>12, <1>13, <1>14
        DEF RunStep

LEMMA RunStepDoomed ==
    ASSUME CoreInv, Doomed, NEW s \in Runs, RunStep(s)
    PROVE  /\ Doomed'
           /\ \A q \in Runs : pc[q] \in Started /\ row[q] = "aborted"
                              /\ task[q] \notin Stoppable \cup Forceable => row'[q] # "running"
<1>1. Framed(s) /\ TypeOK
  BY RunStepEffect DEF SlotHeld, Effect, CoreInv
<1>2. \A q \in Runs \ {s} : DoomedBy(q)' /\ row'[q] = row[q]
  BY <1>1 DEF Framed, Doomed, DoomedBy
<1>3. Own(s)
  BY <1>1, RunStepOwn DEF Doomed
<1>4. DownIsEmpty'
  <2>1. pc[s] # "free"
    BY DEF RunStep, Begin, ChainRefused, TakeSlot, Waiting, LeaveQuiet, DeliverResult, BodyEnds,
           BodyNoop, BodyDefers, CancelBody, CancelQueued, Settle, MonitorFires,
           InBody, Unwinding, Unstarted
  <2> QED BY <1>1, <2>1 DEF Doomed, DownIsEmpty, Framed
<1> QED BY <1>2, <1>3, <1>4 DEF Doomed, Own

LEMMA OutsideDoomed ==
    ASSUME CoreInv, ReachInv, Doomed, Outside
    PROVE  /\ Doomed'
           /\ \A q \in Runs : row'[q] = row[q] \/ row'[q] = "aborted"
<1>0. DownIsEmpty'
  <2>1. CASE Dispatch
    BY <2>1 DEF Dispatch, DispatchDue, DeferDue, RunNow, ForceRun, TriggerEvent, UserRequest,
                procVars, Doomed, DownIsEmpty
  <2>2. CASE \E t \in Tasks : TaskStep(t)
    BY <2>2 DEF TaskStep, TimePasses, CountEvent, StopTask, Pause, Resume, Reschedule, UserRequest,
                runVars, procVars, Doomed, DownIsEmpty
  <2>3. CASE ProcessStep
    BY <2>3 DEF ProcessStep, StopBackground, ForegroundStarts, ForegroundEnds, Crash, Restart,
                runVars, Doomed, DownIsEmpty
  <2> QED BY <2>1, <2>2, <2>3 DEF Outside
<1>1. TypeOK
  BY DEF CoreInv
<1>2. ASSUME NEW q \in Runs, pc'[q] \in Started, pc'[q] = pc[q], task'[q] = task[q],
             row'[q] = row[q], cancel'[q] = cancel[q] \/ cancel'[q] = Cancelled(q)
      PROVE  DoomedBy(q)'
  BY <1>2 DEF Doomed, DoomedBy, Cancelled
<1>3. ASSUME NEW q \in Runs, pc'[q] \notin Started PROVE DoomedBy(q)'
  BY <1>3 DEF DoomedBy
<1>4. CASE Dispatch
  <2>1. UNCHANGED <<row, cancel>>
    BY <1>4 DEF Dispatch, DispatchDue, DeferDue, RunNow, ForceRun, TriggerEvent, runVars
  <2>2. ASSUME NEW q \in Runs, pc'[q] \in Started
        PROVE  pc'[q] = pc[q] /\ task'[q] = task[q]
    <3>1. pc'[q] \notin {"free", "spawned", "worker"}
      BY <2>2 DEF Started, InBody, Unwinding
    <3> QED BY <1>1, <3>1, OutsideFrame
  <2> QED BY <1>0, <1>2, <1>3, <2>1, <2>2 DEF Doomed
<1>5. ASSUME NEW t \in Tasks, TaskStep(t)
      PROVE  Doomed' /\ \A q \in Runs : row'[q] = row[q] \/ row'[q] = "aborted"
  <2>1. CASE StopTask(t)
    <3>1. \A q \in Runs : row'[q] = row[q] \/ (row'[q] = "aborted" /\ task[q] = t)
      BY <1>1, <2>1 DEF StopTask, OpenRows, TypeOK
    <3>2. /\ pc' = pc /\ task' = task /\ t \in Stoppable
          /\ \A q \in Runs : cancel'[q] = cancel[q] \/ cancel'[q] = Cancelled(q)
      BY <2>1 DEF StopTask
    <3>3. ASSUME NEW q \in Runs PROVE DoomedBy(q)'
      BY <1>2, <1>3, <3>1, <3>2 DEF DoomedBy
    <3> QED BY <1>0, <3>1, <3>3 DEF Doomed
  <2>2. CASE ~StopTask(t)
    <3>1. UNCHANGED <<row, cancel, pc, task>>
      BY <1>5, <2>2 DEF TaskStep, TimePasses, CountEvent, Pause, Resume, Reschedule, runVars
    <3> QED BY <1>0, <3>1 DEF Doomed, DoomedBy
  <2> QED BY <2>1, <2>2
<1>6. CASE StopBackground
  <2>1. PICK mark \in [executing -> Runs \cup {NoRun}] :
          /\ \A t \in executing : IF OpenRows(t) = {} THEN mark[t] = NoRun
                                  ELSE mark[t] \in OpenRows(t)
          /\ row' = [s \in Runs |-> IF s \in Range(mark) THEN "aborted" ELSE row[s]]
    BY <1>6 DEF StopBackground
  <2>2. UNCHANGED <<pc, task>> /\ \A q \in Runs : cancel'[q] = IF \E t \in executing : handle[t] = q
                                                     THEN Cancelled(q) ELSE cancel[q]
    BY <1>6 DEF StopBackground
  <2>3. \A q \in Runs : row'[q] = row[q] \/ row'[q] = "aborted"
    BY <2>1
  <2>4. ASSUME NEW q \in Runs, q \in Range(mark), pc[q] \in Started,
               task[q] \notin Stoppable \cup Forceable
        PROVE  DoomedBy(q)'
    <3>1. task[q] \in executing
      <4>1. PICK t \in executing : mark[t] = q
        BY <2>4 DEF Range
      <4>2. q \in OpenRows(t)
        BY <2>1, <4>1, TasksAssumption
      <4> QED BY <4>1, <4>2 DEF OpenRows
    <3>2. handle[task[q]] = q
      BY <1>1, <2>4 DEF ReachInv, RunsAreStoppable, ForcedOnly, TypeOK
    <3>3. cancel'[q] = Cancelled(q)
      BY <2>2, <3>1, <3>2
    <3> QED BY <2>2, <3>3 DEF DoomedBy, Cancelled
  <2>5. ASSUME NEW q \in Runs PROVE DoomedBy(q)'
    <3>1. CASE q \notin Range(mark)
      BY <1>2, <1>3, <2>1, <2>2, <3>1
    <3>2. CASE q \in Range(mark)
      BY <2>2, <2>4, <3>2 DEF DoomedBy
    <3> QED BY <3>1, <3>2
  <2> QED BY <1>0, <2>3, <2>5 DEF Doomed
<1>7. CASE ForegroundStarts \/ ForegroundEnds
  BY <1>0, <1>7 DEF ForegroundStarts, ForegroundEnds, runVars, Doomed, DoomedBy
<1>8. CASE Crash
  BY <1>0, <1>8 DEF Crash, Doomed, DoomedBy, Started, InBody, Unwinding
<1>9. CASE Restart
  <2>1. \A q \in Runs : pc'[q] = "free"
    BY <1>9 DEF Restart, Doomed, DownIsEmpty
  <2>2. \A q \in Runs : row'[q] = row[q] \/ row'[q] = "aborted"
    BY <1>9 DEF Restart
  <2> QED BY <1>0, <2>1, <2>2 DEF Doomed, DoomedBy, Started, InBody, Unwinding
<1> QED BY <1>4, <1>5, <1>6, <1>7, <1>8, <1>9 DEF Outside, ProcessStep

\* Both kinds of step keep an aborted row down, so the action property follows.
THEOREM AbortedForGood == Spec => AbortedStaysDown
<1>1. Init => Doomed
  BY DEF Init, Doomed, DoomedBy, DownIsEmpty, Started, InBody, Unwinding
<1>2. CoreInv /\ ReachInv /\ Doomed /\ [Next]_vars => Doomed' /\ [StaysDown]_vars
  <2> SUFFICES ASSUME CoreInv, ReachInv, Doomed, [Next]_vars
               PROVE  Doomed' /\ [StaysDown]_vars
    OBVIOUS
  <2>1. CASE UNCHANGED vars
    BY <2>1 DEF vars, runVars, procVars, Doomed, DoomedBy, DownIsEmpty
  <2>2. ASSUME NEW s \in Runs, RunStep(s)
        PROVE  Doomed' /\ StaysDown
    BY <2>2, RunStepDoomed DEF StaysDown
  <2>3. CASE Outside
    BY <2>3, OutsideDoomed DEF StaysDown
  <2> QED BY <2>1, <2>2, <2>3 DEF Next, Outside
<1> QED BY <1>1, <1>2, CoreInvariant, ReachInvariant, PTL DEF Spec, AbortedStaysDown

-----------------------------------------------------------------------------
(* Rows that show as open have a coroutine, where events fire on the main loop *)

\* No coroutine on a worker thread's loop needs the semaphore, and none has bound it.
OneLoop == /\ slotLoop # "worker"
           /\ \A s \in Runs : pc[s] = "worker" => task[s] \notin ModelBacked

RowOf(s) ==
    /\ row[s] \in Open => pc[s] \in Started
    /\ pc[s] = "slot" => row[s] # "running"
    /\ pc[s] = "settled" => row[s] \notin Open
RowInv == up => \A s \in Runs : RowOf(s)

LEMMA EnterRow ==
    ASSUME TypeOK, NEW s \in Runs, NEW h, NEW ex, NEW holder, NEW r, NEW c,
           Enter(s, h, ex, holder, r, c), r # "running"
    PROVE  RowOf(s)'
<1>1. CASE row'[s] \notin Open /\ pc'[s] = "free"
  BY <1>1 DEF RowOf
<1>2. CASE pc'[s] \in {"quiet", "body"}
  BY <1>2 DEF RowOf, Started, InBody
<1> QED BY <1>1, <1>2 DEF Enter, End, StartBody, TypeOK, Open

LEMMA RunStepRow ==
    ASSUME TypeOK, OneLoop, NEW s \in Runs, RowOf(s), RunStep(s)
    PROVE  RowOf(s)'
<1>1. ASSUME NEW o, Finish(s, o), pc[s] = "settled" \/ o # "settled" PROVE RowOf(s)'
  <2>1. row'[s] \notin Open
    BY <1>1 DEF Finish, RowOf, Open, TypeOK
  <2>2. pc'[s] \in {"free", "chained"}
    BY <1>1 DEF Finish, TypeOK
  <2> QED BY <2>1, <2>2 DEF RowOf
<1>2. ASSUME NEW r \in {"none", "done", "aborted"}, NEW v, NEW direct, Settled(s, r, v, direct)
      PROVE  RowOf(s)'
  <2>1. row'[s] = r /\ pc'[s] \in {"free", "settled"}
    BY <1>2 DEF Settled, End, TypeOK
  <2> QED BY <2>1 DEF RowOf, Open
<1>3. CASE Begin(s)
  <2>1. slotLoop # "worker" /\ (pc[s] = "worker" => ~NeedsSlot(s))
    BY DEF OneLoop, NeedsSlot
  <2>2. CASE \E h, ex, holder, c : Enter(s, h, ex, holder, "queued", c)
    BY <2>2, EnterRow
  <2>3. CASE /\ pc' = [pc EXCEPT ![s] = "slot"]
             /\ row' = [row EXCEPT ![s] = "queued"]
    BY <2>3 DEF RowOf, Started, TypeOK
  <2> QED BY <1>3, <2>1, <2>2, <2>3 DEF Begin
<1>4. CASE TakeSlot(s)
  BY <1>4, EnterRow DEF TakeSlot, Waiting, RowOf
<1>5. CASE LeaveQuiet(s) \/ DeliverResult(s) \/ MonitorFires(s)
  BY <1>5 DEF LeaveQuiet, StartBody, DeliverResult, MonitorFires, RowOf, Started, InBody,
              Unwinding, Open, TypeOK
<1>6. CASE ChainRefused(s)
  BY <1>6 DEF ChainRefused, RowOf, Started, InBody, Unwinding, TypeOK
<1>7. CASE BodyEnds(s)
  <2>1. CASE \E o \in {"success", "failure", "raised"} : Finish(s, o)
    BY <1>1, <2>1
  <2>2. CASE \E o \in {"success", "failure", "raised"} : pc' = [pc EXCEPT ![s] = o] /\ UNCHANGED row
    BY <2>2 DEF TypeOK, RowOf, Started, Unwinding
  <2> QED BY <1>7, <2>1, <2>2 DEF BodyEnds
<1>8. CASE BodyNoop(s) \/ BodyDefers(s) \/ CancelBody(s)
  BY <1>2, <1>8 DEF BodyNoop, BodyDefers, CancelBody
<1>9. CASE CancelQueued(s)
  <2>1. pc'[s] = "free" /\ row'[s] \notin Open
    BY <1>9 DEF CancelQueued, End, Open, TypeOK
  <2> QED BY <2>1 DEF RowOf
<1>10. CASE Settle(s)
  BY <1>1, <1>10 DEF Settle
<1> QED BY <1>3, <1>4, <1>5, <1>6, <1>7, <1>8, <1>9, <1>10 DEF RunStep

LEMMA RunStepRows ==
    ASSUME CoreInv, OneLoop, RowInv, NEW s \in Runs, RunStep(s)
    PROVE  OneLoop' /\ RowInv'
<1>1. Framed(s) /\ Keeps(s) /\ TypeOK
  BY RunStepEffect DEF SlotHeld, Effect, CoreInv
<1>2. slotLoop' # "worker"
  <2>1. CASE Begin(s)
    BY <2>1 DEF Begin, OneLoop, NeedsSlot
  <2>2. CASE ~Begin(s)
    <3>1. slotLoop' = slotLoop
      BY <2>2 DEF RunStep, ChainRefused, TakeSlot, LeaveQuiet, DeliverResult, BodyEnds, BodyNoop,
         BodyDefers, CancelBody, CancelQueued, Settle, MonitorFires, Settled, memVars
    <3> QED BY <3>1 DEF OneLoop
  <2> QED BY <2>1, <2>2
<1>3. \A q \in Runs : pc'[q] = "worker" => task'[q] \notin ModelBacked
  BY <1>1 DEF Framed, Keeps, OneLoop
<1>4. ASSUME up', NEW q \in Runs PROVE RowOf(q)'
  <2>1. RowOf(q)
    BY <1>1, <1>4 DEF Framed, RowInv
  <2>2. CASE q = s
    BY <1>1, <2>1, <2>2, RunStepRow
  <2>3. CASE q # s
    BY <1>1, <2>1, <2>3 DEF Framed, RowOf
  <2> QED BY <2>2, <2>3
<1> QED BY <1>2, <1>3, <1>4 DEF OneLoop, RowInv

LEMMA OutsideRows ==
    ASSUME CoreInv, ReachInv, Doomed, OneLoop, RowInv, SyncEvents \cap ModelBacked = {}, Outside
    PROVE  OneLoop' /\ RowInv'
<1>1. TypeOK /\ \A q \in Runs : row'[q] = row[q] \/ row'[q] = "aborted"
  BY OutsideDoomed DEF CoreInv
<1>2. CASE Dispatch
  <2>1. ASSUME NEW q \in Runs
        PROVE  /\ pc[q] # "free" => pc'[q] = pc[q] /\ task'[q] = task[q]
               /\ pc'[q] \in {pc[q], "spawned", "worker"}
               /\ pc[q] = "free" /\ pc'[q] = "worker" => task'[q] \in SyncEvents
    <3>1. CASE DispatchDue \/ DeferDue
      BY <1>1, <3>1 DEF DispatchDue, DeferDue, FreeRuns, runVars, TypeOK
    <3>2. ASSUME NEW r \in Runs, NEW t \in Tasks, NEW how \in {"spawned", "worker"},
                 \/ RunNow(r, t) \/ ForceRun(r, t)
                 \/ TriggerEvent(r, t, how)
          PROVE  /\ pc[q] # "free" => pc'[q] = pc[q] /\ task'[q] = task[q]
                 /\ pc'[q] \in {pc[q], "spawned", "worker"}
                 /\ pc[q] = "free" /\ pc'[q] = "worker" => task'[q] \in SyncEvents
      BY <1>1, <3>2 DEF RunNow, ForceRun, TriggerEvent, Spawn, TypeOK
    <3> QED BY <1>2, <3>1, <3>2 DEF Dispatch
  <2>2. slotLoop' = slotLoop /\ up' = up /\ row' = row
    BY <1>2 DEF Dispatch, DispatchDue, DeferDue, RunNow, ForceRun, TriggerEvent, memVars, runVars,
                procVars
  <2>3. OneLoop'
    BY <1>1, <2>1, <2>2 DEF OneLoop, TypeOK
  <2>4. RowInv'
    BY <2>1, <2>2 DEF RowInv, RowOf, Started, InBody, Unwinding
  <2> QED BY <2>3, <2>4
<1>3. CASE (\E t \in Tasks : TaskStep(t)) \/ StopBackground \/ ForegroundStarts \/ ForegroundEnds
  <2>1. slotLoop' = slotLoop /\ up' = up /\ pc' = pc /\ task' = task
    BY <1>3 DEF TaskStep, TimePasses, CountEvent, StopTask, Pause, Resume, Reschedule,
                StopBackground, ForegroundStarts, ForegroundEnds, memVars, runVars, procVars
  <2> QED BY <1>1, <2>1 DEF OneLoop, RowInv, RowOf, Open
<1>4. CASE Crash
  BY <1>4 DEF Crash, OneLoop, RowInv
<1>5. CASE Restart
  <2>1. \A q \in Runs : row'[q] \notin Open /\ pc'[q] = "free"
    BY <1>5 DEF Restart, Open, Doomed, DownIsEmpty
  <2>2. slotLoop' = slotLoop
    BY <1>5 DEF Restart, memVars
  <2> QED BY <2>1, <2>2 DEF OneLoop, RowInv, RowOf
<1> QED BY <1>2, <1>3, <1>4, <1>5 DEF Outside, ProcessStep

\* When no model-backed task is fired from a worker thread there are no phantom rows:
\* every row shown as queued or running has a coroutine that will finish it.  (With
\* such a task there are: the run SchedLoop finds them.)
THEOREM NoPhantomRows ==
    ASSUME SyncEvents \cap ModelBacked = {}
    PROVE  Spec => []OpenRowsAreAlive
<1> DEFINE Inv == CoreInv /\ ReachInv /\ Doomed /\ OneLoop /\ RowInv
<1>1. Init => Doomed /\ OneLoop /\ RowInv
  BY DEF Init, Doomed, DoomedBy, DownIsEmpty, OneLoop, RowInv, RowOf, Open, Started, InBody, Unwinding
<1>2. CoreInv /\ ReachInv /\ Doomed /\ OneLoop /\ RowInv /\ [Next]_vars
      => Doomed' /\ OneLoop' /\ RowInv'
  <2> SUFFICES ASSUME CoreInv, ReachInv, Doomed, OneLoop, RowInv, [Next]_vars
               PROVE  Doomed' /\ OneLoop' /\ RowInv'
    OBVIOUS
  <2>1. CASE UNCHANGED vars
    BY <2>1 DEF vars, memVars, runVars, procVars, Doomed, DoomedBy, DownIsEmpty, OneLoop, RowInv, RowOf
  <2> QED BY <2>1, RunStepDoomed, OutsideDoomed, RunStepRows, OutsideRows DEF Next, Outside
<1>3. RowInv => OpenRowsAreAlive
  BY DEF RowInv, RowOf, OpenRowsAreAlive
<1> QED BY <1>1, <1>2, <1>3, CoreInvariant, ReachInvariant, PTL DEF Spec

-----------------------------------------------------------------------------
(* What happens to next_run *)

\* The trigger of an event task, once it is persisted, outlives everything but
\* the end of a run of its own that got to its body and was not interrupted there by
\* its monitor: crashes, restarts, stops in the queue, deferrals.
THEOREM TriggerKept == Spec => TriggerConsumedByRun
<1> DEFINE Kept == \A t \in EventTasks \ Restricted :
        nextRun[t] = "due" /\ nextRun'[t] = "none"
        => \E s \in Runs : task[s] = t /\ Consumes(s)
<1>1. TypeOK /\ [Next]_vars => [Kept]_vars
  <2> SUFFICES ASSUME TypeOK, Next, NEW t \in EventTasks \ Restricted,
                      nextRun[t] = "due", nextRun'[t] = "none",
                      \A s \in Runs : task[s] = t => ~Consumes(s)
               PROVE  FALSE
    OBVIOUS
  <2>1. t \in Tasks /\ t \notin Once /\ t \notin Restricted /\ t \in EventTasks
    BY TasksAssumption
  <2>2. ASSUME NEW s \in Runs, NEW v, WriteNextRun(s, v) PROVE task[s] = t /\ v = "none"
    BY <2>1, <2>2 DEF WriteNextRun, TypeOK
  <2>3. ASSUME NEW s \in Runs, NEW o, Finish(s, o),
               pc[s] \in Unwinding \/ (pc[s] \in InBody /\ cancel[s] = "none")
        PROVE  FALSE
    <3>1. nextRun' # nextRun => task[s] = t
      BY <2>2, <2>3 DEF Finish
    <3>2. pc'[s] \in {"free", "chained"}
      BY <2>3 DEF Finish, TypeOK
    <3> QED BY <2>3, <3>1, <3>2 DEF Consumes, InBody, Unwinding
  <2>4. ASSUME NEW s \in Runs, NEW h, NEW ex, NEW holder, NEW r, NEW c,
               Enter(s, h, ex, holder, r, c)
        PROVE  FALSE
    BY <2>1, <2>4 DEF Enter, StartBody, TypeOK
  <2>5. ASSUME NEW s \in Runs, RunStep(s) PROVE FALSE
    <3>1. CASE Begin(s) \/ TakeSlot(s)
      BY <2>4, <3>1 DEF Begin, TakeSlot
    <3>2. CASE BodyEnds(s) \/ Settle(s)
      BY <2>3, <3>2 DEF BodyEnds, Settle
    <3>3. CASE BodyNoop(s) \/ BodyDefers(s) \/ CancelBody(s)
      <4>1. PICK r, v, direct : Settled(s, r, v, direct)
        BY <3>3 DEF BodyNoop, BodyDefers, CancelBody
      <4>2. task[s] = t
        BY <2>2, <4>1 DEF Settled
      <4>3. cancel[s] # "foreground"
        BY <2>2, <3>3 DEF BodyNoop, BodyDefers, CancelBody, Settled
      <4>4. pc[s] \in InBody /\ pc'[s] \in {"free", "settled"}
        BY <3>3, <4>1 DEF BodyNoop, BodyDefers, CancelBody, Settled, End, InBody, TypeOK
      <4> QED BY <4>2, <4>3, <4>4 DEF Consumes, InBody
    <3>4. CASE CancelQueued(s)
      BY <2>1, <3>4 DEF CancelQueued, TypeOK
    <3>5. CASE ChainRefused(s) \/ LeaveQuiet(s) \/ DeliverResult(s) \/ MonitorFires(s)
      BY <3>5 DEF ChainRefused, LeaveQuiet, StartBody, DeliverResult, MonitorFires, dbVars
    <3> QED BY <2>5, <3>1, <3>2, <3>3, <3>4, <3>5 DEF RunStep
  <2>6. CASE Dispatch
    BY <2>1, <2>6 DEF Dispatch, DispatchDue, DeferDue, RunNow, ForceRun, TriggerEvent, dbVars, TypeOK
  <2>7. CASE \E u \in Tasks : TaskStep(u)
    BY <2>1, <2>7 DEF TaskStep, TimePasses, CountEvent, StopTask, Pause, Resume, Reschedule, dbVars,
       TypeOK
  <2>8. CASE ProcessStep
    BY <2>1, <2>8 DEF ProcessStep, StopBackground, ForegroundStarts, ForegroundEnds, Crash, Restart,
       dbVars, TypeOK
  <2> QED BY <2>5, <2>6, <2>7, <2>8 DEF Next
<1> QED BY <1>1, TypeCorrect, PTL DEF Spec, TriggerConsumedByRun

\* However a run of a scheduled task ends (success, failure, exception, skip,
\* deferral, cancellation in the queue or in the body), its task is not left
\* active and due, so the scheduler does not dispatch a broken task at every tick.
THEOREM RunsAdvance == Spec => ScheduledRunAdvances
<1> DEFINE Advances(s) == /\ Commits(s) /\ task[s] \notin EventTasks
                          /\ status'[task[s]] = "active"
                          => nextRun'[task[s]] # "due"
<1>1. TypeOK /\ SlotHeld /\ [Next]_vars => [\A s \in Runs : Advances(s)]_vars
  <2> SUFFICES ASSUME TypeOK, SlotHeld, Next, NEW s \in Runs, Commits(s),
                      task[s] \notin EventTasks, status'[task[s]] = "active",
                      nextRun'[task[s]] = "due"
               PROVE  FALSE
    OBVIOUS
  <2> DEFINE t == task[s]
  <2>1. /\ pc[s] \in Started /\ pc[s] # "settled" /\ pc'[s] \notin Started \ {"settled"}
        /\ pc'[s] # pc[s] /\ up' /\ t \in Tasks
        /\ pc[s] \in {"slot", "quiet"} \/ "next" \in seen[s]
    BY DEF Commits, Started, InBody, Unwinding, TypeOK
  <2>2. ASSUME "next" \in seen[s], NEW v \in {"none", "later"}, WriteNextRun(s, v) PROVE FALSE
    BY <2>1, <2>2 DEF WriteNextRun, TypeOK
  <2>3. NextAfter(s) \in {"none", "later"}
    BY DEF NextAfter
  <2>4. ASSUME NEW o, o # "settled", "next" \in seen[s], Finish(s, o) PROVE FALSE
    BY <2>2, <2>3, <2>4 DEF Finish
  <2>5. ASSUME RunStep(s) PROVE FALSE
    <3>1. CASE TakeSlot(s)
      BY <2>1, <3>1 DEF TakeSlot, Waiting, Enter, StartBody, Started, InBody, TypeOK
    <3>2. CASE BodyEnds(s) \/ Settle(s)
      BY <2>1, <2>4, <3>2 DEF BodyEnds, Settle, InBody, Unwinding, Started, TypeOK
    <3>3. CASE BodyNoop(s) \/ BodyDefers(s) \/ CancelBody(s)
      BY <2>1, <2>2, <2>3, <3>3 DEF BodyNoop, BodyDefers, CancelBody, Settled, InBody
    <3>4. CASE CancelQueued(s)
      BY <2>1, <3>4 DEF CancelQueued, TypeOK
    <3>5. CASE LeaveQuiet(s) \/ DeliverResult(s) \/ MonitorFires(s)
      BY <2>1, <3>5 DEF LeaveQuiet, StartBody, DeliverResult, MonitorFires, Started, InBody, TypeOK
    <3>6. CASE Begin(s) \/ ChainRefused(s)
      BY <2>1, <3>6 DEF Begin, ChainRefused, Unstarted, Started, InBody, Unwinding
    <3> QED BY <2>5, <3>1, <3>2, <3>3, <3>4, <3>5, <3>6 DEF RunStep
  <2>6. ASSUME NEW r \in Runs \ {s}, RunStep(r) PROVE FALSE
    BY <2>1, <2>6, RunStepEffect DEF SlotHeld, Effect, Framed
  <2>7. CASE Outside
    <3>1. CASE Dispatch
      BY <2>1, <3>1 DEF Dispatch, DispatchDue, DeferDue, RunNow, ForceRun, TriggerEvent, Spawn,
         FreeRuns, runVars, Started, InBody, Unwinding, TypeOK
    <3>2. CASE \E u \in Tasks : TaskStep(u)
      BY <2>1, <3>2 DEF TaskStep, TimePasses, CountEvent, StopTask, Pause, Resume, Reschedule, runVars
    <3>3. CASE ProcessStep
      BY <2>1, <3>3 DEF ProcessStep, StopBackground, ForegroundStarts, ForegroundEnds, Crash, Restart,
         runVars
    <3> QED BY <2>7, <3>1, <3>2, <3>3 DEF Outside
  <2> QED BY <2>5, <2>6, <2>7 DEF Next, Outside
<1> QED BY <1>1, TypeCorrect, SerialInvariant, PTL DEF Spec, ScheduledRunAdvances
=============================================================================
