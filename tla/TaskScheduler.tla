---------------------------- MODULE TaskScheduler ----------------------------
(***************************************************************************)
(* The background task scheduler (src/task_scheduler.py), the event bus    *)
(* that feeds it (src/event_bus.py), the foreground gate it yields to      *)
(* (src/interactive_gate.py) and the HTTP handlers that pause, resume,     *)
(* reschedule, run and stop a task (routes/task/task_routes.py).           *)
(*                                                                         *)
(* Every action is one uninterrupted stretch of a coroutine: from the      *)
(* point it is resumed at to its next await that can suspend.  Code        *)
(* between two such points is atomic on the event loop, so it is one step  *)
(* here, with every database commit it makes.                              *)
(***************************************************************************)
EXTENDS Naturals, FiniteSets, Functions

CONSTANTS
    Tasks,          \* rows of scheduled_tasks
    Runs,           \* coroutine slots: bounds the coroutines alive at a time
    NoTask, NoRun,
    Once,           \* tasks with schedule "once"
    EventTasks,     \* tasks with trigger_type "event"; all others recur
    ModelBacked,    \* tasks for which _task_needs_model_slot is true
    Restricted,     \* admin-only action, owner without the privilege
    ThenTask,       \* then_task_id of each task, or NoTask
    Threshold,      \* trigger_count of event tasks
    Gated,          \* BACKGROUND_TASK_FOREGROUND_GATE
    SyncEvents,     \* event tasks also fired from sync routes (worker thread)
    Stoppable,      \* tasks a user stops with POST /{id}/stop
    Forceable       \* tasks a user runs with force=true

ASSUME TasksAssumption ==
    /\ NoTask \notin Tasks /\ NoRun \notin Runs
    /\ Once \subseteq Tasks /\ EventTasks \subseteq Tasks /\ ModelBacked \subseteq Tasks
    /\ Once \cap EventTasks = {}
    /\ ThenTask \in [Tasks -> Tasks \cup {NoTask}]
ASSUME ThresholdAssumption == Threshold \in Nat \ {0}
ASSUME UsersAssumption ==
    /\ Gated \in BOOLEAN
    /\ SyncEvents \subseteq EventTasks /\ Stoppable \subseteq Tasks /\ Forceable \subseteq Tasks

VARIABLES
    \* the database
    status,         \* task -> active, paused or completed
    nextRun,        \* task -> next_run: none, due (in the past) or later
    counter,        \* event task -> trigger_counter
    ahead,          \* the once tasks whose scheduled_date is in the future
    row,            \* run -> its task_runs row: none, queued, running, aborted,
                    \* or done for success, error and skipped
    \* the scheduler object
    executing,      \* _executing
    handle,         \* _task_handles: task -> run, or NoRun
    slotHolder,     \* the run inside `async with _run_semaphore`
    slotLoop,       \* event loop the semaphore is bound to by its first waiter
    \* the coroutines
    pc, task,
    force,          \* run_task_now(force=True): no slot, no gate, not in executing
    cancel,         \* pending CancelledError, and whether the monitor raised it
    seen,           \* columns as loaded at body start: "next" set, date "ahead"
    \* the process
    foreground,     \* has_foreground_activity()
    stopPending,    \* a spawned stop_background_tasks_for_foreground
    up

dbVars   == <<status, nextRun, counter, ahead>>
memVars  == <<executing, handle, slotHolder, slotLoop>>
runVars  == <<row, pc, task, force, cancel, seen>>
procVars == <<foreground, stopPending, up>>
vars     == <<dbVars, memVars, runVars, procVars>>

FreeRuns  == {s \in Runs : pc[s] = "free"}
InBody    == {"body", "deliver"}
Unwinding == {"success", "failure", "raised", "settled"}  \* awaiting foreground_monitor
Started   == {"slot", "quiet"} \cup InBody \cup Unwinding
Unstarted == {"spawned", "worker", "chained"}
Open      == {"queued", "running"}                        \* rows not yet finished

Init ==
    /\ status = [t \in Tasks |-> "active"]
    /\ nextRun = [t \in Tasks |-> IF t \in EventTasks THEN "none" ELSE "later"]
    /\ counter = [t \in Tasks |-> 0]
    /\ ahead = Once
    /\ row = [s \in Runs |-> "none"]
    /\ executing = {}
    /\ handle = [t \in Tasks |-> NoRun]
    /\ slotHolder = NoRun /\ slotLoop = "unbound"
    /\ pc = [s \in Runs |-> "free"]
    /\ task = [s \in Runs |-> NoTask]
    /\ force = [s \in Runs |-> FALSE]
    /\ cancel = [s \in Runs |-> "none"]
    /\ seen = [s \in Runs |-> {}]
    /\ foreground = FALSE /\ stopPending = FALSE /\ up = TRUE

-----------------------------------------------------------------------------
(* Time.  A once task has its scheduled_date beside next_run, which a      *)
(* deferral moves on its own: either may pass first.                       *)
DatePasses(t) ==
    /\ ahead' = ahead \ {t}
    /\ seen' = [s \in Runs |-> IF task[s] = t THEN seen[s] \ {"ahead"} ELSE seen[s]]

TimePasses(t) ==
    /\ \/ /\ nextRun[t] = "later"
          /\ nextRun' = [nextRun EXCEPT ![t] = "due"]
          /\ DatePasses(t) \/ UNCHANGED <<ahead, seen>>
       \/ t \in ahead /\ DatePasses(t) /\ UNCHANGED nextRun
    /\ UNCHANGED <<status, counter, memVars, row, pc, task, force, cancel, procVars>>

-----------------------------------------------------------------------------
(* Dispatch *)

Due == {t \in Tasks : status[t] = "active" /\ nextRun[t] = "due" /\ t \notin executing}

\* _check_due_tasks while the user is active: every due task moves 15 minutes.
DeferDue ==
    /\ up /\ foreground /\ Due # {}
    /\ nextRun' = [t \in Tasks |-> IF t \in Due THEN "later" ELSE nextRun[t]]
    /\ UNCHANGED <<status, counter, ahead, memVars, runVars, procVars>>

\* _check_due_tasks: one coroutine for every due task that is not executing.
DispatchDue ==
    /\ up /\ ~foreground /\ Due # {}
    /\ \E S \in SUBSET FreeRuns : \E f \in Bijection(S, Due) :
        /\ pc' = [s \in Runs |-> IF s \in S THEN "spawned" ELSE pc[s]]
        /\ task' = [s \in Runs |-> IF s \in S THEN f[s] ELSE task[s]]
    /\ executing' = executing \cup Due
    /\ UNCHANGED <<dbVars, handle, slotHolder, slotLoop, row, force, cancel, seen, procVars>>

\* A request whose handler runs is foreground activity when the gate is on.
UserRequest == up /\ (Gated => foreground)

Spawn(s, t, how) ==
    /\ pc[s] = "free"
    /\ pc' = [pc EXCEPT ![s] = how]
    /\ task' = [task EXCEPT ![s] = t]

\* Variant: no membership taken.
RunNowUntracked(s, t) ==
    /\ UserRequest /\ t \notin Restricted \cup executing
    /\ Spawn(s, t, "spawned")
    /\ UNCHANGED <<dbVars, memVars, row, force, cancel, seen, procVars>>

\* run_task_now: refused with 409 while the task is executing.
RunNow(s, t) ==
    /\ UserRequest /\ t \notin Restricted \cup executing
    /\ Spawn(s, t, "spawned")
    /\ executing' = executing \cup {t}
    /\ UNCHANGED <<dbVars, handle, slotHolder, slotLoop, row, force, cancel, seen, procVars>>

ForceRun(s, t) ==
    /\ UserRequest /\ t \in Forceable \ Restricted
    /\ Spawn(s, t, "spawned")
    /\ force' = [force EXCEPT ![s] = TRUE]
    /\ UNCHANGED <<dbVars, memVars, row, cancel, seen, procVars>>

\* Variant: the counter may reach the threshold without firing.
CountEventLate(t) ==
    /\ up /\ t \in EventTasks /\ status[t] = "active"
    /\ counter[t] + 1 <= Threshold
    /\ counter' = [counter EXCEPT ![t] = @ + 1]
    /\ UNCHANGED <<status, nextRun, ahead, memVars, runVars, procVars>>

\* _handle_event below the threshold: only the counter moves.
CountEvent(t) ==
    /\ up /\ t \in EventTasks /\ status[t] = "active"
    /\ counter[t] + 1 < Threshold
    /\ counter' = [counter EXCEPT ![t] = @ + 1]
    /\ UNCHANGED <<status, nextRun, ahead, memVars, runVars, procVars>>

\* Variant: no membership test.
TriggerEventUnchecked(s, t, how) ==
    /\ up /\ t \in EventTasks /\ status[t] = "active"
    /\ counter[t] + 1 >= Threshold
    /\ how = "worker" => t \in SyncEvents /\ UserRequest
    /\ counter' = [counter EXCEPT ![t] = 0]
    /\ nextRun' = [nextRun EXCEPT ![t] = "due"]
    /\ Spawn(s, t, how)
    /\ executing' = executing \cup {t}
    /\ UNCHANGED <<status, ahead, handle, slotHolder, slotLoop, row, force, cancel, seen, procVars>>

\* _handle_event at the threshold: the trigger is persisted, then handed to
\* run_task_now, which does nothing for a task in flight.  From a sync route
\* it runs in a worker thread, on an event loop of its own.
TriggerEvent(s, t, how) ==
    /\ up /\ t \in EventTasks /\ status[t] = "active"
    /\ counter[t] + 1 >= Threshold
    /\ how = "worker" => t \in SyncEvents /\ UserRequest
    /\ counter' = [counter EXCEPT ![t] = 0]
    /\ nextRun' = [nextRun EXCEPT ![t] = "due"]
    /\ \/ t \in executing /\ UNCHANGED <<executing, pc, task>>
       \/ /\ t \notin executing
          /\ Spawn(s, t, how)
          /\ executing' = executing \cup {t}
    /\ UNCHANGED <<status, ahead, handle, slotHolder, slotLoop, row, force, cancel, seen, procVars>>

-----------------------------------------------------------------------------
(* How a coroutine ends and how it enters _execute_task_locked.  The       *)
(* arguments are the scheduler's dictionaries as the caller leaves them.   *)

\* Variants: the semaphore acquired without `async with`, and released by any run.
ReleaseKeepsSlot(s, h, ex, holder) ==
    LET t == task[s] IN
    /\ handle' = IF h[t] = s THEN [h EXCEPT ![t] = NoRun] ELSE h
    /\ executing' = IF force[s] THEN ex ELSE ex \ {t}
    /\ slotHolder' = holder
    /\ force' = [force EXCEPT ![s] = FALSE]
    /\ cancel' = [cancel EXCEPT ![s] = "none"]
    /\ seen' = [seen EXCEPT ![s] = {}]
ReleaseAnySlot(s, h, ex, holder) ==
    /\ ReleaseKeepsSlot(s, h, ex, NoRun)

\* The finally blocks of _execute_task_locked and _execute_task: the handle is
\* popped only if it is still this coroutine, the task leaves _executing
\* whoever put it there, and leaving `async with` frees the slot.
Release(s, h, ex, holder) ==
    LET t == task[s] IN
    /\ handle' = IF h[t] = s THEN [h EXCEPT ![t] = NoRun] ELSE h
    /\ executing' = IF force[s] THEN ex ELSE ex \ {t}
    /\ slotHolder' = IF holder = s THEN NoRun ELSE holder
    /\ force' = [force EXCEPT ![s] = FALSE]
    /\ cancel' = [cancel EXCEPT ![s] = "none"]
    /\ seen' = [seen EXCEPT ![s] = {}]

End(s, h, ex, holder) ==
    /\ Release(s, h, ex, holder)
    /\ pc' = [pc EXCEPT ![s] = "free"]
    /\ task' = [task EXCEPT ![s] = NoTask]

Loaded(t) == (IF nextRun[t] # "none" THEN {"next"} ELSE {})
             \cup (IF t \in ahead THEN {"ahead"} ELSE {})

\* Commit the row as running, load the task's columns, start the body (and,
\* unless forced, the monitor that cancels it when the user comes back).
StartBody(s) ==
    /\ pc' = [pc EXCEPT ![s] = "body"]
    /\ row' = [row EXCEPT ![s] = "running"]
    /\ seen' = [seen EXCEPT ![s] = Loaded(task[s])]
    /\ UNCHANGED <<status, nextRun>>

\* The head of _execute_task_locked, up to its first await: skip a task that
\* is no longer active, pause one its owner may not run, wait for quiet, or run.
Enter(s, h, ex, holder, r, c) ==
    LET t == task[s] IN
    \/ /\ status[t] # "active"
       /\ row' = [row EXCEPT ![s] = IF r = "queued" THEN "done" ELSE r]
       /\ End(s, h, ex, holder)
       /\ UNCHANGED <<status, nextRun>>
    \/ /\ status[t] = "active" /\ t \in Restricted
       /\ row' = [row EXCEPT ![s] = "done"]
       /\ status' = [status EXCEPT ![t] = "paused"]
       /\ nextRun' = [nextRun EXCEPT ![t] = "none"]
       /\ End(s, h, ex, holder)
    \/ /\ status[t] = "active" /\ t \notin Restricted
       /\ handle' = h /\ executing' = ex /\ slotHolder' = holder
       /\ cancel' = [cancel EXCEPT ![s] = c]
       /\ \/ /\ foreground /\ ~force[s]
             /\ pc' = [pc EXCEPT ![s] = "quiet"]
             /\ row' = [row EXCEPT ![s] = r]
             /\ UNCHANGED <<status, nextRun, seen>>
          \/ (~foreground \/ force[s]) /\ StartBody(s)
       /\ UNCHANGED <<task, force>>

NeedsSlot(s) == task[s] \in ModelBacked /\ ~force[s]
Waiting      == {s \in Runs : pc[s] = "slot" /\ cancel[s] = "none"}
SlotFree     == slotHolder = NoRun /\ Waiting = {}

\* First step of a spawned _execute_task; a chained one first joins _executing
\* (_run_chained).  The worker thread's loop is closed when fire_event returns,
\* which cancels its coroutine at the first await.
Begin(s) ==
    /\ pc[s] \in Unstarted
    /\ ~(pc[s] = "chained" /\ task[s] \in executing)
    /\ LET t    == task[s]
           h    == [handle EXCEPT ![t] = s]
           ex   == IF pc[s] = "chained" THEN executing \cup {t} ELSE executing
           loop == IF pc[s] = "worker" THEN "worker" ELSE "main"
           c    == IF pc[s] = "worker" THEN "stop" ELSE "none"
       IN  \/ /\ ~NeedsSlot(s)
              /\ Enter(s, h, ex, slotHolder, "queued", c)
              /\ UNCHANGED slotLoop
           \/ /\ NeedsSlot(s) /\ SlotFree
              /\ Enter(s, h, ex, s, "queued", c)
              /\ UNCHANGED slotLoop
           \/ \* a waiter binds the semaphore to its loop
              /\ NeedsSlot(s) /\ ~SlotFree
              /\ slotLoop = "unbound" \/ (slotLoop = "main" /\ loop = "main")
              /\ slotLoop' = loop
              /\ pc' = [pc EXCEPT ![s] = "slot"]
              /\ row' = [row EXCEPT ![s] = "queued"]
              /\ cancel' = [cancel EXCEPT ![s] = c]
              /\ handle' = h /\ executing' = ex
              /\ UNCHANGED <<status, nextRun, slotHolder, task, force, seen>>
           \/ \* RuntimeError "bound to a different event loop" ends the coroutine
              /\ NeedsSlot(s) /\ ~SlotFree
              /\ slotLoop = "worker" \/ (slotLoop = "main" /\ loop = "worker")
              /\ row' = [row EXCEPT ![s] = "queued"]
              /\ End(s, h, ex, slotHolder)
              /\ UNCHANGED <<status, nextRun, slotLoop>>
    /\ UNCHANGED <<counter, ahead, procVars>>

\* _run_chained on a task already in flight.
ChainRefused(s) ==
    /\ pc[s] = "chained" /\ task[s] \in executing
    /\ pc' = [pc EXCEPT ![s] = "free"]
    /\ task' = [task EXCEPT ![s] = NoTask]
    /\ UNCHANGED <<dbVars, memVars, row, force, cancel, seen, procVars>>

\* A waiter gets the semaphore.
TakeSlot(s) ==
    /\ s \in Waiting /\ slotHolder = NoRun
    /\ Enter(s, handle, executing, s, row[s], "none")
    /\ UNCHANGED <<counter, ahead, slotLoop, procVars>>

\* Variant: the gate swallows a cancellation.
LeaveQuietCancelled(s) ==
    /\ pc[s] = "quiet" /\ ~foreground
    /\ StartBody(s)
    /\ UNCHANGED <<counter, ahead, memVars, task, force, cancel, procVars>>

\* wait_for_interactive_quiet returns.  Nothing re-reads task.status.
LeaveQuiet(s) ==
    /\ pc[s] = "quiet" /\ cancel[s] = "none" /\ ~foreground
    /\ StartBody(s)
    /\ UNCHANGED <<counter, ahead, memVars, task, force, cancel, procVars>>

-----------------------------------------------------------------------------
(* The body and its outcomes *)

\* `task.next_run = v` on the loaded row: SQLAlchemy writes nothing when the
\* loaded value was already null and v is null.
WriteNextRun(s, v) ==
    nextRun' = IF v = "none" /\ "next" \notin seen[s] THEN nextRun
               ELSE [nextRun EXCEPT ![task[s]] = v]

\* compute_next_run on the loaded columns; null for event tasks.
NextAfter(s) ==
    IF task[s] \in EventTasks \/ (task[s] \in Once /\ "ahead" \notin seen[s])
    THEN "none" ELSE "later"

\* A session delivery that creates the chat session commits the run as
\* "success" and reloads the task before the run is over.
DeliverResult(s) ==
    /\ pc[s] = "body" /\ cancel[s] = "none"
    /\ pc' = [pc EXCEPT ![s] = "deliver"]
    /\ row' = [row EXCEPT ![s] = "done"]
    /\ seen' = [seen EXCEPT ![s] = Loaded(task[s])]
    /\ UNCHANGED <<dbVars, memVars, task, force, cancel, procVars>>

\* _has_chain_cycle: the chain from t does not end within max_depth tasks.
MaxChainDepth == 10
HasChainCycle(t) ==
    LET hop[n \in 0..MaxChainDepth] ==
            IF n = 0 THEN t
            ELSE IF hop[n - 1] = NoTask THEN NoTask ELSE ThenTask[hop[n - 1]]
    IN  \A n \in 0..MaxChainDepth : hop[n] # NoTask

Chains(t) == ThenTask[t] # NoTask /\ ~HasChainCycle(ThenTask[t])

\* What follows the body: settle a success or failure (and spawn the chained
\* task), the error path of a raised exception, or nothing when the handler
\* that caught the outcome committed it already.  A chained coroutine takes
\* the slot of the one that spawns it.
Finish(s, outcome) ==
    LET t == task[s] IN
    /\ Release(s, handle, executing, slotHolder)
    /\ IF outcome = "success" /\ Chains(t)
       THEN /\ pc' = [pc EXCEPT ![s] = "chained"]
            /\ task' = [task EXCEPT ![s] = ThenTask[t]]
       ELSE /\ pc' = [pc EXCEPT ![s] = "free"]
            /\ task' = [task EXCEPT ![s] = NoTask]
    /\ \/ /\ outcome \in {"success", "failure"}
          /\ row' = [row EXCEPT ![s] = "done"]
          /\ WriteNextRun(s, NextAfter(s))
          /\ status' = IF t \in Once /\ NextAfter(s) = "none"
                       THEN [status EXCEPT ![t] = "completed"] ELSE status
       \/ /\ outcome = "raised"
          /\ row' = [row EXCEPT ![s] = "done"]
          /\ IF t \in EventTasks THEN UNCHANGED nextRun
             ELSE WriteNextRun(s, NextAfter(s))
          /\ UNCHANGED status
       \/ outcome = "settled" /\ UNCHANGED <<row, status, nextRun>>

\* The body ends by itself: forced runs have no monitor to await.
BodyEnds(s) ==
    /\ pc[s] \in InBody /\ cancel[s] = "none"
    /\ \E outcome \in {"success", "failure", "raised"} :
        /\ pc[s] = "deliver" => outcome # "failure"
        /\ IF force[s] THEN Finish(s, outcome)
           ELSE /\ pc' = [pc EXCEPT ![s] = outcome]
                /\ UNCHANGED <<status, nextRun, row, executing, handle, slotHolder,
                               task, force, cancel, seen>>
    /\ UNCHANGED <<counter, ahead, slotLoop, procVars>>

\* Handlers that commit an outcome and return through the monitor's await.
Settled(s, r, v, direct) ==
    /\ WriteNextRun(s, v)
    /\ row' = [row EXCEPT ![s] = r]
    /\ IF direct THEN End(s, handle, executing, slotHolder)
       ELSE /\ pc' = [pc EXCEPT ![s] = "settled"]
            /\ cancel' = [cancel EXCEPT ![s] = "none"]
            /\ UNCHANGED <<executing, handle, slotHolder, task, force, seen>>
    /\ UNCHANGED <<status, counter, ahead, slotLoop, procVars>>

\* Variant: nothing done, next_run left alone.
BodyNoopDue(s) ==
    /\ pc[s] = "body" /\ cancel[s] = "none"
    /\ Settled(s, "done", nextRun[task[s]], force[s])

\* TaskNoop: nothing to do.
BodyNoop(s) ==
    /\ pc[s] = "body" /\ cancel[s] = "none"
    /\ Settled(s, "done", NextAfter(s), force[s])

\* TaskDeferred: the row is deleted and the task retried later.
BodyDefers(s) ==
    /\ pc[s] = "body" /\ cancel[s] = "none"
    /\ Settled(s, "none", "later", force[s])

\* CancelledError in the body: by the monitor, 15 minutes; otherwise as settled.
\* A monitor that fired is done, and is not awaited.
CancelBody(s) ==
    /\ pc[s] \in InBody /\ cancel[s] # "none"
    /\ Settled(s, "aborted", IF cancel[s] = "foreground" THEN "later" ELSE NextAfter(s),
               force[s] \/ cancel[s] = "foreground")

\* After the await of the monitor.
Settle(s) ==
    /\ pc[s] \in Unwinding
    /\ Finish(s, pc[s])
    /\ UNCHANGED <<counter, ahead, slotLoop, procVars>>

\* Variants: next_run left due, next_run cleared.
CancelQueuedWith(s, v) ==
    /\ pc[s] \in {"slot", "quiet"} /\ cancel[s] # "none"
    /\ row' = [row EXCEPT ![s] = "aborted"]
    /\ nextRun' = [nextRun EXCEPT ![task[s]] = v]
    /\ End(s, handle, executing, slotHolder)
    /\ UNCHANGED <<status, counter, ahead, slotLoop, procVars>>
CancelQueuedDue(s)    == CancelQueuedWith(s, nextRun[task[s]])
CancelQueuedClears(s) == CancelQueuedWith(s, NextAfter(s))

\* CancelledError behind the semaphore or at the gate: _execute_task aborts the
\* row and moves a task that is still due by 15 minutes.
CancelQueued(s) ==
    /\ pc[s] \in {"slot", "quiet"} /\ cancel[s] # "none"
    /\ row' = [row EXCEPT ![s] = IF @ \in Open THEN "aborted" ELSE @]
    /\ nextRun' = IF status[task[s]] = "active" /\ nextRun[task[s]] = "due"
                  THEN [nextRun EXCEPT ![task[s]] = "later"] ELSE nextRun
    /\ End(s, handle, executing, slotHolder)
    /\ UNCHANGED <<status, counter, ahead, slotLoop, procVars>>

\* Variant: only a new request interrupts, not the foreground itself.
MonitorOnRequest(s) ==
    /\ pc[s] \in InBody /\ ~force[s] /\ stopPending
    /\ cancel[s] # "foreground"
    /\ cancel' = [cancel EXCEPT ![s] = "foreground"]
    /\ UNCHANGED <<dbVars, memVars, row, pc, task, force, seen, procVars>>

\* _cancel_if_foreground_active
MonitorFires(s) ==
    /\ pc[s] \in InBody /\ ~force[s] /\ foreground
    /\ cancel[s] # "foreground"
    /\ cancel' = [cancel EXCEPT ![s] = "foreground"]
    /\ UNCHANGED <<dbVars, memVars, row, pc, task, force, seen, procVars>>

-----------------------------------------------------------------------------
(* Stopping *)

\* handle.cancel() as the coroutine sees it: swallowed while it awaits its monitor.
Cancelled(s) ==
    IF pc[s] \in Unwinding \/ cancel[s] = "foreground" THEN cancel[s] ELSE "stop"

OpenRows(t) == {s \in Runs : task[s] = t /\ row[s] \in Open}

\* _mark_run_aborted takes the open row of the task with the latest started_at;
\* here any of them.
StopTask(t) ==
    /\ UserRequest /\ t \in Stoppable
    /\ handle[t] # NoRun \/ t \in executing \/ OpenRows(t) # {}
    /\ cancel' = [s \in Runs |-> IF s = handle[t] THEN Cancelled(s) ELSE cancel[s]]
    /\ executing' = executing \ {t}
    /\ \/ OpenRows(t) = {} /\ UNCHANGED row
       \/ \E s \in OpenRows(t) : row' = [row EXCEPT ![s] = "aborted"]
    /\ UNCHANGED <<dbVars, handle, slotHolder, slotLoop, pc, task, force, seen, procVars>>

\* stop_background_tasks_for_foreground
StopBackground ==
    /\ up /\ stopPending
    /\ stopPending' = FALSE
    /\ cancel' = [s \in Runs |-> IF \E t \in executing : handle[t] = s
                                 THEN Cancelled(s) ELSE cancel[s]]
    /\ \E mark \in [executing -> Runs \cup {NoRun}] :
        /\ \A t \in executing : IF OpenRows(t) = {} THEN mark[t] = NoRun
                                ELSE mark[t] \in OpenRows(t)
        /\ row' = [s \in Runs |-> IF s \in Range(mark) THEN "aborted" ELSE row[s]]
    /\ UNCHANGED <<dbVars, memVars, pc, task, force, seen, foreground, up>>

\* The activity middleware or the browser heartbeat.
ForegroundStarts ==
    /\ up /\ Gated
    /\ foreground' = TRUE /\ stopPending' = TRUE
    /\ UNCHANGED <<dbVars, memVars, runVars, up>>

ForegroundEnds ==
    /\ foreground
    /\ foreground' = FALSE
    /\ UNCHANGED <<dbVars, memVars, runVars, stopPending, up>>

-----------------------------------------------------------------------------
(* Editing a task *)

Pause(t) ==
    /\ UserRequest /\ status[t] # "paused"
    /\ status' = [status EXCEPT ![t] = "paused"]
    /\ UNCHANGED <<nextRun, counter, ahead, memVars, runVars, procVars>>

\* resume_task recomputes next_run from the stored schedule.
Resume(t) ==
    /\ UserRequest /\ t \notin Restricted
    /\ status' = [status EXCEPT ![t] = "active"]
    /\ nextRun' = [nextRun EXCEPT ![t] =
                    IF t \in EventTasks THEN @
                    ELSE IF t \in Once \ ahead THEN "none" ELSE "later"]
    /\ UNCHANGED <<counter, ahead, memVars, runVars, procVars>>

\* update_task with a new schedule; a once task gets any date.
Reschedule(t) ==
    /\ UserRequest /\ t \notin EventTasks \cup Restricted
    /\ ahead' \in {ahead \cup ({t} \cap Once), ahead \ {t}}
    /\ nextRun' = [nextRun EXCEPT ![t] =
                    IF status[t] # "active" THEN @
                    ELSE IF t \in Once \ ahead' THEN "none" ELSE "later"]
    /\ UNCHANGED <<status, counter, memVars, runVars, procVars>>

-----------------------------------------------------------------------------
(* The process *)

\* Everything but the database is lost.
Crash ==
    /\ up /\ up' = FALSE
    /\ executing' = {} /\ handle' = [t \in Tasks |-> NoRun]
    /\ slotHolder' = NoRun /\ slotLoop' = "unbound"
    /\ pc' = [s \in Runs |-> "free"]
    /\ task' = [s \in Runs |-> NoTask]
    /\ force' = [s \in Runs |-> FALSE]
    /\ cancel' = [s \in Runs |-> "none"]
    /\ seen' = [s \in Runs |-> {}]
    /\ foreground' = FALSE /\ stopPending' = FALSE
    /\ UNCHANGED <<dbVars, row>>

\* Variant: only rows left "running" are cleared.
RestartRunning ==
    /\ ~up /\ up' = TRUE
    /\ row' = [s \in Runs |-> IF row[s] = "running" THEN "aborted" ELSE row[s]]
    /\ UNCHANGED <<dbVars, memVars, pc, task, force, cancel, seen, foreground, stopPending>>

\* start(): zombie rows are aborted, overdue tasks move one minute.
Restart ==
    /\ ~up /\ up' = TRUE
    /\ row' = [s \in Runs |-> IF row[s] \in Open THEN "aborted" ELSE row[s]]
    /\ nextRun' = [t \in Tasks |-> IF status[t] = "active" /\ nextRun[t] = "due"
                                   THEN "later" ELSE nextRun[t]]
    /\ UNCHANGED <<status, counter, ahead, memVars, pc, task, force, cancel, seen,
                   foreground, stopPending>>

-----------------------------------------------------------------------------
RunStep(s) ==
    \/ Begin(s) \/ ChainRefused(s) \/ TakeSlot(s) \/ LeaveQuiet(s)
    \/ DeliverResult(s) \/ BodyEnds(s) \/ BodyNoop(s) \/ BodyDefers(s)
    \/ CancelBody(s) \/ CancelQueued(s) \/ Settle(s) \/ MonitorFires(s)

Dispatch ==
    \/ DispatchDue \/ DeferDue
    \/ \E s \in Runs, t \in Tasks : \/ RunNow(s, t) \/ ForceRun(s, t)
                                    \/ TriggerEvent(s, t, "spawned")
                                    \/ TriggerEvent(s, t, "worker")

TaskStep(t) ==
    TimePasses(t) \/ CountEvent(t) \/ StopTask(t) \/ Pause(t) \/ Resume(t) \/ Reschedule(t)

ProcessStep == StopBackground \/ ForegroundStarts \/ ForegroundEnds \/ Crash \/ Restart

Next == \/ \E s \in Runs : RunStep(s)
        \/ Dispatch
        \/ \E t \in Tasks : TaskStep(t)
        \/ ProcessStep

Spec == Init /\ [][Next]_vars

-----------------------------------------------------------------------------
(* Safety *)

\* The type of the database columns and of the scheduler's and coroutines'
\* memory; a counter is always below the threshold it is reset at.
TypeOK ==
    /\ status \in [Tasks -> {"active", "paused", "completed"}]
    /\ nextRun \in [Tasks -> {"none", "due", "later"}]
    /\ counter \in [Tasks -> 0..(Threshold - 1)]
    /\ ahead \subseteq Once
    /\ row \in [Runs -> Open \cup {"none", "done", "aborted"}]
    /\ executing \subseteq Tasks
    /\ handle \in [Tasks -> Runs \cup {NoRun}]
    /\ slotHolder \in Runs \cup {NoRun}
    /\ slotLoop \in {"unbound", "main", "worker"}
    /\ pc \in [Runs -> {"free"} \cup Unstarted \cup Started]
    /\ task \in [Runs -> Tasks \cup {NoTask}]
    /\ \A s \in Runs : task[s] = NoTask <=> pc[s] = "free"
    /\ force \in [Runs -> BOOLEAN]
    /\ cancel \in [Runs -> {"none", "stop", "foreground"}]
    /\ seen \in [Runs -> SUBSET {"next", "ahead"}]
    /\ foreground \in BOOLEAN /\ stopPending \in BOOLEAN /\ up \in BOOLEAN

Dispatched(s) == pc[s] \notin {"free", "chained"} /\ ~force[s]

\* "Without this lock long-running tasks could be double-dispatched": no task has two
\* coroutines in flight through _executing (forced runs are outside it).  stop_task takes
\* a task out of _executing while its coroutine lives, so that a task somebody stops may
\* have two.
DispatchedOnce ==
    \A r, s \in Runs :
        /\ Dispatched(r) /\ Dispatched(s)
        /\ task[r] = task[s] /\ task[r] \notin Stoppable
        => r = s

\* "Strict serial execution": past the semaphore there is one model-backed run
\* at a time, through the gate, the body and the bookkeeping after it.
OneModelRun ==
    \A r, s \in Runs :
        /\ NeedsSlot(r) /\ pc[r] \in Started \ {"slot"}
        /\ NeedsSlot(s) /\ pc[s] \in Started \ {"slot"}
        => r = s

\* No phantom rows: while the process is up, a row shown as queued or running
\* has a coroutine that will finish it ("starts when the current run finishes").
OpenRowsAreAlive ==
    up => \A s \in Runs : row[s] \in Open => pc[s] \in Started

\* Everything the scheduler started is within reach of Stop and of the
\* foreground: it is in _executing and its handle is the task's.
RunsAreStoppable ==
    \A s \in Runs :
        /\ pc[s] \in Started /\ ~force[s]
        /\ task[s] \notin Stoppable \cup Forceable
        => task[s] \in executing /\ handle[task[s]] = s

\* No coroutine, however it ends, leaves something behind that blocks the others:
\* the slot every model-backed run waits for, the membership that refuses the task's
\* next run with 409, the handle Stop would cancel instead of the next one.
InSlot(s)    == NeedsSlot(s) /\ pc[s] \in Started \ {"slot"}
SlotOwned    == slotHolder # NoRun => InSlot(slotHolder)
MembersAlive == \A t \in executing : \E s \in Runs : Dispatched(s) /\ task[s] = t
HandlesAlive == \A t \in Tasks : \A s \in Runs :
                    handle[t] = s => task[s] = t /\ pc[s] \in Started
NothingLeaks == SlotOwned /\ MembersAlive /\ HandlesAlive

\* A row aborted in the queue or at the gate is not set running by the step.
StaysDown ==
    \A s \in Runs :
        /\ pc[s] \in Started /\ row[s] = "aborted"
        /\ task[s] \notin Stoppable \cup Forceable
        => row'[s] # "running"

\* A run aborted in the queue or at the gate by the foreground does not come
\* back to life: its row never turns running.
AbortedStaysDown == [][StaysDown]_vars

\* The step is the end of run s, of its own or because it was stopped; the monitor's
\* interruption is neither.
Consumes(s) ==
    /\ \/ pc[s] \in Unwinding
       \/ pc[s] \in InBody /\ cancel[s] # "foreground"
    /\ pc'[s] # pc[s]

\* "The trigger survives reboot": a persisted event trigger is only cleared by the end of
\* a run of that task that got as far as its body, or by blocking the task; no crash,
\* restart, deferral, end in the queue or at the gate, and no interruption by the monitor
\* clears it.  What stop_background_tasks_for_foreground cancels in the body does count as
\* stopped here, as it does in the code (see InterruptedIsDeferred), and the event that
\* fires while a run is in its body has its trigger cleared with that run's.
TriggerConsumedByRun ==
    [][\A t \in EventTasks \ Restricted :
        nextRun[t] = "due" /\ nextRun'[t] = "none"
        => \E s \in Runs : task[s] = t /\ Consumes(s)]_vars

\* "Automatic jobs will be deferred by their cancellation path instead of stealing the
\* app": where no user stops a task, a cancelled body does not leave a task that was due
\* without a next run.
InterruptedIsDeferred ==
    [][\A s \in Runs :
        /\ pc[s] \in InBody /\ cancel[s] # "none" /\ pc'[s] \notin InBody
        /\ task[s] \notin Stoppable \cup Forceable
        /\ nextRun[task[s]] = "due"
        => nextRun'[task[s]] # "none"]_vars

\* A run that was queued, or that found a next_run at body start, reports its end.
\* (One that found none leaves alone a date set while it ran, due or not.)
Commits(s) ==
    /\ \/ pc[s] \in {"slot", "quiet"}
       \/ pc[s] \in InBody \cup {"success", "failure", "raised"} /\ "next" \in seen[s]
    /\ pc'[s] \in {"free", "chained", "settled"}
    /\ up'

\* "Advance next_run even on failure so a broken task doesn't busy-loop the
\* scheduler": whatever ends a run, its task is not left active and due.  The error path
\* does leave an event task so (README, section 4).
EveryRunAdvances ==
    [][\A s \in Runs : Commits(s) /\ status'[task[s]] = "active"
                       => nextRun'[task[s]] # "due"]_vars

\* The part of it that the code keeps: tasks on a schedule.
ScheduledRunAdvances ==
    [][\A s \in Runs :
        /\ Commits(s) /\ task[s] \notin EventTasks
        /\ status'[task[s]] = "active"
        => nextRun'[task[s]] # "due"]_vars

-----------------------------------------------------------------------------
(* Liveness.  The event loop resumes every ready coroutine; model and tool    *)
(* calls have timeouts, so a body ends if the user is idle often enough;      *)
(* asyncio.Semaphore is FIFO, so a waiter is not overtaken for ever.          *)
(* Nothing is assumed of the user, who may stay for ever.                     *)

Fairness ==
    /\ \A s \in Runs :
        /\ WF_vars(Begin(s) \/ ChainRefused(s) \/ CancelQueued(s) \/ CancelBody(s) \/ Settle(s))
        /\ SF_vars(BodyEnds(s) /\ ~foreground) /\ WF_vars(MonitorFires(s))
        /\ SF_vars(TakeSlot(s)) /\ SF_vars(LeaveQuiet(s))
    /\ WF_vars(StopBackground) /\ WF_vars(DispatchDue \/ DeferDue)
    /\ WF_vars(Restart)

FairSpec == Spec /\ Fairness

Idle == []<>~foreground

\* No coroutine waits for ever behind the semaphore or at the gate of a user
\* who goes idle again and again.
RunsEnd == Idle => \A s \in Runs : pc[s] # "free" ~> pc[s] = "free"

\* A due task on a schedule is dispatched and rescheduled, or deferred.
DueIsHandled ==
    Idle => \A t \in Tasks \ EventTasks :
        status[t] = "active" /\ nextRun[t] = "due"
        ~> status[t] # "active" \/ nextRun[t] # "due"

\* "Background means background": while the user stays, a run is interrupted
\* even if its body would never end by itself.
BackgroundYields ==
    \A s \in Runs :
        pc[s] \in InBody /\ foreground /\ ~force[s]
        ~> pc[s] \notin InBody \/ ~foreground
=============================================================================
