# GepLex: a verification project

TLA+ models of the concurrent core of GepLex, a self-hosted AI workspace: one
Python process (FastAPI on one asyncio event loop, SQLite behind SQLAlchemy) that
serves chats with language models and runs agents and scheduled tasks in the
background, and a page in the browser, plain JavaScript on one thread, that keeps
several streams and a list of sessions in step with it. Paths below are relative to
the repository; front-end files are in `static/js/`.

    tlc -config Sched.cfg MCTaskScheduler     # model-check one run
    tlapm TaskSchedulerProofs.tla             # check the proofs

## 1. The system

### Components

| Component | State it keeps | Operations | Talks to |
|---|---|---|---|
| **Task scheduler** `src/task_scheduler.py` | rows of `scheduled_tasks` and `task_runs`; `_executing`, `_task_handles`, `_run_semaphore` | poll due tasks, run, chain, stop, yield to the foreground, recover at start | event bus and task routes call it; it reads the gate; bodies call the agent loop |
| **Event bus** `src/event_bus.py` | `trigger_counter` of event tasks | `fire_event`, from coroutines and from synchronous routes | scheduler |
| **Interactive gate** `src/interactive_gate.py` | active requests, last activity, browser heartbeat | track a request, wait until quiet | middleware in `app.py`, scheduler, agent runs |
| **Task routes** `routes/task/task_routes.py` | none | run, force-run, stop, pause, resume, update, ... | scheduler, database |
| **Agent runs** `src/agent_runs.py` | `_RUNS`: buffer, subscribers, status, drain task and eviction timer of each session's run | start, subscribe, stop, evict | chat routes; compaction and the background monitor ask `is_active` |
| **Background jobs** `src/bg_jobs.py`, `bg_monitor.py`, `agent_tools/bg_job_tools.py` | a JSON file of jobs, processes with exit files | launch, refresh, kill, prune, follow up once | agent runs, session manager |
| **Chat streams** `chat.js` | `_activeStreams`, `_sendStates`, `_streamGenerations`, `_streamRunIds`, `_pendingRunStops`, `_backgroundStreams`, `_resumingStreams`, the composer's lock | send, stop, time out, detach, re-attach, recover | chat routes, `sessions.js` |
| **Session navigation** `sessions.js`, `modelPicker.js`, `app.js` | `currentSessionId`, the URL, the stored last session, `_pendingChat`, `_sessionNavToken`, what is on screen | open, new chat, reload the list, create on first send, delete, pick a model | chat streams, session routes |
| **Shared fetch cache** `_cached` in the scheduler | cached values, pending futures | single-flight fetch | task bodies |
| **Tool approvals** `src/tool_approvals.py` | pending approvals | request, decide, expire, consume | agent loop, chat routes |
| **Session manager** `core/session_manager.py` | in-memory sessions written through to the database | add message, save, truncate, delete | chat routes, agent runs, background jobs |
| **Document editor** `document.js` | open documents, tabs, an autosave timer, a diff view, version history | type, save, stream, switch | document routes |
| **Download queue** `cookbookRunning.js`, `cookbookDownload.js` | tasks in the browser's storage | queue, poll, remove | model-serving routes |
| **Research panel** `research/jobs.js` | cards of jobs | launch in sequence, poll, cancel | research routes |

The remaining components (agent loop and model client, MCP, webhooks, research,
compaction, authentication, model serving, calendar, mail, uploads, services, the rest
of the front end, integrations) are listed in `PROJECT.json` with the reason each is
left out: they are dominated by text, rendering and I/O, or depend on services the
repository does not define. The models see the agent loop as "a body that ends somehow".

### What is hard

* The code between two awaits is atomic, and nothing else is: every `await` in a run, or
  in a handler of the page, is a point at which anything else can happen.
* Cancellation is asynchronous. `handle.cancel()` is requested at one moment, seen at
  the coroutine's next await, and may be swallowed by a handler on the way.
* The same facts are kept in several places: a row in the database, a set, a
  dictionary of handles, the semaphore; on the page, seven maps about one stream, and the
  URL, a variable, the storage and the screen about one session.
* A crash keeps the database and the job file and loses the rest.
* `fire_event` may run in a worker thread, on an event loop that lives for the call.
* A send names its session and its run late: the session may not exist when the user
  clicks, and the run's name comes with the response's headers. A Stop cannot wait.
* Answers come in any order, or not at all, and find another chat open.

What makes each part correct: *scheduler* - no task twice in flight, one model-backed
run at a time, no row that looks alive without a coroutine, no trigger lost unless its
run is stopped, no task that is due for ever or at every tick, and the foreground always
wins. *Agent runs* -
every client sees its run's log exactly once and in order, none is left hanging, and
runs of a session save one after the other. *Jobs* - each is reported once, unless it is
killed. *Chat streams* - Stop ends the run the user meant, always and only it; what is in
the background settles. *Navigation* - the page is where the user went, shows that
session's messages, and its URL says so.

`PROJECT.json` lists the hazards at their lines, with the properties that cover them.

## 2. Modules

| Module | What it is | Proofs |
|---|---|---|
| `TaskScheduler` | scheduler, event bus, gate and task routes, composed: they share the event loop and the database | `TaskSchedulerProofs` |
| `AgentRuns` | detached runs of one session, their drain tasks and their clients | `AgentRunsProofs` |
| `ReplayLog` | what `AgentRuns` promises its clients, in five actions | |
| `SessionRuns` | what `AgentRuns` promises of a session, and `ChatStreams` assumes of the server | |
| `JobLedger` | what `BgJobs` promises of the record of a job | |
| `BgJobs` | background jobs and their monitor, over sessions that are busy or deleted | `BgJobsProofs` |
| `ChatStreams` | the page's streams, composed with the runs of the server and the requests between them | `ChatStreamsProofs` |
| `SessionNav` | which chat the page is in, composed with the send that needs one | `SessionNavProofs` |
| `MCTaskScheduler`, `MCAgentRuns`, `MCBgJobs`, `MCChat`, `MCNav` | their instances for TLC | |

Definitions commented as *variant* (`CountEventLate`, `WantedAlways`) are
mutated forms of a definition that follows; they are no part of the specification.

### TaskScheduler

The state is the database (`status`, `nextRun`, `counter`, `ahead`, and `row`, the
status of a run's `task_runs` row), the scheduler object (`executing`, `handle`,
`slotHolder`, `slotLoop`), the coroutines (`pc`, `task`, `force`, `cancel`, `seen`) and
the process (`foreground`, `stopPending`, `up`). Times are classes: `next_run` is
none, due or later.

A coroutine goes through these points, each the await it is suspended at:

    spawned / worker / chained   created, not yet begun
    slot        async with _run_semaphore
    quiet       wait_for_interactive_quiet
    body        _execute_action, _execute_research_task or _execute_llm_task
    deliver     in _deliver_task_result, the run committed as "success" already
    success / failure / raised / settled    await foreground_monitor, in the finally

An action is the code from one of these points to the next, with its commits:
`Begin` is `_execute_task` up to the semaphore, or through `Enter` (the head of
`_execute_task_locked`) to the gate or the body; `Finish` is all that follows the
body, up to and including `create_task(_run_chained)` and both `finally` blocks.
`seen` is what the run loaded of its task at body start: SQLAlchemy writes back
computed values from that copy, and skips a null that was null when loaded.

Abstractions, each on purpose:

* `ForegroundStarts` is one flag for requests, heartbeats and active streams. It also
  spawns the stop coroutine (`stopPending`). A request to the task routes is itself
  foreground activity, hence `UserRequest`. `BACKGROUND_TASK_MAX_WAIT_SECONDS` has its
  default, 0: the gate waits indefinitely.
* The FIFO of the semaphore becomes any order in the safety runs, and strong fairness
  of each waiter in the liveness run.
* `_mark_run_aborted` takes the open row with the latest start; here any open row of
  the task. A finished row is overwritten when its coroutine slot is used again.
* Owners: `Restricted` is the set of tasks whose owner lacks the privilege, fixed.
* The set of tasks, their kinds and `then_task_id` are fixed: creation, deletion,
  revert and the webhook trigger are not modelled. Database commits do not fail.
* A worker thread's `_handle_event` is atomic with respect to the main loop.
* `cancel` is what requested a coroutine's cancellation: "foreground" is its own monitor,
  which sets `foreground_cancel["hit"]`; anything else, `StopBackground` among it, the
  handler takes for the user's Stop.

### AgentRuns

`started` and `current` are `_RUNS`; `status`, `size`, `armed` are a run's status, the
length of its buffer and its eviction timer; `pc`, `prev`, `cancel` its drain task;
`cpc`, `bound`, `queue`, `pos` a client's response, its queue and `next_seq`. `got` is
history: what the client was sent. Events are numbered from 0, and the sentinel
`(None, None)` is `End`.

The drain task is *new* until its first instruction (a task cancelled before it never
enters `_drain`), *waiting* for its predecessor, *streaming*, *unwinding* (the
cancellation is in the generator, which saves its partial response), or at the
*barrier* (`asyncio.shield` of the predecessor). `Writing` is streaming or unwinding.

One session suffices: runs of different sessions share nothing but the dictionary. A
Stop names a run by the id its response carries, which is sent after the first
instruction of the drain task. The 10-second heartbeat is a stutter: its other branch,
a timeout that finds the run finished, is never needed, by `WaitersAreServed`. The
generator re-raises a cancellation, as `stream_with_save` does.

### BgJobs

`status`, `followed` and `home` are the records of the file, `proc` the detached process:
alive, exited (it left its exit file) or dead (it left nothing). `mon` is the monitor
between two awaits: the job whose agent turn is under way and what is left of the tick
that began with `pending_followups()`. `Reconcile` is `refresh()` with `_prune`, which
every reader of the file calls first. A follow-up is written whatever became of its
session during the turn (`Delivers`); a deleted session raises and is tried again
(`Scan`, `Fails`), which is what `get_session` does. A crash may fall between the message
and `mark_followed_up` (`torn`). The file is written in one step: a torn write is not
modelled, nor are two servers over one file.

### ChatStreams

A send is a number: it is also its generation, its controller and the run the server
starts for it. `pc` is the await its `handleChatSubmit` is at:

    gate      between the click and the commit (uploads, the session's creation)
    prep      committed, before its POST
    posted    awaiting the headers, which carry the run's id
    reading   in the reader loop
    closing   past [DONE], awaiting the close of the connection
    thrown    left by an error nothing catches, with the composer locked

`gen`, `state`, `runId`, `active`, `bg`, `resuming` are the maps `_streamGenerations`,
`_sendStates`, `_streamRunIds`, `_activeStreams`, `_backgroundStreams`,
`_resumingStreams`, and `pend` is `_pendingRunStops`. `wire`, `run` and `stops` are the
requests and the server's runs; a POST may arrive after its controller was aborted, and
requests may be lost. `att` are calls of `resumeStream`, `probe` the check of a silent
stream. `gap` is history: the sends whose chat was left while they were *closing*. `[DONE]`
comes with the end of the run. `ServerStarts`, `ServerEnds` and `ServerStops` are the server: what they do is
`SessionRuns`, one running run per session, which `AgentRuns` implements (section 5).

Left out: messages typed while a stream runs, the events that say its message is saved
already, the abort of a controller that no session owns. The retries' counters are
abstracted by the number of `Attempts`.

### The abstract specifications

`ReplayLog`, `SessionRuns` and `JobLedger` are written from what the code promises, and
each is implemented by a model under a mapping of its variables:

| Abstract | Implemented by | Mapping |
|---|---|---|
| `ReplayLog` | `AgentRuns` (`ImplementsReplayLog`) | a log is a buffer (`size`), a reader a response (`bound`, `got`) |
| `SessionRuns` | `AgentRuns` (`OneRunAtATime`) | a run started is of the session; it is live while its status is "running" |
| `SessionRuns` | `ChatStreams` (`ServerKeepsContract`, in `ChatStreamsProofs`) | an accepted POST is of its send's session; it is live while `run` is "running" |
| `JobLedger` | `BgJobs` (`ImplementsLedger`) | a record that has ended is *over* without `followed_up` and *closed* with it; a pruned one is *forgotten* |

The second and the third compose the two models: the page is checked against a server
that does no more than `agent_runs.py` was proved to do.

### SessionNav

`current`, `selected`, `hash`, `saved` and `shown` are the same fact in five places:
`currentSessionId`, `__geplexLastSelectedSessionId`, the URL, `lastSessionId` in the
storage, and whose bubbles are on screen. `nav` is the call of `selectSession` that holds
the newest token; those it superseded have only to return, and `lost` has one member for
each kind: one that a send waits for, and others. `send` is the part of
`handleChatSubmit` before its commit: *adopting* a session, at its *gate*, asking for the
*default* model, *creating* the session of the pending chat or *making* one with the
default model, which a `catch` guards, or *stuck* past all of them. A call whose history
failed keeps its token, as *failed*. What is created is for the chat that is still
pending (`mine`) or not, which is the comparison `_pendingChat !== pending`. `picking` and
`opening` are the requests for the default model, of the picker and of New Chat.

`intent` is history: what the user asked for last. `late` becomes true when an answer about
the default model arrives where a session is open or named by the URL; the code does not
look again there, and what follows is exempt from the properties (section 4).

Left out: private, compared and peeked chats, folders, bulk selection, the keyboard's
delete, a fallback model that disappears, models without an endpoint. A session is empty
for ever or has messages for ever (`Empty`); the list is complete when it comes.

## 3. Runs

| Run | Instance | Shows |
|---|---|---|
| `Sched` | a once task chained to an event task, threshold 2; 2 coroutines; foreground gate; crashes | what the scheduler keeps without Stop, force and worker threads |
| `SchedUsers` | a recurring task, stopped and forced, chained to an event task also fired from a worker thread; threshold 2 | the properties that hold whatever the user does: one dispatch, one model run, nothing leaked, no task left due |
| `SchedLive` | a recurring task that is stopped, 2 coroutines, fair | coroutines end; due tasks are handled; the foreground interrupts a body that never ends |
| `SchedLoop` | event task fired from a worker thread beside another task | **violation** of `OpenRowsAreAlive` |
| `SchedDeferred` | one event task that nobody stops, 1 coroutine | **violation** of `InterruptedIsDeferred` |
| `Runs` | 2 runs, 2 events, 2 clients, Stop and early replacement, fair | refinement of `ReplayLog` and `SessionRuns`, complete streams, serial saves, waits for stopped runs only, liveness |
| `RunsOvertaken` | 3 runs, early replacement | **violation** of `SerialSaves` |
| `Bg` | 2 jobs, 2 sessions, crashes, fair | refinement of `JobLedger`; each job is reported once, or killed and silent; every job is heard of |
| `Chat` | 2 sends, 2 sessions | every Stop names the run the user meant, and none is forgotten; the maps agree about the latest send and the background |
| `ChatLive` | 1 send, 1 re-attachment, lost requests, fair | a Stop takes effect; the composer unlocks; background entries settle |
| `ChatSwitch` | 1 send, 2 sessions | **violation** of `SwitchSparesStreams` |
| `Nav` | 3 clicks, 3 sessions: one empty and transient, one to be created; fair | the screen, the URL and the session are those the user opened; a send is released, unless a creation's answer is no JSON |

**Bounds.** In the scheduler, `Runs` (slots) bounds the coroutines alive at a time, not
their number in a behaviour: slots are used again. Two are what every pairwise property
needs - two runs of one task, a holder and a waiter, a run and the one chained to it - and
the theorems remove the bound. Two tasks give contention for the slot, a chain, and a
task beside the one that is stopped; each kind of task is in some run. `Threshold` 2 has a
counter that is not always zero. In `AgentRuns`, `MaxRuns` bounds the runs started;
the barrier concerns three runs, replay concerns two and one replacement.
With two runs `OverlapsPastStopped` says that no two write at once, since a third would
have to stand between them: the theorem is for any number, and `RunsOvertaken` has the
three runs that do overlap. `MaxEvents` 2 gives a buffer with a first and a later event. Two jobs are two records of
one tick and a launch while another is followed up. `MaxSends` 2 is a send and its
replacement, or two sessions' streams. Two sessions, two sends and a re-attachment
together are more than one run should take: `Chat` has no re-attachment and `ChatLive`
one send, and the theorems of section 5 hold for all of it. Three clicks are a chat, a second one opened while
the first is coming, and a send, with any number of reloads and answers between them; the
theorems hold for any number. Symmetry is used in safety runs only, over slots. Deadlock is not checked in
`Runs`, where `MaxRuns` ends the behaviour, and in `Nav`, where the user may stop.

**Fairness.** The event loop resumes every ready coroutine: weak fairness of the steps
that need nothing else. A body ends if the user is idle often enough (`BodyEnds`), and
`RunsEnd` and `DueIsHandled` assume `Idle`, that the user goes idle again and again;
`BackgroundYields` assumes the opposite. Nothing makes the foreground end.
`asyncio.Semaphore` is FIFO and the gate polls four times a second: strong fairness of
`TakeSlot` and `LeaveQuiet`, which other runs disable again and again. The supervisor
restarts the process, and the poll loop polls. A connected client keeps reading (`Read`),
and timers fire (`Evict`). In `BgJobs` the monitor ticks, turns end, a session is not busy
at every tick for ever and an agent asked again and again answers in the end (strong
fairness of the job's turn). On the page, timers fire and the promise of every request is
settled: it is answered or fails. Requests that are lost, faults, clicks and the end of a
run nobody stops are not fair. In `SessionNav` only the requests a send depends on are.

## 4. What was found

With a run that shows it:

1. **Events from synchronous routes** (`SchedLoop`). There `fire_event` uses
   `asyncio.run`, and the run it spawns lives on that loop. Waiting for the semaphore
   from a second loop raises `RuntimeError`; the row stays "queued" until the next
   restart.
2. **An interrupted event run loses its trigger** (`SchedDeferred`).
   `stop_background_tasks_for_foreground` cancels the body; `foreground_cancel["hit"]` is
   set by the run's own monitor only, so the handler takes this for "Stopped by user" and
   clears `next_run` of an event task (or of a once task whose date has passed), where its
   docstring promises a deferral.
3. **The transitive barrier is lost** (`RunsOvertaken`). A run replaced before its first
   instruction is done without having waited for its predecessor, so the third run
   writes while the first still saves. A Stop followed by a new send does the same to
   a run behind the shield.
4. **Returning to a chat aborts its stream** (`ChatSwitch`). `selectSession` makes the new
   session current before it detaches the stream of the old one. If that one has none,
   `detachCurrentStream` falls through to `abortCurrentRequest`, which asks for the current
   session, and aborts the reader of a stream that was left in the background there.

With a property of its module that TLC finds violated in the instance named, when it
takes the place of the properties there:

5. **Failed event tasks loop** (`EveryRunAdvances`; as `SchedDeferred`). The error path
   advances `next_run` for scheduled tasks only (`task_scheduler.py:1111`), and an event's
   trigger is a `next_run` in the past: a broken task is dispatched at every tick, which
   the comment there says it is not.
6. **A finished stream goes on spinning** (`RunningIsActive`; as `ChatSwitch`). Leaving a
   chat between `[DONE]` and the close of the connection writes a "running" entry for it in
   `_backgroundStreams` (`chat.js:4958`), which the close does not settle; on return, the
   poll for its end never ends, against `chat.js:5256`.
7. **A reload leaves the session that is open** (`ReloadKeepsSession`; as `Nav`). An
   Assistant or Tasks session is kept out of the URL (`sessions.js:1875-1881`), which goes
   on naming the chat before it, and `loadSessions`, which any stream's end calls, believes
   the URL first (1754). `chat.js:3252-3254` does not want the user yanked back.
8. **A reload leaves the welcome screen** (`ReloadKeepsFreshChat`; as `Nav`). With nothing
   pending, only `_skipAutoSelect` protects it, which `_startFreshChat` does not set and one
   reload resets (`sessions.js:1771`): the most recent session is opened, against
   `chat.js:5305`.
9. **A late default model takes the next message** (`OpenedIsKept`; as `Nav`). Its answer
   puts a new chat behind a session opened meanwhile (`modelPicker.js:155`; `chat.js:1435`
   does the like), what `sessions.js:2325-2327` guards against elsewhere. The same answer,
   early enough, keeps a reload of the page from returning to the session in its URL.
10. **A send that is never released** (`SendReleases`; as `Nav`). Where the answer to a
    creation is no JSON, `materializePendingSession` reads the consumed body again and
    throws (`sessions.js:2317`), and `chat.js:1390` catches nothing: `_sendInFlight` stays
    set, and `chat.js:1290` refuses every send until the page is reloaded or the check of
    another stream resets it.

Seen while modelling:

* `stop_task` takes the task out of `_executing` while its coroutine has still to unwind or
  has not begun, and the next request or tick dispatches the task beside it.
* `resumeStream` writes a session's run id after its await, whatever was sent meanwhile: a
  Stop then goes to the former run, which `chat.js:1496-1500` says it must not, and the
  run it was for goes on. Hence the second case of `StopsAreExact` and the condition of
  `StopNotLost`.
* The follow-up of a job whose session was deleted is tried again at every tick:
  `get_session` raises, where `bg_monitor.py:104` expects nothing and gives up.
* A history request that fails before the loading state was painted leaves the messages
  of the former session on screen, below a toast (`sessions.js:2144`).
* After the current chat is deleted, `__geplexLastSelectedSessionId` still names it, and a
  Send with nothing open opens it again (`chat.js:394-407`).
* The timer of the loading state survives a history request that fails; the page says
  "Loading chat" from then on (`sessions.js:1971`).
* Opening an empty session twice keeps the messages of the one before it on screen
  (`sessions.js:2015`), hence `Empty` in `ScreenIsCurrent`.

What the properties leave out, therefore:

* `DispatchedOnce`, `RunsAreStoppable` and `AbortedStaysDown` leave out the tasks that are
  stopped (and forced); `OpenRowsAreAlive` holds as long as no worker thread fires a
  model-backed task; `ScheduledRunAdvances` leaves out event tasks (5).
* `TriggerConsumedByRun` counts a run that `StopBackground` ends in its body among those
  that were stopped (2), and a second event during a run has its trigger cleared with that
  run's. A run cancelled before its body, and one its own monitor interrupts, keep it.
* Two runs write at once across a run that never wrote (`OverlapsPastStopped`).
* A Stop is exact where nothing re-attaches; elsewhere `StopIsExact` (section 5) is what
  `StopsAreExact` keeps.
* `BackgroundIsAlive` and `BackgroundSettles` except the sends of (6), and a POST the server
  refused, whose entry stays unsettled (`chat.js:2142-2180`).
* `ComposerUnlocks` is checked with one send: with two, the `finally` of a superseded send
  skips the resynchronisation its replacement may need (`chat.js:4614`).
* `IntendedView` lets a transient session be left for the one in the URL (7), does not
  protect a chat that was left (8) and, like `ScreenIsCurrent` and `UrlIsCurrent`, exempts
  what follows a late default model (9). `ScreenIsCurrent` also leaves out a session whose
  history failed, and empty ones. `SendSettles` counts a stuck send (10) as settled.

## 5. Proofs

Every proof is for arbitrary values of the constants, under the named assumptions of the
module it is about (`TasksAssumption`, `ThresholdAssumption`, `UsersAssumption`,
`RunsAssumption`, `BgAssumption`, `ChatAssumption`, `NavAssumption`), and those stated
below. TLC evaluates the assumptions in every run.

**TaskSchedulerProofs** - every set of tasks and slots, every assignment of kinds,
privileges, chains and thresholds:

| Theorem | Property | Inductive strengthening |
|---|---|---|
| `TypeCorrect` | `TypeOK` | none |
| `SerialModelRuns` | `OneModelRun` | `SlotHeld`: a model-backed run past the semaphore is the `slotHolder` |
| `DispatchOnce` | `DispatchedOnce` | `DispatchInv`: it and every such coroutine's task is in `_executing` |
| `EveryRunReachable` | `RunsAreStoppable` | `ReachInv`: also, forced runs are of forceable tasks and were never chained |
| `AbortedForGood` | `AbortedStaysDown` | `Doomed`: a started run whose row is aborted has a cancellation to come, or is past its body; and a dead process has no coroutines |
| `NoPhantomRows` | `OpenRowsAreAlive` | `OneLoop` and `RowInv`, if no task of `SyncEvents` is model-backed |
| `NoLeaks` | `NothingLeaks` | `LeakInv`: also, whoever waits for the slot needs it |
| `TriggerKept` | `TriggerConsumedByRun`: only a run that ends its body, or is stopped in it | `TypeOK` |
| `RunsAdvance` | `ScheduledRunAdvances` | `TypeOK`, `SlotHeld` |

The invariants are stated as a quantification over coroutines of a fact about one, so
that the argument has the same shape each time. `RunStepEffect` says, once for all
twelve steps of a coroutine, what a step of `s` leaves alone in the others (`Framed`)
and what it does to its own membership, handle and slot (`Keeps`). Each
invariant then needs: that `Framed` preserves it for the others, that `Keeps` gives it
for `s`, and the steps outside any coroutine (`OutsideFrame`). `DispatchInv` is needed
because `DispatchedOnce` is not inductive: that no second coroutine is created follows
only from the first being in `_executing`. `Doomed` is needed because `AbortedStaysDown`
is about steps: that `LeaveQuiet` and `TakeSlot` do not revive an aborted row holds only
because its run has been cancelled by whoever aborted the row, which needs
`RunsAreStoppable` in turn.

**AgentRunsProofs** - any number of runs, events and clients. `IInv` is `TypeOK` with
`RunInv` (status, drain task, buffer and timer of a run agree) and `ClientInv` (a live
client's queue is the consecutive events it has not been sent, up to the end of the
buffer, and then the sentinel if the run is over). From it: `RunsTyped`;
`NobodyIsForgotten` (`WaitersAreServed`); `CompleteAtTheEnd` (`StreamEndsComplete`); and
the refinement `ReplaysTheLog`: every step is a step of `ReplayLog` or a stutter.

`ChainInv` is about the runs among themselves, whatever users do. A run is preceded by the
one started just before it. It waits for that one only once it was told to go
(`ToldToGo`): `WaitsAreForStopped`. A run that writes, or is over, either never wrote
itself or is past every earlier run that may still write, but for those behind one that
never wrote (`Cleared`): `OverlapsAreExplained`. `SerialSaves` itself needs a condition:
under `Serial`, that is `~Stops /\ ~Overtakes`, `OrderInv` (the runs that are not over form
a chain, each waiting for the one before) gives `SavesAreSerial` and `ActiveWhileWriting`;
`RunsOvertaken` shows that the condition is needed. `KeepsTheContract` is the refinement of
`SessionRuns`: by `LiveInv` a run that counts as running is the one in `_RUNS` and the one
started last, so that a start, which settles that one (`Displace`), leaves the new run
alone; a step of a drain task ends its own run or none (`DrainSettles`).

**BgJobsProofs** - any number of jobs and sessions. `QueueInv` says that what the monitor
serves has ended, is unreported and comes in order; `StoreInv` that a pruned record was
followed up and a followed-up one reported or killed, and ties `delivered` to `torn`.
From both: `JobsTyped`, `OneReport`, `NoReportOfKilled`, `PruneKeepsUnheard` and the
refinement `KeepsTheLedger`. A refresh, with the pruning and the kill in the same write, is
one `Settle` of the ledger (`ReconcileSettles`); a follow-up reports a job that is *over*
because `QueueInv` says so after any await, and closes it unless a crash comes before
the mark (`DeliveryReports`).

**ChatStreamsProofs** - any number of sessions, sends and attempts. `Placed` says send by
send and session by session what is known at each point, and that a running registration
is the session's own: `ChatTyped`, `LatestFound` (`LatestIsKnown`) and
`BackgroundHasReader` (`BackgroundIsAlive`: a running entry has a reader that will settle
it, was refused, or was detached past its `[DONE]`). `StopInv` follows the name of a run: in
a session that is not re-attached to, the run id is that of its latest send, and is there
once that send is reading; a stopped send that is not yet named keeps its pending Stop.
Calls of `resumeStream` are for `Resumable` sessions only (`CallsOK`), so what one of them
does to its own session cannot reach another. This gives `StopIsExact` and `StopIsKept`
without a condition. `ServerIsFaithful` is the refinement of `SessionRuns`: the page never
touches a run (`PageKeepsRuns`), and a send has its session before it has a run.

**SessionNavProofs** - any sessions, any number of clicks and answers. The invariants build
on each other. `NavTypesHold` carries what is not about types: a send that waits for a
navigation is the sender of the newest call or of a lost one, never both, and a creation
that is `mine` has its chat pending. `UrlFollows`, of the URL and of `lastSessionId`, is inductive with it. `ViewIsIntended`
needs `UrlIsCurrent`, because a reload goes where the URL says, or where `lastSessionId`
does: it bounds (7), since a transient session is left for no other session than the one
in the URL. `ScreenFollows` needs `IntendedView`, because a created session may take the
screen only where no session was current; that a history failed is remembered by the call
that failed, which keeps the newest token until the user or a reload opens another.

Only model-checked: all liveness, which with `ENABLED` is beyond the prover - `RunsEnd`,
`DueIsHandled`, `BackgroundYields`, `StreamsEnd`, `Forgotten`, `HeardBack`,
`StopTakesEffect`, `ComposerUnlocks`, `BackgroundSettles`, `SendSettles`. Every safety
property, action property and refinement that a passing run checks is a theorem.

## 6. Not modelled, and what is left

* An abstract specification of the scheduler - tasks that are due, in flight and settled,
  behind one slot - and its refinement by `TaskScheduler`.
* The shared cache (`_cached` with a cancelled fetch) and tool approvals (request, decide,
  expire, consume once), two small modules of their own.
* The document editor: the document a late save, an animation frame or a timer belongs to.
* The download queue and the research panel: sequences of requests without a lock.
* Deletion of tasks and failing commits in `TaskScheduler`, if the state space allows.
* The rest of the front end is forms, lists and rendering: a handler is one request and one
  redraw, and there is little to relate. It is most of the repository's JavaScript.
