------------------------------ MODULE AgentRuns ------------------------------
(***************************************************************************)
(* The detached agent runs of one chat session (src/agent_runs.py), with   *)
(* the chat handlers that start, resume and stop them                      *)
(* (routes/chat_routes.py).  Sessions share nothing but the dictionary     *)
(* _RUNS, so one session is enough.                                        *)
(*                                                                         *)
(* A run is a _Run object and the drain task that fills its buffer.  Each  *)
(* action is one stretch of a coroutine between two awaits.                *)
(***************************************************************************)
EXTENDS Naturals, Sequences

CONSTANTS
    MaxRuns,        \* bound: runs started
    MaxEvents,      \* bound: events a wrapped generator yields
    Clients,
    Stops,          \* whether users press Stop
    Overtakes       \* whether a run may be replaced before its first instruction

ASSUME RunsAssumption ==
    /\ MaxRuns \in Nat \ {0} /\ MaxEvents \in Nat
    /\ Stops \in BOOLEAN /\ Overtakes \in BOOLEAN

Runs  == 1..MaxRuns
NoRun == 0
End   == MaxEvents + 2      \* the (None, None) sentinel; no event has this number

VARIABLES
    started,    \* number of runs started
    current,    \* _RUNS[session], or NoRun
    status,     \* run -> running, done, error or stopped
    prev,       \* run -> prev_task, the run it waits for, or NoRun
    pc,         \* run -> where its drain task is
    cancel,     \* run -> a CancelledError to come
    size,       \* run -> len(buffer); events are numbered from 0
    armed,      \* run -> a pending eviction timer
    cpc,        \* client -> where its SSE response is
    bound,      \* client -> the run its response is bound to, or NoRun
    queue,      \* client -> its asyncio.Queue
    pos,        \* client -> next_seq
    got         \* client -> the events sent to it (history)

runVars    == <<started, current, status, prev, pc, cancel, size, armed>>
clientVars == <<cpc, bound, queue, pos, got>>
vars       == <<runVars, clientVars>>

Writing == {"streaming", "unwinding"}       \* inside the wrapped generator
Alive   == {"new", "waiting", "barrier"} \cup Writing
Reading == {"replay", "live", "flush"}      \* registered in run.subscribers

Init ==
    /\ started = 0 /\ current = NoRun
    /\ status = [r \in Runs |-> "running"]
    /\ prev = [r \in Runs |-> NoRun]
    /\ pc = [r \in Runs |-> "unborn"]
    /\ cancel = [r \in Runs |-> FALSE]
    /\ size = [r \in Runs |-> 0]
    /\ armed = [r \in Runs |-> FALSE]
    /\ cpc = [c \in Clients |-> "idle"]
    /\ bound = [c \in Clients |-> NoRun]
    /\ queue = [c \in Clients |-> <<>>]
    /\ pos = [c \in Clients |-> 0]
    /\ got = [c \in Clients |-> <<>>]

Subscribers(r) == {c \in Clients : cpc[c] \in Reading /\ bound[c] = r}

\* Variants: the predecessor's status asked instead of its task.
PrevRunning(r) == prev[r] # NoRun /\ status[prev[r]] = "running"
PrevUndone(r)  == prev[r] # NoRun /\ status[prev[r]] # "done"

\* prev_task is not None and not prev_task.done()
PrevAlive(r) == prev[r] # NoRun /\ pc[prev[r]] \in Alive

-----------------------------------------------------------------------------
(* Subscribers' queues *)

\* Variant: no sentinel.
ItemsUnended(r, k, woken) == [i \in 1..k |-> size[r] + i - 1]

\* The next k events, then the sentinel if the subscribers are woken.
Items(r, k, woken) == [i \in 1..k |-> size[r] + i - 1] \o (IF woken THEN <<End>> ELSE <<>>)

\* _publish and _wake_run_subscribers
Feed(r, k, woken) ==
    /\ queue' = [c \in Clients |-> IF c \in Subscribers(r)
                                   THEN queue[c] \o Items(r, k, woken) ELSE queue[c]]
    /\ size' = [size EXCEPT ![r] = @ + k]

-----------------------------------------------------------------------------
(* The handlers *)

\* A new streaming response is bound to r; its body has not begun.
Bind(c, r) ==
    /\ cpc[c] \in {"idle", "ended"}
    /\ cpc' = [cpc EXCEPT ![c] = "bound"]
    /\ bound' = [bound EXCEPT ![c] = r]
    /\ UNCHANGED <<pos, got>>

\* Variant: the run in flight is left to settle its own status.
DisplaceLate(p) == UNCHANGED status /\ Feed(p, 0, TRUE)
Displace(p) == status' = [status EXCEPT ![p] = "stopped"] /\ Feed(p, 0, TRUE)

\* start(): the run in flight is stopped and cancelled, and becomes the
\* predecessor of the new one.
Start(c) ==
    LET p == current
        r == started + 1
        replaces == p # NoRun /\ pc[p] \in Alive
    IN
    /\ started < MaxRuns
    /\ Overtakes \/ \A q \in Runs : pc[q] # "new"
    /\ Bind(c, r)
    /\ started' = r /\ current' = r
    /\ prev' = [prev EXCEPT ![r] = IF replaces THEN p ELSE NoRun]
    /\ pc' = [pc EXCEPT ![r] = "new"]
    /\ armed' = [q \in Runs |-> armed[q] /\ q # p]
    /\ cancel' = [q \in Runs |-> cancel[q] \/ (replaces /\ q = p)]
    /\ IF replaces /\ status[p] = "running"
       THEN Displace(p)
       ELSE UNCHANGED <<status, queue, size>>

\* chat_resume: only onto an active run.
Resume(c) ==
    /\ current # NoRun /\ status[current] = "running"
    /\ Bind(c, current)
    /\ UNCHANGED <<runVars, queue>>

\* stop(): the caller names the run, whose id it has from a response that was
\* sent after the first instruction of the drain task.
Stop ==
    /\ Stops
    /\ current # NoRun /\ pc[current] \in Alive \ {"new"}
    /\ cancel' = [cancel EXCEPT ![current] = TRUE]
    /\ UNCHANGED <<started, current, status, prev, pc, size, armed, clientVars>>

\* The timer of _schedule_evict.
Evict(r) ==
    /\ armed[r]
    /\ armed' = [armed EXCEPT ![r] = FALSE]
    /\ current' = IF current = r /\ status[r] # "running" /\ Subscribers(r) = {}
                  THEN NoRun ELSE current
    /\ UNCHANGED <<started, status, prev, pc, cancel, size, clientVars>>

-----------------------------------------------------------------------------
(* The drain task.  The wrapped generator may write to the session from its  *)
(* first event until it is closed.                                           *)

Drains(r) == UNCHANGED <<started, current, prev, cpc, bound, pos, got>>

\* The end of _drain: the task is done, the timer of the registered run armed.
Terminate(r) ==
    /\ pc' = [pc EXCEPT ![r] = "done"]
    /\ cancel' = [cancel EXCEPT ![r] = FALSE]
    /\ armed' = [armed EXCEPT ![r] = @ \/ current = r]

\* First instruction.  A task cancelled before it never enters _drain.
Begin(r) ==
    /\ pc[r] = "new"
    /\ pc' = [pc EXCEPT ![r] = IF cancel[r] THEN "done"
                               ELSE IF PrevAlive(r) THEN "waiting" ELSE "streaming"]
    /\ cancel' = [cancel EXCEPT ![r] = FALSE]
    /\ UNCHANGED <<status, size, armed, queue>> /\ Drains(r)

Proceed(r) ==
    /\ pc[r] = "waiting" /\ ~cancel[r] /\ ~PrevAlive(r)
    /\ pc' = [pc EXCEPT ![r] = "streaming"]
    /\ UNCHANGED <<status, cancel, size, armed, queue>> /\ Drains(r)

Publish(r) ==
    /\ pc[r] = "streaming" /\ ~cancel[r] /\ size[r] < MaxEvents
    /\ Feed(r, 1, FALSE)
    /\ UNCHANGED <<status, pc, cancel, armed>> /\ Drains(r)

Finish(r) ==
    /\ pc[r] = "streaming" /\ ~cancel[r]
    /\ status' = [status EXCEPT ![r] = IF @ = "running" THEN "done" ELSE @]
    /\ Feed(r, 0, TRUE)
    /\ Terminate(r) /\ Drains(r)

\* The generator raises, in its body or while it handles a cancellation.
Fail(r) ==
    /\ (pc[r] = "streaming" /\ ~cancel[r]) \/ pc[r] = "unwinding"
    /\ status' = [status EXCEPT ![r] = "error"]
    /\ Feed(r, 2, TRUE)
    /\ Terminate(r) /\ Drains(r)

\* CancelledError enters the generator, which saves its partial response.
Throw(r) ==
    /\ pc[r] = "streaming" /\ cancel[r]
    /\ pc' = [pc EXCEPT ![r] = "unwinding"]
    /\ cancel' = [cancel EXCEPT ![r] = FALSE]
    /\ UNCHANGED <<status, size, armed, queue>> /\ Drains(r)

\* CancelledError in _drain, out of the generator or of the wait for the
\* predecessor, which is then waited for behind a shield.
Cancelled(r) ==
    /\ pc[r] = "unwinding" \/ (pc[r] = "waiting" /\ cancel[r])
    /\ status' = [status EXCEPT ![r] = "stopped"]
    /\ Feed(r, 0, TRUE)
    /\ IF PrevAlive(r)
       THEN /\ pc' = [pc EXCEPT ![r] = "barrier"]
            /\ cancel' = [cancel EXCEPT ![r] = FALSE]
            /\ UNCHANGED armed
       ELSE Terminate(r)
    /\ Drains(r)

\* The shield ends with the predecessor, or with a second cancellation.
LeaveBarrier(r) ==
    /\ pc[r] = "barrier" /\ (cancel[r] \/ ~PrevAlive(r))
    /\ Terminate(r)
    /\ UNCHANGED <<status, size, queue>> /\ Drains(r)

Drain(r) == \/ Begin(r) \/ Proceed(r) \/ Finish(r) \/ Fail(r) \/ Throw(r)
            \/ Cancelled(r) \/ LeaveBarrier(r)

-----------------------------------------------------------------------------
(* subscribe(), as an async generator driven by its client *)

\* Variants: one event skipped; what was replayed is sent again.
SendSkips(c, n) ==
    /\ got' = [got EXCEPT ![c] = Append(@, n)]
    /\ pos' = [pos EXCEPT ![c] = n + 2]
FreshAlways(c, n) == TRUE

Fresh(c, n) == n >= pos[c]

Send(c, n) ==
    /\ got' = [got EXCEPT ![c] = Append(@, n)]
    /\ pos' = [pos EXCEPT ![c] = n + 1]

\* The response is over, and its queue dropped.
Close(c, how) ==
    /\ cpc' = [cpc EXCEPT ![c] = how]
    /\ bound' = [bound EXCEPT ![c] = NoRun]
    /\ queue' = [queue EXCEPT ![c] = <<>>]
    /\ pos' = [pos EXCEPT ![c] = 0]
    /\ got' = [got EXCEPT ![c] = <<>>]

\* Registering cancels the timer; the finally block arms it again for the last
\* subscriber of a run that is over.
CancelTimer(c) == armed' = [armed EXCEPT ![bound[c]] = @ /\ cpc[c] # "bound"]
RearmNever(c) == CancelTimer(c)                 \* variant
RearmTimer(c) ==
    LET r == bound[c] IN
    armed' = [armed EXCEPT ![r] =
                \/ Subscribers(r) \ {c} = {} /\ status[r] # "running" /\ current = r
                \/ @ /\ cpc[c] # "bound"]

Serves == UNCHANGED <<started, current, status, prev, pc, cancel, size>>

\* The loop over the buffer up to its next yield, then either the end or the queue.
Replay(c) ==
    LET r == bound[c] IN
    /\ cpc[c] \in {"bound", "replay"}
    /\ \/ /\ pos[c] < size[r]
          /\ Send(c, pos[c])
          /\ cpc' = [cpc EXCEPT ![c] = "replay"]
          /\ CancelTimer(c) /\ UNCHANGED <<bound, queue>>
       \/ /\ pos[c] >= size[r] /\ status[r] = "running"
          /\ cpc' = [cpc EXCEPT ![c] = "live"]
          /\ CancelTimer(c) /\ UNCHANGED <<bound, queue, pos, got>>
       \/ /\ pos[c] >= size[r] /\ status[r] # "running"
          /\ Close(c, "ended") /\ RearmTimer(c)
    /\ Serves

\* Variant: the sentinel ends the response at once.
FlushNothing(c) == Close(c, "ended") /\ RearmTimer(c)

\* After the sentinel: the tail of the buffer, then the end.
Flush(c) ==
    \/ /\ pos[c] < size[bound[c]]
       /\ Send(c, pos[c])
       /\ cpc' = [cpc EXCEPT ![c] = "flush"]
       /\ queue' = [queue EXCEPT ![c] = <<>>]
       /\ UNCHANGED <<bound, armed>>
    \/ /\ pos[c] >= size[bound[c]]
       /\ Close(c, "ended") /\ RearmTimer(c)

\* The next item of the queue: skipped if it was replayed.  The 10 s timeout
\* sends a heartbeat and changes nothing (see WaitersAreServed).
Receive(c) ==
    /\ cpc[c] = "live" /\ queue[c] # <<>>
    /\ LET n == Head(queue[c]) IN
       \/ n = End /\ Flush(c)
       \/ /\ n # End
          /\ queue' = [queue EXCEPT ![c] = Tail(@)]
          /\ IF Fresh(c, n) THEN Send(c, n) ELSE UNCHANGED <<pos, got>>
          /\ UNCHANGED <<cpc, bound, armed>>
    /\ Serves

FlushTail(c) == cpc[c] = "flush" /\ Flush(c) /\ Serves

\* The client goes away; a response whose body never began has no finally block.
Disconnect(c) ==
    /\ cpc[c] \in Reading \cup {"bound"}
    /\ Close(c, "idle")
    /\ IF cpc[c] = "bound" THEN UNCHANGED armed ELSE RearmTimer(c)
    /\ Serves

Read(c) == Replay(c) \/ Receive(c) \/ FlushTail(c)

Next == \/ \E c \in Clients : Start(c) \/ Resume(c) \/ Read(c) \/ Disconnect(c)
        \/ \E r \in Runs : Drain(r) \/ Publish(r) \/ Evict(r)
        \/ Stop

Spec == Init /\ [][Next]_vars

-----------------------------------------------------------------------------
(* Safety *)

\* Types of the run objects, their drain tasks and the responses; next_seq counts
\* the events a client was sent.
TypeOK ==
    /\ started \in 0..MaxRuns /\ current \in 0..started
    /\ status \in [Runs -> {"running", "done", "error", "stopped"}]
    /\ prev \in [Runs -> 0..MaxRuns]
    /\ pc \in [Runs -> Alive \cup {"unborn", "done"}]
    /\ cancel \in [Runs -> BOOLEAN] /\ armed \in [Runs -> BOOLEAN]
    /\ size \in [Runs -> 0..End]
    /\ cpc \in [Clients -> Reading \cup {"idle", "bound", "ended"}]
    /\ bound \in [Clients -> 0..started]
    /\ queue \in [Clients -> Seq(0..End)]
    /\ pos \in [Clients -> 0..End]
    /\ got \in [Clients -> Seq(0..End)]
    /\ \A c \in Clients : pos[c] = Len(got[c])

\* "Replay everything so far, then live": every client sees its run's log, from
\* the start, in order, without gaps or repeats, whatever joins, replaces or
\* cancels the run meanwhile.
Log == INSTANCE ReplayLog WITH
    Logs <- Runs, Readers <- Clients, NoLog <- NoRun,
    length <- size, reading <- bound, received <- got
ImplementsReplayLog == Log!Spec

\* "Cancels any in-flight run for the same session first": at most one run of the
\* session counts as running, the one started last, and none comes back.
Contract == INSTANCE SessionRuns WITH
    Sessions <- {"session"}, None <- "none",
    home <- [r \in Runs |-> IF r <= started THEN "session" ELSE "none"],
    live <- {r \in Runs : r <= started /\ status[r] = "running"}
OneRunAtATime == Contract!Spec

\* A response that ends by itself has sent the whole buffer of a run that is over.
StreamEndsComplete ==
    [][\A c \in Clients :
        cpc[c] # "ended" /\ cpc'[c] = "ended"
        => Len(got[c]) = size[bound[c]] /\ status[bound[c]] # "running"]_vars

\* No client waits on an empty queue for a run that will never feed it: every way
\* a run can end wakes its subscribers, "even when the drain task never reached
\* its body".
WaitersAreServed ==
    \A c \in Clients :
        cpc[c] = "live" /\ queue[c] = <<>>
        => status[bound[c]] = "running" /\ pc[bound[c]] \in Alive

\* "Keeps the two runs' session saves sequential instead of interleaved".
SerialSaves == \A q, r \in Runs : pc[q] \in Writing /\ pc[r] \in Writing => q = r

\* What is left of it when users stop runs and start new ones before the last has
\* begun: two runs write at once only across one that was stopped before it
\* published anything, and so did not stand between them.
NeverWrote(m) == pc[m] \in {"barrier", "done"} /\ status[m] = "stopped" /\ size[m] = 0
OverlapsPastStopped ==
    \A q, r \in Runs :
        q < r /\ pc[q] \in Writing /\ pc[r] \in Writing
        => \E m \in Runs : q < m /\ m < r /\ NeverWrote(m)

\* A run waits only for an earlier one that was told to go, no longer counts as
\* running, and has its cancellation to come or is past it: nobody waits for a run
\* that goes on, and no two wait for each other.
WaitsForStopped ==
    \A r \in Runs :
        pc[r] \in {"waiting", "barrier"} /\ PrevAlive(r)
        => LET p == prev[r] IN
           p < r /\ status[p] # "running" /\ (cancel[p] \/ pc[p] \in {"unwinding", "barrier"})

\* is_active tells compaction and the background monitor to keep off the
\* session: true as long as some run of it may still save.
WritersAreActive ==
    \A r \in Runs : pc[r] \in Writing => current # NoRun /\ status[current] = "running"

-----------------------------------------------------------------------------
(* Liveness.  The event loop resumes ready coroutines, a wrapped generator    *)
(* ends (model and tool calls have timeouts), timers fire, and a client that  *)
(* stays keeps reading.                                                       *)

FairSpec ==
    /\ Spec
    /\ \A r \in Runs : WF_vars(Drain(r)) /\ WF_vars(Evict(r))
    /\ \A c \in Clients : WF_vars(Read(c))

\* Every response ends.
StreamsEnd == \A c \in Clients : cpc[c] \in Reading ~> cpc[c] \notin Reading

\* Every run ends, however long its chain of predecessors.
RunsEnd == \A r \in Runs : pc[r] \in Alive ~> pc[r] = "done"

\* "To bound memory": a finished run nobody reads is forgotten.
Forgotten ==
    \A r \in Runs : current = r /\ pc[r] = "done" ~> current # r \/ Subscribers(r) # {}
=============================================================================
