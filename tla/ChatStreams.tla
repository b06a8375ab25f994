----------------------------- MODULE ChatStreams -----------------------------
(***************************************************************************)
(* The chat page's bookkeeping of its streams (static/js/chat.js): sends,  *)
(* the exact Stop, streams left in the background when another session is  *)
(* opened (static/js/sessions.js), and re-attachment to a detached run.    *)
(*                                                                         *)
(* The page runs on one thread: an action is a stretch of code between two *)
(* awaits, and everything else happens between two actions.  A send is     *)
(* also its generation and the identity of the run the server starts for   *)
(* its POST.  The server (agent_runs.py, modelled in AgentRuns) keeps one  *)
(* running run per session; requests and answers travel in any order.      *)
(*                                                                         *)
(* Left out: messages typed while a stream runs, the events that say its   *)
(* message is saved already, the abort of a controller that no session     *)
(* owns, and the counts of automatic retries, which Attempts stands for.   *)
(* A run's [DONE] line and its end at the server are one step.             *)
(***************************************************************************)
EXTENDS Naturals

CONSTANTS
    Sessions,
    MaxSends,       \* bound: submits
    Attempts,       \* bound: calls of resumeStream in flight
    Resumable,      \* sessions that are re-attached to by resumeStream
    Quiet           \* sessions whose streams may be quiet for long

Sends == 1..MaxSends
None  == 0

ASSUME ChatAssumption ==
    /\ MaxSends \in Nat /\ None \notin Sessions
    /\ Resumable \subseteq Sessions /\ Quiet \subseteq Sessions

VARIABLES
    viewed,         \* the session on screen
    streaming,      \* isStreaming: the send button is a Stop button
    inFlight,       \* _sendInFlight: a submit is between its click and its commit
    reader,         \* _streamSessionId, or None
    gen,            \* session -> _streamGenerations, its latest send, or None
    state,          \* session -> _sendStates, a send, or None
    runId,          \* session -> _streamRunIds, a run, or None
    active,         \* session -> _activeStreams, a send, or None
    bg,             \* session -> status of its _backgroundStreams entry
    resuming,       \* session -> in _resumingStreams
    arriving,       \* an opened session's history is still being fetched
    pc,             \* send -> where its handleChatSubmit is
    sess,           \* send -> its streamSessionId
    pend,           \* send -> its _pendingRunStops entry: with its controller or without
    aborted,        \* sends whose controller is aborted
    timedOut,       \* sends whose response timer fired
    att,            \* attempt -> a call of resumeStream
    probe,          \* the stale-stream probe
    wire,           \* sends whose POST is on its way
    run,            \* send -> its run at the server
    stops,          \* runs named by a Stop on its way
    asked,          \* sends the user stopped (history)
    cut,            \* sends whose POST was cut before it named its run (history)
    gap             \* sends detached between their [DONE] and their close (history)

pageVars   == <<viewed, streaming, inFlight, reader, arriving>>
mapVars    == <<gen, state, runId, active, bg, resuming>>
sendVars   == <<pc, sess, pend, aborted, timedOut>>
netVars    == <<wire, run, stops>>
histVars   == <<asked, cut, gap>>
vars       == <<pageVars, mapVars, sendVars, att, probe, netVars, histVars>>

\* Registered: its POST or its reader is awaited, or, after [DONE], its close.
Fetching == {"posted", "reading", "closing"}
Live     == Fetching \cup {"prep"}           \* committed, its finally block to come
NoAtt == [at |-> "idle", s |-> None, r |-> None]
NoProbe == [at |-> "idle", s |-> None, k |-> None]

Init ==
    /\ viewed \in Sessions
    /\ streaming = FALSE /\ inFlight = FALSE /\ reader = None /\ arriving = FALSE
    /\ gen = [s \in Sessions |-> None]
    /\ state = [s \in Sessions |-> None]
    /\ runId = [s \in Sessions |-> None]
    /\ active = [s \in Sessions |-> None]
    /\ bg = [s \in Sessions |-> "none"]
    /\ resuming = [s \in Sessions |-> FALSE]
    /\ pc = [k \in Sends |-> "new"]
    /\ sess = [k \in Sends |-> None]
    /\ pend = [k \in Sends |-> "none"]
    /\ aborted = {} /\ timedOut = {}
    /\ att = [i \in Attempts |-> NoAtt]
    /\ probe = NoProbe
    /\ wire = {} /\ run = [k \in Sends |-> "none"] /\ stops = {}
    /\ asked = {} /\ cut = {} /\ gap = {}

HasActiveStream(s) == active[s] # None \/ reader = s \/ bg[s] # "none" \/ resuming[s]

RunningIn(s) == {k \in Sends : sess[k] = s /\ run[k] = "running"}

\* The controller of session s that Stop and clean-up act on, if there is one:
\* that of its current send, which has none before its POST.
Controller(s) ==
    IF state[s] # None THEN (IF pc[state[s]] = "prep" THEN None ELSE state[s])
    ELSE active[s]

\* abort() of a set of controllers; one whose POST has no answer yet cuts it.
Abort(ks) ==
    /\ aborted' = aborted \cup ks
    /\ cut' = cut \cup {k \in ks : pc[k] = "posted"}

\* _syncForegroundStreamGlobals, once active is settled
Foreground == active'[viewed] # None

-----------------------------------------------------------------------------
(* Sending *)

Submit(k) ==
    /\ pc[k] = "new" /\ \A j \in 1..(k - 1) : pc[j] # "new"
    /\ ~streaming /\ ~inFlight
    /\ inFlight' = TRUE
    /\ pc' = [pc EXCEPT ![k] = "gate"]
    /\ UNCHANGED <<viewed, streaming, reader, arriving, mapVars, sess, pend, aborted,
                   timedOut, att, probe, netVars, histVars>>

\* The early returns before the commit: _releaseSendFlag.
Withdraw(k) ==
    /\ pc[k] = "gate"
    /\ pc' = [pc EXCEPT ![k] = "new"]
    /\ inFlight' = FALSE
    /\ streaming' = (active[viewed] # None)
    /\ UNCHANGED <<viewed, reader, arriving, mapVars, sess, pend, aborted, timedOut,
                   att, probe, netVars, histVars>>

\* A new session is refused with an answer that is not JSON: the error is thrown past
\* the release, and the gate stays shut.
Throws(k) ==
    /\ pc[k] = "gate"
    /\ pc' = [pc EXCEPT ![k] = "thrown"]
    /\ UNCHANGED <<pageVars, mapVars, sess, pend, aborted, timedOut, att, probe, netVars,
                   histVars>>

\* Variant: Stop still finds the run of the send before.
TakeOverKeepsRun(s, k) ==
    gen' = [gen EXCEPT ![s] = k] /\ state' = [state EXCEPT ![s] = k] /\ UNCHANGED runId

TakeOver(s, k) ==
    /\ gen' = [gen EXCEPT ![s] = k]
    /\ state' = [state EXCEPT ![s] = k]
    /\ runId' = [runId EXCEPT ![s] = None]

\* The generation is reserved in the session on screen by now.
Commit(k) ==
    /\ pc[k] = "gate"
    /\ pc' = [pc EXCEPT ![k] = "prep"]
    /\ sess' = [sess EXCEPT ![k] = viewed]
    /\ TakeOver(viewed, k)
    /\ reader' = viewed
    /\ streaming' = TRUE /\ inFlight' = FALSE
    /\ UNCHANGED <<viewed, arriving, active, bg, resuming, pend, aborted, timedOut,
                   att, probe, netVars, histVars>>

Owns(k) == gen[sess[k]] = k

ResyncNothing(background) == UNCHANGED streaming      \* variant
\* _syncForegroundStreamGlobals, then the idle button unless in the background
Resync(background) == streaming' = (background /\ Foreground)

\* Variant: whoever ends clears the state of the session.
DropsState(k) == state' = [state EXCEPT ![sess[k]] = None]
DropState(k) ==
    state' = [state EXCEPT ![sess[k]] = IF Owns(k) /\ @ = k THEN None ELSE @]

\* The finally block of send k, once bg is settled.  A superseded send leaves the
\* session's state to its replacement; streaming is "other" for it.
Finally(k, other) ==
    LET s == sess[k]
        background == viewed # s \/ bg'[s] # "none"
    IN
    /\ pc' = [pc EXCEPT ![k] = "done"]
    /\ active' = [active EXCEPT ![s] = IF @ = k THEN None ELSE @]
    /\ pend' = [pend EXCEPT ![k] = "none"]
    /\ IF Owns(k)
       THEN /\ reader' = IF reader = s THEN None ELSE reader
            /\ Resync(background)
       ELSE streaming' = other /\ UNCHANGED reader
    /\ DropState(k)
    /\ UNCHANGED <<viewed, arriving, gen, runId, resuming, sess, timedOut, probe>>

\* An upload or a document save fails: the button and the gate are reset.
PrepFails(k) ==
    /\ pc[k] = "prep"
    /\ UNCHANGED bg /\ Finally(k, active[viewed] # None)
    /\ inFlight' = FALSE
    /\ UNCHANGED <<aborted, att, netVars, histVars>>

\* "A newer send owns the session": back out before registration and POST.
Superseded(k) ==
    /\ pc[k] = "prep" /\ ~Owns(k)
    /\ UNCHANGED bg /\ Finally(k, streaming)
    /\ UNCHANGED <<inFlight, aborted, att, netVars, histVars>>

RegisterViewed(k) == active' = [active EXCEPT ![viewed] = k]    \* variant
Register(k) == active' = [active EXCEPT ![sess[k]] = k]

\* The controller is made, the stream registered and the POST sent.
Post(k) ==
    /\ pc[k] = "prep" /\ Owns(k)
    /\ pc' = [pc EXCEPT ![k] = "posted"]
    /\ Register(k)
    /\ streaming' = Foreground
    /\ wire' = wire \cup {k}
    /\ UNCHANGED <<viewed, inFlight, reader, arriving, gen, state, runId, bg, resuming,
                   sess, pend, aborted, timedOut, att, probe, run, stops, histVars>>

StopIsDueOwned(k) == pend[k] # "none" /\ Owns(k)       \* variant
StopIsDue(k) == pend[k] # "none"

\* _rememberStreamRunId: the answer names the run.  A superseded send may not
\* record it, but sends the Stop that waited for it.
Headers(k) ==
    /\ pc[k] = "posted" /\ k \notin aborted /\ run[k] \in {"running", "over"}
    /\ pc' = [pc EXCEPT ![k] = "reading"]
    /\ runId' = [runId EXCEPT ![sess[k]] = IF Owns(k) THEN k ELSE @]
    /\ stops' = IF StopIsDue(k) THEN stops \cup {k} ELSE stops
    /\ aborted' = IF pend[k] = "controller" THEN aborted \cup {k} ELSE aborted
    /\ pend' = [pend EXCEPT ![k] = "none"]
    /\ UNCHANGED <<pageVars, gen, state, active, bg, resuming, sess, timedOut, att,
                   probe, wire, run, histVars>>

-----------------------------------------------------------------------------
(* The ends of a stream *)

\* An error status: return.
Refused(k) ==
    /\ pc[k] = "posted" /\ k \notin aborted /\ run[k] = "refused"
    /\ UNCHANGED bg /\ Finally(k, streaming)
    /\ UNCHANGED <<inFlight, aborted, att, netVars, histVars>>

\* [DONE]: the entry is settled, and the reader waits for the connection to close.
Finished(k) ==
    LET s == sess[k] IN
    /\ pc[k] = "reading" /\ k \notin aborted /\ run[k] = "over"
    /\ pc' = [pc EXCEPT ![k] = "closing"]
    /\ bg' = [bg EXCEPT ![s] = IF viewed = s THEN "none" ELSE "completed"]
    /\ UNCHANGED <<pageVars, gen, state, runId, active, resuming, sess, pend, aborted,
                   timedOut, att, probe, netVars, histVars>>

\* The connection closes: the final render leaves the entries alone.
Closes(k) ==
    /\ pc[k] = "closing" /\ k \notin aborted
    /\ UNCHANGED bg /\ Finally(k, streaming)
    /\ UNCHANGED <<inFlight, aborted, att, netVars, histVars>>

ErrsNothing(s) == UNCHANGED bg              \* variant
\* The catch block: an entry that is not completed becomes an error.
Errs(s) == bg' = [bg EXCEPT ![s] = IF @ = "running" THEN "error" ELSE @]

\* A call of resumeStream for session s, to come.
Call(s, how) ==
    \E i \in Attempts :
        /\ att[i] = NoAtt
        /\ att' = [att EXCEPT ![i] = [at |-> how, s |-> s, r |-> None]]

\* _tryAutoRecover, for a stream in the foreground and within its cap.
Recovers(k) ==
    \/ UNCHANGED att
    \/ /\ viewed = sess[k] /\ bg[sess[k]] = "none" /\ sess[k] \in Resumable
       /\ Call(sess[k], "retry")

\* The connection breaks: before the answer, the POST may still arrive.  A Stop
\* that waits for the answer is given up.
Breaks(k) ==
    /\ pc[k] \in Fetching /\ k \notin aborted
    /\ Errs(sess[k])
    /\ IF pc[k] = "posted" THEN cut' = cut \cup {k} ELSE UNCHANGED cut
    /\ IF pend[k] # "none" THEN aborted' = aborted \cup {k} /\ UNCHANGED att
                           ELSE UNCHANGED aborted /\ Recovers(k)
    /\ Finally(k, streaming)
    /\ UNCHANGED <<inFlight, netVars, asked, gap>>

\* The reader of an aborted controller throws AbortError.
AbortSeen(k) ==
    /\ pc[k] \in Fetching /\ k \in aborted
    /\ Errs(sess[k])
    /\ Finally(k, streaming)
    /\ UNCHANGED <<inFlight, aborted, att, netVars, histVars>>

-----------------------------------------------------------------------------
(* Stopping *)

\* Variant: without a controller the Stop is not queued.
StopBareForgotten(s, c) ==
    IF runId[s] # None
    THEN stops' = stops \cup {runId[s]} /\ UNCHANGED pend
    ELSE /\ pend' = IF gen[s] = None \/ c = None THEN pend
                    ELSE [pend EXCEPT ![gen[s]] = "controller"]
         /\ UNCHANGED stops

\* _stopExactRun: the run if it is known, else the current send's queue entry.
\* True if the controller c may be aborted at once.
StopExactRun(s, c) ==
    LET g == gen[s] IN
    IF runId[s] # None
    THEN stops' = stops \cup {runId[s]} /\ UNCHANGED pend
    ELSE /\ pend' = IF g = None THEN pend
                    ELSE [pend EXCEPT ![g] = IF c # None THEN "controller"
                                             ELSE IF @ = "none" THEN "bare" ELSE @]
         /\ UNCHANGED stops

\* The Stop button: abortCurrentRequest(true), then the button is idle.
Stop ==
    LET s == viewed
        c == Controller(s)
    IN
    /\ streaming /\ streaming' = FALSE
    /\ StopExactRun(s, c)
    /\ IF runId[s] # None /\ c # None THEN Abort({c}) ELSE UNCHANGED <<aborted, cut>>
    /\ asked' = IF gen[s] = None THEN asked ELSE asked \cup {gen[s]}
    /\ UNCHANGED <<viewed, inFlight, reader, arriving, mapVars, pc, sess, timedOut,
                   att, probe, wire, run, gap>>

\* The response timer of send k.
Timeout(k) ==
    LET s == sess[k] IN
    /\ pc[k] \in Fetching /\ k \notin aborted \cup timedOut
    /\ timedOut' = timedOut \cup {k}
    /\ IF Owns(k) THEN StopExactRun(s, k) ELSE UNCHANGED <<stops, pend>>
    /\ IF Owns(k) /\ runId[s] = None THEN UNCHANGED <<aborted, cut>> ELSE Abort({k})
    /\ UNCHANGED <<pageVars, mapVars, pc, sess, att, probe, wire, run, asked, gap>>

\* RUN_ID_ABORT_GRACE_MS later
GraceEnds(k) ==
    /\ k \in timedOut \ aborted /\ pc[k] \in Fetching
    /\ Abort({k})
    /\ UNCHANGED <<pageVars, mapVars, pc, sess, pend, timedOut, att, probe, netVars, asked, gap>>

\* The cancel shortcut: abortCurrentRequest() without the server.
CancelKey ==
    /\ Controller(viewed) # None
    /\ Abort({Controller(viewed)})
    /\ UNCHANGED <<pageVars, mapVars, pc, sess, pend, timedOut, att, probe, netVars, asked, gap>>

-----------------------------------------------------------------------------
(* Opening sessions *)

\* selectSession(to) over the background entries b: the stream of the session left
\* goes to the background; if it has none, abortCurrentRequest() runs, for the
\* session that is current by now.
Open(to, b) ==
    LET from == viewed IN
    /\ viewed' = to /\ arriving' = TRUE
    /\ IF active[from] # None
       THEN /\ bg' = [b EXCEPT ![from] = "running"]
            /\ reader' = IF reader = from THEN None ELSE reader
            /\ streaming' = FALSE
            /\ gap' = gap \cup {k \in {active[from]} : pc[k] = "closing"}
            /\ UNCHANGED <<aborted, cut>>
       ELSE /\ bg' = b
            /\ IF Controller(to) # None THEN Abort({Controller(to)})
                                        ELSE UNCHANGED <<aborted, cut>>
            /\ UNCHANGED <<reader, streaming, gap>>
    /\ UNCHANGED <<gen, state, active, pc, sess, pend, timedOut, probe, netVars, asked>>

Select(to) ==
    /\ Open(to, bg)
    /\ UNCHANGED <<inFlight, runId, resuming, att>>

\* The poll of checkBackgroundStream finds the stream over and reloads the session.
PollEnds ==
    /\ ~arriving /\ bg[viewed] \in {"completed", "error"}
    /\ Open(viewed, [bg EXCEPT ![viewed] = "none"])
    /\ UNCHANGED <<inFlight, runId, resuming, att>>

\* The history is there: checkBackgroundStream, then _checkServerStream.
Arrive ==
    LET s == viewed
        b == IF bg[s] = "running" THEN bg[s] ELSE "none"
    IN
    /\ arriving /\ arriving' = FALSE
    /\ bg' = [bg EXCEPT ![s] = b]
    /\ \/ UNCHANGED att
       \/ /\ s \in Resumable
          /\ active[s] = None /\ reader # s /\ b = "none" /\ ~resuming[s]
          /\ Call(s, "due")
    /\ UNCHANGED <<viewed, streaming, inFlight, reader, gen, state, runId, active,
                   resuming, sendVars, probe, netVars, histVars>>

\* An event reaches a reader whose session is not on screen.
GoesBackground(k) ==
    /\ pc[k] = "reading" /\ viewed # sess[k] /\ bg[sess[k]] = "none"
    /\ bg' = [bg EXCEPT ![sess[k]] = "running"]
    /\ UNCHANGED <<pageVars, gen, state, runId, active, resuming, sendVars, att, probe,
                   netVars, histVars>>

-----------------------------------------------------------------------------
(* resumeStream *)

Attempt(i, at, s, r) == att' = [att EXCEPT ![i] = [at |-> at, s |-> s, r |-> r]]
Drop(i) == att' = [att EXCEPT ![i] = NoAtt]

\* The lock is asked for before the request.
Resume(i) ==
    LET s == att[i].s IN
    /\ att[i].at \in {"due", "retry"}
    /\ IF HasActiveStream(s) \/ (att[i].at = "retry" /\ viewed # s)
       THEN Drop(i) ELSE Attempt(i, "asked", s, None)
    /\ UNCHANGED <<pageVars, mapVars, sendVars, probe, netVars, histVars>>

\* chat_resume: the run of the session, or 404; or the network fails.
ResumeAnswer(i) ==
    /\ att[i].at = "asked"
    /\ \/ \E r \in RunningIn(att[i].s) : Attempt(i, "answered", att[i].s, r)
       \/ Drop(i)
    /\ UNCHANGED <<pageVars, mapVars, sendVars, probe, netVars, histVars>>

\* The run id is recorded and the lock taken after it.
ResumeOpens(i) ==
    LET s == att[i].s IN
    /\ att[i].at = "answered"
    /\ runId' = [runId EXCEPT ![s] = att[i].r]
    /\ resuming' = [resuming EXCEPT ![s] = TRUE]
    /\ Attempt(i, "reading", s, att[i].r)
    /\ UNCHANGED <<pageVars, gen, state, active, bg, sendVars, probe, netVars, histVars>>

\* The replay ends; a rich reply reloads the session on screen.
ResumeEnds(i) ==
    LET s == att[i].s IN
    /\ att[i].at = "reading"
    /\ resuming' = [resuming EXCEPT ![s] = FALSE]
    /\ Drop(i)
    /\ \/ UNCHANGED <<pageVars, gen, state, active, bg, sendVars, probe, netVars, histVars>>
       \/ viewed = s /\ Open(s, bg) /\ UNCHANGED inFlight
    /\ UNCHANGED runId

-----------------------------------------------------------------------------
(* Frozen streams *)

\* The foreground stream c is given up and the composer unlocked.
Unlock(s, c) ==
    /\ Abort({c})
    /\ active' = [active EXCEPT ![s] = None]
    /\ streaming' = FALSE
    /\ UNCHANGED <<viewed, reader, arriving, gen, state, runId, bg, resuming, pc, sess,
                   pend, timedOut, att, netVars, asked, gap>>

\* The tab becomes visible again over a stream without activity.
TabRecovery ==
    /\ viewed \in Quiet /\ active[viewed] # None
    /\ Unlock(viewed, active[viewed])
    /\ UNCHANGED <<inFlight, probe>>

\* _probeStaleLocalStream asks for the status of the session ...
ProbeAsks ==
    /\ probe = NoProbe /\ viewed \in Quiet /\ active[viewed] # None /\ bg[viewed] = "none"
    /\ probe' = [at |-> "asked", s |-> viewed, k |-> active[viewed]]
    /\ UNCHANGED <<pageVars, mapVars, sendVars, att, netVars, histVars>>

ProbeAnswer ==
    /\ probe.at = "asked"
    /\ probe' = IF RunningIn(probe.s) = {} THEN [probe EXCEPT !.at = "gone"] ELSE NoProbe
    /\ UNCHANGED <<pageVars, mapVars, sendVars, att, netVars, histVars>>

\* ... and on 404 gives up the stream it began with.
ProbeGone ==
    /\ probe.at = "gone" /\ probe' = NoProbe
    /\ IF active[viewed] # None /\ bg[probe.s] = "none"
       THEN Unlock(probe.s, probe.k) /\ inFlight' = FALSE
       ELSE UNCHANGED <<pageVars, mapVars, sendVars, att, netVars, histVars>>

-----------------------------------------------------------------------------
(* The server *)

Serve == UNCHANGED <<pageVars, mapVars, sendVars, att, probe, histVars>>

\* A POST arrives: its run replaces the one of the session, or it is refused.
ServerStarts(k) ==
    /\ k \in wire /\ wire' = wire \ {k}
    /\ \/ run' = [j \in Sends |-> IF j = k THEN "running"
                                  ELSE IF j \in RunningIn(sess[k]) THEN "over" ELSE run[j]]
       \/ run' = [run EXCEPT ![k] = "refused"]
    /\ UNCHANGED stops /\ Serve

\* Of a POST whose sender is gone, nothing may arrive.
PostLost(k) ==
    /\ k \in wire /\ pc[k] = "done"
    /\ wire' = wire \ {k}
    /\ UNCHANGED <<run, stops>> /\ Serve

ServerEnds(k) ==
    /\ run[k] = "running"
    /\ run' = [run EXCEPT ![k] = "over"]
    /\ UNCHANGED <<wire, stops>> /\ Serve

\* chat_stop ends the run it names and no other.
ServerStops(k) ==
    /\ k \in stops /\ stops' = stops \ {k}
    /\ run' = [run EXCEPT ![k] = IF @ = "running" THEN "over" ELSE @]
    /\ UNCHANGED wire /\ Serve

-----------------------------------------------------------------------------
SendStep(k) == Withdraw(k) \/ Commit(k) \/ Superseded(k) \/ Post(k) \/ Headers(k)
               \/ Refused(k) \/ Finished(k) \/ Closes(k) \/ AbortSeen(k)
ServerStep(k) == ServerStarts(k) \/ ServerEnds(k) \/ ServerStops(k)
Fault(k) == Throws(k) \/ PrepFails(k) \/ Breaks(k) \/ Timeout(k) \/ GraceEnds(k) \/ PostLost(k)

Next ==
    \/ \E k \in Sends : \/ Submit(k) \/ SendStep(k) \/ ServerStep(k) \/ Fault(k)
                        \/ GoesBackground(k)
    \/ Stop \/ CancelKey \/ TabRecovery
    \/ \E s \in Sessions : Select(s)
    \/ Arrive \/ PollEnds
    \/ \E i \in Attempts : Resume(i) \/ ResumeAnswer(i) \/ ResumeOpens(i) \/ ResumeEnds(i)
    \/ ProbeAsks \/ ProbeAnswer \/ ProbeGone

Spec == Init /\ [][Next]_vars

\* Fair: the page's own steps, answers, and the requests that are not lost.  Neither
\* the user's clicks, nor faults, nor the end of a run that nobody stops.
FairSpec ==
    /\ Spec
    /\ \A k \in Sends : /\ WF_vars(SendStep(k))
                        /\ WF_vars(ServerStarts(k)) /\ WF_vars(ServerStops(k))
    /\ WF_vars(Arrive) /\ WF_vars(PollEnds)
    /\ \A i \in Attempts : WF_vars(Resume(i) \/ ResumeAnswer(i) \/ ResumeOpens(i))

-----------------------------------------------------------------------------
(* Properties *)

\* The types of the page's maps and flags, and of what is on the network; a
\* session's maps hold sends of that session, whichever session is on screen.
TypeOK ==
    /\ viewed \in Sessions /\ streaming \in BOOLEAN /\ inFlight \in BOOLEAN
    /\ reader \in Sessions \cup {None} /\ arriving \in BOOLEAN
    /\ gen \in [Sessions -> {None} \cup Sends]
    /\ state \in [Sessions -> {None} \cup Sends]
    /\ runId \in [Sessions -> {None} \cup Sends]
    /\ active \in [Sessions -> {None} \cup Sends]
    /\ bg \in [Sessions -> {"none", "running", "completed", "error"}]
    /\ resuming \in [Sessions -> BOOLEAN]
    /\ pc \in [Sends -> Live \cup {"new", "gate", "thrown", "done"}]
    /\ sess \in [Sends -> Sessions \cup {None}]
    /\ pend \in [Sends -> {"none", "bare", "controller"}]
    /\ run \in [Sends -> {"none", "running", "over", "refused"}]
    /\ \A S \in {aborted, timedOut, wire, stops, asked, cut, gap} : S \subseteq Sends
    /\ att \in [Attempts -> [at : {"idle", "due", "retry", "asked", "answered", "reading"},
                             s : Sessions \cup {None}, r : {None} \cup Sends]]
    /\ probe \in [at : {"idle", "asked", "gone"},
                  s : Sessions \cup {None}, k : {None} \cup Sends]
    /\ \A s \in Sessions :
          \A k \in {gen[s], state[s], runId[s], active[s]} : k # None => sess[k] = s

\* "Stop only the exact detached run": a Stop on its way names a run whose own send
\* the user stopped, or which timed out.  Where resumeStream re-attaches, and writes
\* the id of the run it replays, it names at least a run of the session stopped.
StopsAreExact ==
    \A k \in stops :
        \/ k \in asked \cup timedOut
        \/ sess[k] \in Resumable /\ \E j \in asked \cup timedOut : sess[j] = sess[k]

\* "Never fall back", and never forget: in a session that is not re-attached to, the
\* run of a stopped send is running only while its Stop is on its way, or waits for
\* the answer of a POST that is alive.
StopNotLost ==
    \A k \in asked \ cut :
        run[k] = "running" /\ sess[k] \notin Resumable
        => \/ k \in stops
           \/ pc[k] = "posted" /\ pend[k] # "none"

\* "A superseded send must leave session-level state to the replacement": the
\* latest send, while it lives, is the one Stop finds.
LatestIsKnown ==
    \A s \in Sessions : gen[s] # None /\ pc[gen[s]] \in Live => state[s] = gen[s]

\* A running entry has a reader that will settle it: no switch, Stop, error or clean-up
\* orphans it.  Left out are the sends refused by the server, and those detached between
\* their [DONE] and their close: RunningIsActive, which does not leave them out, fails.
BackgroundIsAlive ==
    \A s \in Sessions :
        bg[s] = "running" => \E k \in Sends : /\ sess[k] = s
                                             /\ \/ pc[k] \in {"posted", "reading"}
                                                \/ run[k] = "refused" \/ k \in gap

\* What a comment says, and the code does not do (README, section 4).
\* "Stream is still active -- show a clean spinner, poll until done": what the poll of
\* a running entry waits for is still to come, but for a refused send.
RunningIsActive ==
    \A s \in Sessions :
        bg[s] = "running"
        => \E k \in Sends : sess[k] = s /\ (pc[k] \in Fetching \/ run[k] = "refused")

\* "Detach any in-flight stream to background instead of aborting": opening another
\* session aborts no stream, of whichever session.
SwitchSparesStreams == [][viewed' # viewed => aborted' = aborted]_vars

\* A Stop reaches its run: a stopped run ends without waiting for its own end,
\* unless its POST was cut before the page knew its name.
StopTakesEffect ==
    \A k \in Sends :
        (k \in asked /\ run[k] = "running") ~> (run[k] # "running" \/ k \in cut)

\* The composer of a session whose run is over is unlocked.
ComposerUnlocks == streaming ~> (~streaming \/ RunningIn(viewed) # {})

\* A background entry is settled once its session has no run, with the two exceptions
\* of BackgroundIsAlive.
BackgroundSettles ==
    \A s \in Sessions :
        bg[s] = "running" ~>
            (\/ bg[s] # "running" \/ RunningIn(s) # {}
             \/ \E k \in Sends : sess[k] = s /\ (run[k] = "refused" \/ k \in gap))
=============================================================================
