------------------------------ MODULE SessionNav ------------------------------
(***************************************************************************)
(* Which chat the page is in (static/js/sessions.js): opening sessions,    *)
(* new chats that have no session until their first message, reloads of    *)
(* the session list, deletions, the model picker's default choice          *)
(* (modelPicker.js), and the part of a send that finds or creates its      *)
(* session (chat.js).                                                      *)
(*                                                                         *)
(* An action is the code between two awaits.  A navigation holds a token,  *)
(* and once another one has taken the next it only ends: nav is the call   *)
(* that holds the last token, lost the kinds of those that do not (one     *)
(* stands for all of its kind).  A new chat is an object compared by       *)
(* identity: here what a send creates is for the chat that is pending      *)
(* (mine), or for a former one.  Private chats, which no URL names, are    *)
(* left out.                                                               *)
(***************************************************************************)
EXTENDS Naturals

CONSTANTS
    Sessions,
    Made,           \* bound: the sessions yet to be created
    Transient,      \* sessions of the folders Assistant and Tasks
    Empty,          \* sessions that may have no stored message
    Clicks,         \* bound: what the user does
    None

ASSUME NavAssumption ==
    /\ Made \subseteq Sessions /\ Transient \subseteq Sessions \ Made
    /\ Empty \subseteq Sessions
    /\ Clicks \in Nat
    /\ {None, "loading", "error", "start", "asking", "left", "new"} \cap Sessions = {}
    /\ None \notin {"loading", "error"}

VARIABLES
    current,        \* currentSessionId
    selected,       \* __geplexLastSelectedSessionId
    hash, saved,    \* the session in the URL, and lastSessionId
    shown,          \* whose messages are on screen; None is the welcome screen
    nav, lost,      \* the calls of selectSession
    list,           \* the sidebar
    skip, rooted,   \* _skipAutoSelect, _rootFreshChatApplied
    answer,         \* the answer to a call of loadSessions (bound: one at a time), or none
    pending,        \* the source of _pendingChat, or none
    send,           \* a send, from its click to its commit
    picking,        \* a call of _ensureDefaultPendingChat
    opening,        \* a call of createDirectChat behind a request (bound: one at a time)
    cached,         \* the default model is known
    where,          \* the server's sessions; one whose deletion is on its way is dying
    intent,         \* the session the user opened last; "new" for a new chat, "asking" for
                    \* one that waits for its model, "left" if it was left for the welcome
                    \* screen, "start" before all this (history)
    clicks,         \* what the user did
    late            \* since the user opened a session, a default model came where one was
                    \* open, or in the URL (history)

pageVars   == <<current, selected, hash, saved, shown>>
navVars    == <<nav, lost>>
listVars   == <<list, skip, rooted, answer>>
modelVars  == <<picking, opening, cached>>
historyVars == <<intent, late>>
sysVars == <<pageVars, navVars, listVars, modelVars, historyVars, pending, send, where>>
vars == <<sysVars, clicks>>

NoNav == [at |-> "idle", s |-> None, same |-> FALSE, sender |-> FALSE, timer |-> FALSE]

Live == {s \in Sessions : where[s] \in {"live", "dying"}}

\* A page is opened, with or without a session in its URL; it may be gone.
Init ==
    /\ current = None /\ selected = None /\ shown = None
    /\ hash \in {None} \cup (Sessions \ Made) /\ saved \in {None} \cup (Sessions \ Made)
    /\ nav = NoNav /\ lost = {}
    /\ list = {} /\ skip = FALSE /\ rooted = FALSE /\ answer = {}
    /\ pending = "none"
    /\ send = [at |-> "idle", mine |-> FALSE]
    /\ picking = "idle" /\ opening = "idle" /\ cached \in BOOLEAN
    /\ \E gone \in {None} \cup (Sessions \ Made) :
         where = [s \in Sessions |-> CASE s \in Made -> "unborn" [] s = gone -> "gone"
                                       [] OTHER -> "live"]
    /\ intent = "start" /\ late = FALSE /\ clicks = 0

-----------------------------------------------------------------------------
(* What the handlers share *)

\* _pendingChat is assigned: what is being created is for a former one.
Pend(source) == pending' = source /\ send' = [send EXCEPT !.mine = FALSE]

\* A call that lost its token does not let its send go on (a mutant).
SupersedeForgets == lost' = lost \cup IF nav.at \in {"idle", "failed"} THEN {} ELSE {"other"}

\* The token goes to another call, or to none.
Supersede ==
    lost' = lost \cup IF nav.at \in {"idle", "failed"} THEN {}
                      ELSE {IF nav.sender THEN "sender" ELSE "other"}

\* The URL is kept (a mutant).
BlankKeepsUrl == current' = None /\ hash' = hash /\ saved' = None /\ shown' = None

\* No session is current, and the welcome screen is shown.
Blank == current' = None /\ hash' = None /\ saved' = None /\ shown' = None

\* setCurrentSessionId(null) and the cleared history: _startFreshChat
Leave == Blank /\ selected' = None /\ Supersede /\ nav' = NoNav

\* createDirectChat: a new chat, unless it would displace one the user chose.
Displaces(source) == pending # "manual" \/ source = "manual"
Direct(source) ==
    IF Displaces(source)
    THEN Leave /\ Pend(source) /\ skip' = TRUE
    ELSE UNCHANGED <<pageVars, navVars, pending, send, skip>>

\* The head of selectSession(s), with the list and lastSessionId as they are by now, for
\* a send or with a timer that paints a loading state.
Enter(s, rows, last, sender, loading) ==
    /\ Supersede
    /\ nav' = [at |-> "asked", s |-> s, same |-> (current = s), sender |-> sender,
               timer |-> loading /\ current # s]
    /\ current' = s /\ selected' = s
    /\ IF s \in Transient \cap rows THEN hash' = hash /\ saved' = last
                                    ELSE hash' = s /\ saved' = s
    /\ UNCHANGED shown

\* updateModelPicker where no session is current.
Picker ==
    /\ pending' = IF pending = "none" /\ cached THEN "default" ELSE pending
    /\ picking' = IF pending = "none" /\ ~cached /\ picking = "idle" THEN "asked" ELSE picking

-----------------------------------------------------------------------------
(* The user *)

Select(s) ==
    /\ s \in list
    /\ Enter(s, list, saved, FALSE, TRUE) /\ Pend("none")
    /\ intent' = s /\ late' = FALSE
    /\ UNCHANGED <<listVars, modelVars, where>>

\* The mobile button, and others: the pending chat stays.
FreshChat ==
    /\ Leave
    /\ intent' = IF pending = "none" THEN "left" ELSE "new"
    /\ UNCHANGED <<listVars, modelVars, pending, send, where, late>>

\* New Chat, with the model of the chat that is pending or open ...
NewChat ==
    /\ pending # "none" \/ current \in list
    /\ Direct(IF pending = "none" THEN "manual" ELSE pending)
    /\ intent' = "new"
    /\ UNCHANGED <<list, rooted, answer, modelVars, where, late>>

\* ... or, with none of them, or one that is not in the sidebar or has no model, the
\* default model, which is asked for.
NewChatAsks ==
    /\ pending = "none" /\ opening = "idle"
    /\ opening' = "new" /\ intent' = "asking"
    /\ UNCHANGED <<pageVars, navVars, listVars, pending, send, picking, cached, where, late>>

\* A model is picked: for the open session, the pending chat, or a new one.
Pick ==
    /\ picking' = IF picking = "asked" THEN "stale" ELSE picking
    /\ \/ /\ current # None
          /\ UNCHANGED <<pageVars, navVars, pending, send, skip, intent>>
       \/ /\ current = None /\ pending # "none"
          /\ Pend("manual") /\ UNCHANGED <<pageVars, navVars, skip, intent>>
       \/ /\ current = None /\ pending = "none"
          /\ Direct("manual") /\ intent' = "new"
    /\ UNCHANGED <<list, rooted, answer, opening, cached, where, late>>

\* Delete, confirmed.
Delete(s) ==
    /\ s \in list
    /\ list' = list \ {s} /\ skip' = TRUE
    /\ where' = IF where[s] = "live" THEN [where EXCEPT ![s] = "dying"] ELSE where
    /\ IF current = s THEN Blank /\ intent' = "left"
                      ELSE UNCHANGED <<current, hash, saved, shown, intent>>
    /\ UNCHANGED <<selected, navVars, rooted, answer, modelVars, pending, send, late>>

-----------------------------------------------------------------------------
(* Sending *)

Gate(at) == send' = [send EXCEPT !.at = at]

\* With nothing open and nothing pending, what was opened before is opened again:
\* _adoptOpenedSessionBeforeAutoCreate.  (The highlighted row it asks for too is gone
\* wherever no session is current.)
Adoptable == IF hash # None THEN hash ELSE selected
Send ==
    /\ send.at = "idle"
    /\ \/ /\ current = None /\ pending = "none" /\ Adoptable # None
          /\ Enter(Adoptable, list, saved, TRUE, FALSE) /\ Gate("adopting")
       \/ /\ current # None \/ pending # "none" \/ Adoptable = None
          /\ Gate("gate") /\ UNCHANGED <<pageVars, navVars>>
    /\ UNCHANGED <<listVars, modelVars, pending, where, historyVars>>

\* At once: the pending chat is created, the message is posted to the open session, or
\* a new chat is opened and created with the default model.
PassGate ==
    /\ send.at = "gate"
    /\ \/ /\ pending # "none"
          /\ send' = [at |-> "creating", mine |-> TRUE]
          /\ UNCHANGED <<pageVars, navVars, pending, skip>>
       \/ /\ pending = "none" /\ (current # None \/ ~cached)
          /\ Gate(IF current # None THEN "idle" ELSE "default")
          /\ UNCHANGED <<pageVars, navVars, pending, skip>>
       \/ /\ pending = "none" /\ current = None /\ cached
          /\ Leave /\ pending' = "default" /\ skip' = TRUE
          /\ send' = [at |-> "making", mine |-> TRUE]
    /\ UNCHANGED <<list, rooted, answer, modelVars, where, historyVars>>

\* The default model is there, and what is current by now is not looked at.
DefaultAnswers ==
    /\ send.at = "default" /\ cached' = TRUE
    /\ send' = [at |-> "making", mine |-> TRUE]
    /\ IF Displaces("default")
       THEN Leave /\ pending' = "default" /\ skip' = TRUE
       ELSE UNCHANGED <<pageVars, navVars, pending, skip>>
    /\ late' = (late \/ current # None)
    /\ UNCHANGED <<list, rooted, answer, picking, opening, where, intent>>

\* There is none, or a request fails: _releaseSendFlag.
Released ==
    /\ send.at \in {"default", "creating", "making"}
    /\ send' = [at |-> "idle", mine |-> FALSE]
    /\ UNCHANGED <<pageVars, navVars, listVars, modelVars, pending, where, historyVars>>

\* The answer of a creation is no JSON: what materializePendingSession throws is caught
\* where the default model was looked for, and nowhere else.
Thrown ==
    /\ send.at = "creating"
    /\ send' = [at |-> "stuck", mine |-> FALSE]
    /\ UNCHANGED <<pageVars, navVars, listVars, modelVars, pending, where, historyVars>>

\* The answer of materializePendingSession: the session is current and the message is
\* posted to it, or it is for a former chat and is deleted, if the request arrives.
CreateAnswers(n) ==
    /\ send.at \in {"creating", "making"} /\ where[n] = "unborn"
    /\ send' = [at |-> "idle", mine |-> FALSE]
    /\ \/ /\ send.mine
          /\ where' = [where EXCEPT ![n] = "live"]
          /\ pending' = "none"
          /\ current' = n /\ hash' = n /\ saved' = n
          /\ shown' = IF shown = None THEN n ELSE shown
          /\ intent' = IF intent \in Sessions THEN intent ELSE n
       \/ /\ ~send.mine
          /\ \E w \in {"live", "gone"} : where' = [where EXCEPT ![n] = w]
          /\ UNCHANGED <<current, hash, saved, shown, pending, intent>>
    /\ UNCHANGED <<selected, navVars, listVars, modelVars, late>>

-----------------------------------------------------------------------------
(* selectSession *)

\* What is current by now is not looked at (a mutant).
WantedAlways == TRUE

\* navToken and currentSessionId are what they were when the call began.
Wanted == current = nav.s

\* The history takes its time: a loading state replaces what is on screen.  The timer
\* survives a request that failed.
PaintLoading ==
    /\ nav.timer /\ Wanted
    /\ shown' = "loading"
    /\ nav' = [nav EXCEPT !.timer = FALSE]
    /\ UNCHANGED <<current, selected, hash, saved, lost, listVars, modelVars, pending, send,
                   where, historyVars>>

\* A send goes on only where its session could be opened (a mutant).
ReturnsWanted == IF nav.sender /\ Wanted THEN Gate("gate") ELSE UNCHANGED send

\* selectSession returns; a send goes on.
Returns == IF nav.sender THEN Gate("gate") ELSE UNCHANGED send

\* An empty history wipes no bubbles where the session was already current.
WouldWipe == nav.same /\ nav.s \in Empty /\ shown \notin {None, "loading"}

HistoryArrives ==
    /\ nav.at = "asked"
    /\ \/ (~Wanted \/ WouldWipe) /\ nav' = NoNav /\ Returns
       \/ Wanted /\ nav' = [nav EXCEPT !.at = "painting", !.timer = FALSE] /\ UNCHANGED send
    /\ UNCHANGED <<pageVars, lost, listVars, modelVars, pending, where, historyVars>>

\* After the fade, or the next frame.
Paints ==
    /\ nav.at = "painting" /\ nav' = NoNav /\ Returns
    /\ shown' = IF Wanted THEN nav.s ELSE shown
    /\ UNCHANGED <<current, selected, hash, saved, lost, listVars, modelVars, pending, where,
                   historyVars>>

\* The request fails: a loading state becomes an error; with none, the messages of
\* another session stay on screen, below a toast.  The call keeps its token.
HistoryFails ==
    /\ nav.at = "asked" /\ Returns
    /\ nav' = [nav EXCEPT !.at = "failed", !.sender = FALSE, !.same = FALSE]
    /\ shown' = IF shown = "loading" THEN "error" ELSE shown
    /\ UNCHANGED <<current, selected, hash, saved, lost, listVars, modelVars, pending, where,
                   historyVars>>

\* A call that lost its token ends; it may have failed.
LostEnds(kind) ==
    /\ kind \in lost /\ lost' \in {lost \ {kind}, lost \ ({kind} \cap {"sender"})}
    /\ shown' \in {shown, IF shown = "loading" THEN "error" ELSE shown}
    /\ IF kind = "sender" THEN Gate("gate") ELSE UNCHANGED send
    /\ UNCHANGED <<current, selected, hash, saved, nav, listVars, modelVars, pending, where,
                   historyVars>>

-----------------------------------------------------------------------------
(* loadSessions *)

\* It is called by some forty handlers, those of a new session and of a deletion among
\* them: here at any time.
ServerLists ==
    /\ answer = {} /\ answer' = {Live}
    /\ UNCHANGED <<pageVars, navVars, list, skip, rooted, modelVars, pending, send, where,
                   historyVars>>

LoadFails ==
    /\ answer # {} /\ answer' = {}
    /\ UNCHANGED <<pageVars, navVars, list, skip, rooted, modelVars, pending, send, where,
                   historyVars>>

\* The sessions a reload may go to: what the page shows or should show, in this order ...
Restored(got, root, last) ==
    IF hash \in got THEN {hash}
    ELSE IF current # None THEN {current}
    ELSE IF root THEN {None}
    ELSE IF last \in got THEN {last}
    ELSE IF skip \/ got = {} THEN {None}
    ELSE IF got \subseteq Transient THEN got ELSE got \ Transient

\* Pending or not (a mutant).
TargetsUnguarded(got, root, last) == Restored(got, root, last)

\* ... but none where a new chat is pending.
Targets(got, root, last) == IF pending # "none" THEN {None} ELSE Restored(got, root, last)

LoadArrives(got) ==
    LET root == ~rooted /\ hash = None /\ current = None /\ pending = "none"
        last == IF root \/ saved \in got \cap Transient THEN None ELSE saved
        Stays == saved' = last /\ skip' = FALSE /\ UNCHANGED <<current, selected, hash, shown, navVars>>
    IN
    /\ got \in answer /\ answer' = {}
    /\ list' = got
    /\ rooted' = (rooted \/ root)
    /\ \E s \in Targets(got, root, last) :
         \/ /\ s \notin {None, current}
            /\ \E loading \in BOOLEAN : Enter(s, got, last, FALSE, loading)
            /\ Pend("none") /\ skip' = FALSE
            /\ UNCHANGED <<picking, opening>>
         \/ /\ s = current /\ current # None
            /\ Stays /\ UNCHANGED <<pending, send, picking, opening>>
         \/ \* a new chat is pending
            /\ s = None /\ pending # "none"
            /\ Stays /\ UNCHANGED <<pending, send, picking, opening>>
         \/ /\ s = None /\ pending = "none" /\ (got # {} \/ ~cached)
            /\ Stays /\ Picker
            /\ opening' = IF got = {} /\ opening = "idle" THEN "auto" ELSE opening
            /\ UNCHANGED send
         \/ \* no session at all: a new chat with the default model
            /\ s = None /\ pending = "none" /\ got = {} /\ cached
            /\ Direct("default")
            /\ UNCHANGED <<picking, opening>>
    /\ UNCHANGED <<cached, where, historyVars>>

-----------------------------------------------------------------------------
(* Answers about the default model *)

\* updateModelPicker, from elsewhere.
PickerUpdates ==
    /\ current = None /\ Picker /\ <<pending, picking>>' # <<pending, picking>>
    /\ late' = (late \/ (hash # None /\ pending' # pending))
    /\ UNCHANGED <<pageVars, navVars, listVars, send, opening, cached, where, intent>>

\* The default, or the first model there is, for the chat that is pending; whether a
\* session was opened meanwhile is not asked.
PickAnswers ==
    /\ picking # "idle" /\ picking' = "idle"
    /\ \/ UNCHANGED <<pending, send, cached, late>>
       \/ /\ picking = "asked" /\ pending # "manual"
          /\ Pend("default")
          /\ cached' \in {cached, TRUE}
          /\ late' = (late \/ hash # None \/ current # None)
    /\ UNCHANGED <<pageVars, navVars, listVars, opening, where, intent>>

\* New Chat goes on, with the default model, another session's or none; or the list was
\* empty.
OpeningAnswers ==
    /\ opening # "idle" /\ opening' = "idle"
    /\ \/ Direct("default") /\ cached' = TRUE
       \/ opening = "new" /\ Direct("manual") /\ UNCHANGED cached
       \/ opening = "new" /\ Leave /\ UNCHANGED <<pending, send, skip, cached>>
       \/ opening = "auto" /\ UNCHANGED <<pageVars, navVars, pending, send, skip, cached>>
    /\ late' = (late \/ (current # None /\ intent # "asking"))
    /\ intent' = IF opening # "new" \/ intent # "asking" \/ pending = "manual" THEN intent
                 ELSE IF pending' = "none" THEN "left" ELSE "new"
    /\ UNCHANGED <<list, rooted, answer, picking, where>>

-----------------------------------------------------------------------------
(* The server *)

\* The answer of a deletion, which may have failed.
DelAnswers(s) ==
    /\ where[s] = "dying"
    /\ \E w \in {"live", "gone"} : where' = [where EXCEPT ![s] = w]
    /\ UNCHANGED <<pageVars, navVars, listVars, modelVars, pending, send, historyVars>>

-----------------------------------------------------------------------------
User ==
    \/ \E s \in Sessions : Select(s) \/ Delete(s)
    \/ FreshChat \/ NewChat \/ NewChatAsks \/ Pick \/ Send

Settles == \/ \E n \in Made : CreateAnswers(n)
           \/ DefaultAnswers \/ Released \/ Thrown
Opens == HistoryArrives \/ Paints \/ HistoryFails

Other ==
    \/ Settles \/ Opens \/ PaintLoading
    \/ \E kind \in {"sender", "other"} : LostEnds(kind)
    \/ ServerLists \/ LoadFails \/ \E got \in answer : LoadArrives(got)
    \/ PickerUpdates \/ PickAnswers \/ OpeningAnswers
    \/ \E s \in Sessions : DelAnswers(s)

\* A send at its gate goes on before anything else happens.
Next ==
    \/ PassGate /\ UNCHANGED clicks
    \/ send.at # "gate" /\ clicks < Clicks /\ User /\ clicks' = clicks + 1
    \/ send.at # "gate" /\ Other /\ UNCHANGED clicks

Spec == Init /\ [][Next]_vars

\* Every request is answered or fails.
FairSpec ==
    /\ Spec
    /\ WF_sysVars(PassGate) /\ WF_sysVars(Settles)
    /\ WF_sysVars(Opens) /\ WF_sysVars(LostEnds("sender"))

-----------------------------------------------------------------------------
(* Properties *)

\* The types, and what the pieces of a send and of a navigation have to do with each other.
TypeOK ==
    /\ {current, selected, hash, saved} \subseteq Sessions \cup {None}
    /\ shown \in Sessions \cup {None, "loading", "error"}
    /\ nav \in [at : {"idle", "asked", "painting", "failed"}, s : Sessions \cup {None},
                same : BOOLEAN, sender : BOOLEAN, timer : BOOLEAN]
    /\ nav.at = "idle" <=> nav.s = None
    /\ nav.sender => nav.at \in {"asked", "painting"} /\ ~nav.timer /\ "sender" \notin lost
    /\ lost \subseteq {"sender", "other"}
    /\ list \subseteq Sessions
    /\ skip \in BOOLEAN /\ rooted \in BOOLEAN /\ cached \in BOOLEAN /\ late \in BOOLEAN
    /\ answer \subseteq SUBSET Sessions
    /\ pending \in {"none", "default", "manual"}
    /\ send \in [at : {"idle", "adopting", "gate", "default", "creating", "making", "stuck"},
                 mine : BOOLEAN]
    /\ send.at = "adopting" <=> nav.sender \/ "sender" \in lost
    /\ send.mine => pending # "none"
    /\ picking \in {"idle", "asked", "stale"} /\ opening \in {"idle", "new", "auto"}
    /\ where \in [Sessions -> {"unborn", "live", "dying", "gone"}]
    /\ intent \in Sessions \cup {"start", "asking", "left", "new"}
    /\ clicks \in 0 .. Clicks

\* No messages but those of the current session are on screen, unless its history is
\* still coming or could not be read (sessions.js:1987, 2027, 2038, 2144).
ScreenIsCurrent ==
    \/ late \/ current \in Empty
    \/ shown \in {current, "loading", "error"}
    \/ nav.at \in {"asked", "painting", "failed"} /\ nav.s = current

\* Nobody but the user takes the page from a session the user opened or from a new chat,
\* and no new chat is pending behind a session, to get the next message
\* (sessions.js:1748, 1852, 2325).  From a session that no URL names (Transient) a reload
\* of the list takes it, and only to the session that the URL still names; a default model
\* that comes late takes it until the user opens a session again; and a chat that was left
\* for the welcome screen, with nothing pending, is not kept: ReloadKeepsSession,
\* OpenedIsKept and ReloadKeepsFreshChat, below, do not hold.
IntendedView ==
    \/ late
    \/ /\ intent \in Sessions \ Transient => current = intent
       /\ intent \in Transient => current = intent \/ (current # None /\ current = hash)
       /\ intent = "new" => pending # "none"
       /\ pending # "none" => current = None

\* A reload of the page, or of the list, comes back to the session that is current, by the
\* URL and by lastSessionId, and to none that was left.  Transient sessions are left out:
\* the code keeps them out of both, so as not to come back to them.  A page just opened
\* has yet to go where its URL says.
UrlIsCurrent ==
    \/ late \/ current \in Transient
    \/ current = None /\ intent \in {"start", "asking"}
    \/ hash = current /\ saved = current

\* The composer is unlocked again, whatever the user opens meanwhile, but for a creation
\* whose answer is no JSON.
SendSettles == send.at \notin {"idle", "stuck"} ~> send.at \in {"idle", "stuck"}

-----------------------------------------------------------------------------
(* What comments of the code say, and the code does not do (README, section 4) *)

\* "Do not let a stale response steal currentSessionId and make the next send land in a
\* brand-new chat", whatever the response is about.
OpenedIsKept == intent \in Sessions \ Transient => current = intent /\ pending = "none"

\* The list is reloaded where a stream ends in the background.
Reloaded == answer # {} /\ answer' = {}

\* "Don't yank the user back to this chat if they've navigated away": a reload of the list
\* leaves the session the user opened open.
ReloadKeepsSession ==
    [][Reloaded /\ intent \in Sessions /\ ~late => current' = current]_vars

\* "Don't yank them back from a new chat they opened": a reload of the list leaves the
\* welcome screen to which the user left a chat.
ReloadKeepsFreshChat == [][Reloaded /\ intent = "left" => current' = current]_vars

\* "Block re-clicks between submit and stream start", and no longer.
SendReleases == send.at # "idle" ~> send.at = "idle"
=============================================================================
