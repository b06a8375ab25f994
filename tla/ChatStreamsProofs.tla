--------------------------- MODULE ChatStreamsProofs ---------------------------
(***************************************************************************)
(* Theorems of ChatStreams.  The types need to know where a send's identity *)
(* may be; the other invariants are stated send by send and session by      *)
(* session, so that a step is looked at for the send it moves.              *)
(***************************************************************************)
EXTENDS ChatStreams, TLAPS

USE DEF Fetching

\* Where a send is, what is known of it: a session once it is committed, a
\* request and a run once it is posted; an abort before the answer cuts its POST.
SendOK(k) ==
    /\ pc[k] \in {"new", "gate", "thrown"} <=> sess[k] = None
    /\ k \in wire => run[k] = "none" /\ (pc[k] = "posted" \/ (pc[k] = "done" /\ k \in cut))
    /\ run[k] # "none" => pc[k] \in {"posted", "reading", "closing", "done"}
    /\ k \in aborted => /\ pc[k] \in {"posted", "reading", "closing", "done"}
                        /\ pc[k] = "posted" => k \in cut

\* A registered stream has been posted and is not over.
ActiveOK(s) == active[s] # None => pc[active[s]] \in Fetching

\* A call of resumeStream is for a session, and replays a run of that session.
AttOK(i) ==
    /\ att[i].at # "idle" => att[i].s \in Sessions
    /\ att[i].at \in {"answered", "reading"} =>
          att[i].r \in Sends /\ sess[att[i].r] = att[i].s

ProbeOK == probe.at # "idle" =>
    /\ probe.s \in Sessions /\ probe.k \in Sends /\ sess[probe.k] = probe.s
    /\ pc[probe.k] \in {"posted", "reading", "closing", "done"}

Placed == /\ \A k \in Sends : SendOK(k)
          /\ \A s \in Sessions : ActiveOK(s)
          /\ \A i \in Attempts : AttOK(i)
          /\ ProbeOK

LEMMA ControllerOK ==
    ASSUME TypeOK, Placed, NEW s \in Sessions, Controller(s) # None
    PROVE  Controller(s) \in {k \in Sends : pc[k] \in {"posted", "reading", "closing", "done"}}
<1>1. CASE state[s] # None
  <2>1. state[s] \in Sends /\ sess[state[s]] = s
    BY <1>1 DEF TypeOK
  <2>2. pc[state[s]] \notin {"new", "gate", "thrown", "prep"}
    BY <1>1, <2>1, ChatAssumption DEF Controller, Placed, SendOK
  <2> QED BY <1>1, <2>1, <2>2 DEF Controller, TypeOK, Live
<1>2. CASE state[s] = None
  BY <1>2 DEF Controller, TypeOK, Placed, ActiveOK
<1> QED BY <1>1, <1>2

LEMMA AbortOK ==
    ASSUME TypeOK, Placed, NEW ks, Abort(ks),
           ks \subseteq {k \in Sends : pc[k] \in {"posted", "reading", "closing", "done"}}
    PROVE  /\ aborted' \subseteq Sends /\ cut' \subseteq Sends /\ cut \subseteq cut'
           /\ \A j \in aborted' : pc[j] \in {"posted", "reading", "closing", "done"} /\ (pc[j] = "posted" => j \in cut')
BY DEF Abort, TypeOK, Placed, SendOK

LEMMA OpenType ==
    ASSUME TypeOK, Placed, NEW to \in Sessions,
           NEW b \in [Sessions -> {"none", "running", "completed", "error"}], Open(to, b)
    PROVE  /\ viewed' \in Sessions /\ arriving' \in BOOLEAN /\ streaming' \in BOOLEAN
           /\ reader' \in Sessions \cup {None}
           /\ bg' \in [Sessions -> {"none", "running", "completed", "error"}]
           /\ aborted' \subseteq Sends /\ cut' \subseteq Sends /\ cut \subseteq cut'
           /\ \A j \in aborted' : pc[j] \in {"posted", "reading", "closing", "done"} /\ (pc[j] = "posted" => j \in cut')
           /\ gap' \subseteq Sends
<1>2. viewed' \in Sessions /\ arriving' \in BOOLEAN /\ streaming' \in BOOLEAN
  BY DEF Open, TypeOK
<1>3. reader' \in Sessions \cup {None}
  BY DEF Open, TypeOK
<1>4. bg' \in [Sessions -> {"none", "running", "completed", "error"}]
  BY DEF Open, TypeOK
<1>5. /\ aborted' \subseteq Sends /\ cut' \subseteq Sends /\ cut \subseteq cut'
      /\ \A j \in aborted' : pc[j] \in {"posted", "reading", "closing", "done"} /\ (pc[j] = "posted" => j \in cut')
  <2>1. CASE UNCHANGED <<aborted, cut>>
    BY <2>1 DEF TypeOK, Placed, SendOK
  <2>2. CASE Controller(to) # None /\ Abort({Controller(to)})
    BY <2>2, ControllerOK, AbortOK
  <2> QED BY <2>1, <2>2 DEF Open
<1>6. gap' \subseteq Sends
  BY DEF Open, TypeOK
<1> QED BY <1>2, <1>3, <1>4, <1>5, <1>6

\* A step that opens a session, whatever it does to the attempts.
LEMMA OpenStep ==
    ASSUME TypeOK, Placed, NEW to \in Sessions,
           NEW b \in [Sessions -> {"none", "running", "completed", "error"}], Open(to, b),
           UNCHANGED <<inFlight, runId>>, resuming' \in [Sessions -> BOOLEAN],
           att' \in [Attempts -> [at : {"idle", "due", "retry", "asked", "answered", "reading"},
                                  s : Sessions \cup {None}, r : {None} \cup Sends]],
           \A i \in Attempts : att'[i] = att[i] \/ att'[i] = NoAtt
    PROVE  TypeOK' /\ Placed'
<1>1. /\ viewed' \in Sessions /\ arriving' \in BOOLEAN /\ streaming' \in BOOLEAN
      /\ reader' \in Sessions \cup {None}
      /\ bg' \in [Sessions -> {"none", "running", "completed", "error"}]
      /\ aborted' \subseteq Sends /\ cut' \subseteq Sends /\ cut \subseteq cut'
      /\ \A j \in aborted' : pc[j] \in {"posted", "reading", "closing", "done"} /\ (pc[j] = "posted" => j \in cut')
      /\ gap' \subseteq Sends
  BY OpenType
<1>2. UNCHANGED <<gen, state, active, pc, sess, pend, timedOut, probe, wire, run, stops, asked>>
  BY DEF Open, netVars
<1>3. TypeOK'
  BY <1>1, <1>2 DEF TypeOK
<1>4. \A k \in Sends : SendOK(k)'
  BY <1>1, <1>2 DEF TypeOK, Placed, SendOK
<1>5. \A s \in Sessions : ActiveOK(s)'
  BY <1>2 DEF Placed, ActiveOK
<1>6. \A i \in Attempts : AttOK(i)'
  BY <1>2 DEF Placed, AttOK, NoAtt
<1>7. ProbeOK'
  BY <1>2 DEF Placed, ProbeOK
<1> QED BY <1>3, <1>4, <1>5, <1>6, <1>7 DEF Placed

\* A step that ends a send, whatever the way it ended does.
LEMMA FinallyStep ==
    ASSUME TypeOK, Placed, NEW k \in Sends, NEW other \in BOOLEAN, Finally(k, other),
           pc[k] \in Live, pc[k] = "posted" /\ k \in wire => k \in cut',
           inFlight' \in BOOLEAN, bg' \in [Sessions -> {"none", "running", "completed", "error"}],
           aborted' \subseteq Sends, cut \subseteq cut', cut' \subseteq Sends,
           aborted' \subseteq aborted \cup {k}, k \in aborted' => pc[k] # "prep",
           UNCHANGED <<wire, run, stops, asked, gap>>,
           att' \in [Attempts -> [at : {"idle", "due", "retry", "asked", "answered", "reading"},
                                  s : Sessions \cup {None}, r : {None} \cup Sends]],
           \A i \in Attempts : att'[i] = att[i]
                               \/ (att'[i].at = "retry" /\ att'[i].s \in Sessions)
    PROVE  TypeOK' /\ Placed'
<1>1. sess[k] \in Sessions
  BY DEF Placed, SendOK, TypeOK, Live
<1>2. streaming' \in BOOLEAN
  <2>1. CASE Owns(k)
    <3>1. PICK background : streaming' = (background /\ Foreground)
      BY <2>1 DEF Finally, Resync
    <3> QED BY <3>1
  <2>2. CASE ~Owns(k)
    BY <2>2 DEF Finally
  <2> QED BY <2>1, <2>2
<1>3. viewed' \in Sessions /\ reader' \in Sessions \cup {None} /\ arriving' \in BOOLEAN
  BY DEF Finally, TypeOK
<1>4. /\ active' \in [Sessions -> {None} \cup Sends]
      /\ \A s \in Sessions : active'[s] # None => active'[s] = active[s] /\ active[s] # k
  BY <1>1 DEF Finally, TypeOK
<1>5. /\ state' \in [Sessions -> {None} \cup Sends]
      /\ \A s \in Sessions : state'[s] \in {None, state[s]}
  BY <1>1 DEF Finally, DropState, TypeOK
<1>6. pend' \in [Sends -> {"none", "bare", "controller"}] /\ pc' = [pc EXCEPT ![k] = "done"]
  BY DEF Finally, TypeOK
<1>7. UNCHANGED <<gen, runId, resuming, sess, timedOut, probe>>
  BY DEF Finally
<1>8. \A s \in Sessions :
         \A j \in {gen'[s], state'[s], runId'[s], active'[s]} : j # None => sess'[j] = s
  BY <1>4, <1>5, <1>7 DEF TypeOK
<1>9. pc' \in [Sends -> Live \cup {"new", "gate", "thrown", "done"}]
  BY <1>6 DEF TypeOK, Live
<1>10. TypeOK'
  BY <1>2, <1>3, <1>4, <1>5, <1>6, <1>7, <1>8, <1>9 DEF TypeOK
<1>11. \A j \in Sends : SendOK(j)'
  BY <1>6, <1>7 DEF TypeOK, Placed, SendOK, Live
<1>12. \A s \in Sessions : ActiveOK(s)'
  BY <1>4, <1>6 DEF TypeOK, Placed, ActiveOK
<1>13. \A i \in Attempts : AttOK(i)'
  BY <1>7 DEF Placed, AttOK
<1>14. ProbeOK'
  BY <1>6, <1>7 DEF TypeOK, Placed, ProbeOK
<1> QED BY <1>10, <1>11, <1>12, <1>13, <1>14 DEF Placed

LEMMA SubmitType ==
    ASSUME TypeOK, Placed, NEW k \in Sends, Submit(k)
    PROVE  TypeOK' /\ Placed'
<1> USE DEF pageVars, mapVars, sendVars, netVars, histVars
<1>1. TypeOK'
  BY DEF Submit, TypeOK, Placed, SendOK, ProbeOK, Live
<1>2. \A j \in Sends : SendOK(j)'
  BY DEF Submit, TypeOK, Placed, SendOK, ProbeOK, Live
<1>3. \A s \in Sessions : ActiveOK(s)'
  BY DEF Submit, TypeOK, Placed, ActiveOK, SendOK
<1>4. \A j \in Attempts : AttOK(j)'
  BY DEF Submit, TypeOK, Placed, SendOK, AttOK
<1>5. ProbeOK'
  BY DEF Submit, TypeOK, Placed, ProbeOK, ActiveOK
<1> QED BY <1>1, <1>2, <1>3, <1>4, <1>5 DEF Placed

LEMMA WithdrawType ==
    ASSUME TypeOK, Placed, NEW k \in Sends, Withdraw(k)
    PROVE  TypeOK' /\ Placed'
<1> USE DEF pageVars, mapVars, sendVars, netVars, histVars
<1>0. PICK b \in BOOLEAN : streaming' = b
  BY DEF Withdraw
<1>6. pc' \in [Sends -> Live \cup {"new", "gate", "thrown", "done"}]
  BY DEF Withdraw, TypeOK, Live
<1>7. streaming' \in BOOLEAN /\ inFlight' \in BOOLEAN
  BY <1>0 DEF Withdraw
<1>8. UNCHANGED <<viewed, reader, arriving, mapVars, sess, pend, aborted, timedOut,
                  att, probe, netVars, histVars>>
  BY DEF Withdraw
<1>1. TypeOK'
  BY <1>6, <1>7, <1>8 DEF TypeOK
<1>2. \A j \in Sends : SendOK(j)'
  BY DEF Withdraw, TypeOK, Placed, SendOK, ProbeOK, Live
<1>3. \A s \in Sessions : ActiveOK(s)'
  BY DEF Withdraw, TypeOK, Placed, ActiveOK, SendOK
<1>4. \A j \in Attempts : AttOK(j)'
  BY DEF Withdraw, TypeOK, Placed, SendOK, AttOK
<1>5. ProbeOK'
  BY DEF Withdraw, TypeOK, Placed, ProbeOK, ActiveOK
<1> QED BY <1>1, <1>2, <1>3, <1>4, <1>5 DEF Placed

LEMMA ThrowsType ==
    ASSUME TypeOK, Placed, NEW k \in Sends, Throws(k)
    PROVE  TypeOK' /\ Placed'
<1> USE DEF pageVars, mapVars, sendVars, netVars, histVars
<1>1. TypeOK'
  BY DEF Throws, TypeOK, Placed, SendOK, ProbeOK, Live
<1>2. \A j \in Sends : SendOK(j)'
  BY DEF Throws, TypeOK, Placed, SendOK, ProbeOK, Live
<1>3. \A s \in Sessions : ActiveOK(s)'
  BY DEF Throws, TypeOK, Placed, ActiveOK, SendOK
<1>4. \A j \in Attempts : AttOK(j)'
  BY DEF Throws, TypeOK, Placed, SendOK, AttOK
<1>5. ProbeOK'
  BY DEF Throws, TypeOK, Placed, ProbeOK, ActiveOK
<1> QED BY <1>1, <1>2, <1>3, <1>4, <1>5 DEF Placed

LEMMA CommitType ==
    ASSUME TypeOK, Placed, NEW k \in Sends, Commit(k)
    PROVE  TypeOK' /\ Placed'
<1> USE DEF pageVars, mapVars, sendVars, netVars, histVars
<1>1. /\ viewed' \in Sessions /\ streaming' \in BOOLEAN /\ inFlight' \in BOOLEAN
      /\ reader' \in Sessions \cup {None} /\ arriving' \in BOOLEAN
  BY DEF Commit, TypeOK
<1>2. /\ gen' \in [Sessions -> {None} \cup Sends]
      /\ state' \in [Sessions -> {None} \cup Sends]
      /\ runId' \in [Sessions -> {None} \cup Sends]
  BY DEF Commit, TakeOver, TypeOK
<1>3. /\ pc' \in [Sends -> Live \cup {"new", "gate", "thrown", "done"}]
      /\ sess' \in [Sends -> Sessions \cup {None}]
  BY DEF Commit, TypeOK, Live
<1>k. sess[k] = None /\ sess'[k] = viewed /\ \A j \in Sends : j # k => sess'[j] = sess[j]
  BY DEF Commit, TypeOK, Placed, SendOK
<1>4. ASSUME NEW s \in Sessions, NEW j \in {gen'[s], state'[s], runId'[s], active'[s]}, j # None
      PROVE  sess'[j] = s
  <2>1. CASE j \in {gen[s], state[s], runId[s], active[s]}
    <3>1. sess[j] = s /\ j \in Sends
      BY <1>4, <2>1 DEF TypeOK
    <3> QED BY <3>1, <1>k, ChatAssumption
  <2>2. CASE s = viewed /\ j = k
    BY <2>2, <1>k
  <2> QED BY <2>1, <2>2, <1>4 DEF Commit, TakeOver, TypeOK
<1>5. TypeOK'
  BY <1>1, <1>2, <1>3, <1>4 DEF Commit, TypeOK
<1>6. \A j \in Sends : SendOK(j)'
  BY ChatAssumption DEF Commit, Placed, SendOK, TypeOK
<1>7. \A i \in Attempts : AttOK(i)'
  BY <1>k, ChatAssumption DEF Commit, Placed, AttOK, TypeOK
<1>8. ProbeOK'
  BY <1>k, ChatAssumption DEF Commit, Placed, ProbeOK, TypeOK
<1>9. \A s \in Sessions : ActiveOK(s)'
  BY DEF Commit, Placed, ActiveOK, TypeOK
<1> QED BY <1>5, <1>6, <1>7, <1>8, <1>9 DEF Placed

LEMMA PostType ==
    ASSUME TypeOK, Placed, NEW k \in Sends, Post(k)
    PROVE  TypeOK' /\ Placed'
<1> USE DEF pageVars, mapVars, sendVars, netVars, histVars
<1>0. PICK b \in BOOLEAN : streaming' = b
  BY DEF Post, Foreground
<1>1. TypeOK'
  BY <1>0 DEF Post, Register, TypeOK, Placed, SendOK, ProbeOK, Live
<1>2. \A j \in Sends : SendOK(j)'
  BY <1>0 DEF Post, Register, TypeOK, Placed, SendOK, ProbeOK, Live
<1>3. \A s \in Sessions : ActiveOK(s)'
  BY <1>0 DEF Post, Register, TypeOK, Placed, ActiveOK, SendOK
<1>4. \A j \in Attempts : AttOK(j)'
  BY <1>0 DEF Post, Register, TypeOK, Placed, SendOK, AttOK
<1>5. ProbeOK'
  BY <1>0 DEF Post, Register, TypeOK, Placed, ProbeOK, ActiveOK
<1> QED BY <1>1, <1>2, <1>3, <1>4, <1>5 DEF Placed

LEMMA HeadersType ==
    ASSUME TypeOK, Placed, NEW k \in Sends, Headers(k)
    PROVE  TypeOK' /\ Placed'
<1> USE DEF pageVars, mapVars, sendVars, netVars, histVars
<1>1. TypeOK'
  BY DEF Headers, StopIsDue, TypeOK, Placed, SendOK, ProbeOK, Live
<1>2. \A j \in Sends : SendOK(j)'
  BY DEF Headers, StopIsDue, TypeOK, Placed, SendOK, ProbeOK, Live
<1>3. \A s \in Sessions : ActiveOK(s)'
  BY DEF Headers, StopIsDue, TypeOK, Placed, ActiveOK, SendOK
<1>4. \A j \in Attempts : AttOK(j)'
  BY DEF Headers, StopIsDue, TypeOK, Placed, SendOK, AttOK
<1>5. ProbeOK'
  BY DEF Headers, StopIsDue, TypeOK, Placed, ProbeOK, ActiveOK
<1> QED BY <1>1, <1>2, <1>3, <1>4, <1>5 DEF Placed

LEMMA TimeoutType ==
    ASSUME TypeOK, Placed, NEW k \in Sends, Timeout(k)
    PROVE  TypeOK' /\ Placed'
<1> USE DEF pageVars, mapVars, sendVars, netVars, histVars
<1>1. TypeOK'
  BY DEF Timeout, StopExactRun, Abort, TypeOK, Placed, SendOK, ProbeOK, Live
<1>2. \A j \in Sends : SendOK(j)'
  BY DEF Timeout, StopExactRun, Abort, TypeOK, Placed, SendOK, ProbeOK, Live
<1>3. \A s \in Sessions : ActiveOK(s)'
  BY DEF Timeout, StopExactRun, Abort, TypeOK, Placed, ActiveOK, SendOK
<1>4. \A j \in Attempts : AttOK(j)'
  BY DEF Timeout, StopExactRun, Abort, TypeOK, Placed, SendOK, AttOK
<1>5. ProbeOK'
  BY DEF Timeout, StopExactRun, Abort, TypeOK, Placed, ProbeOK, ActiveOK
<1> QED BY <1>1, <1>2, <1>3, <1>4, <1>5 DEF Placed

LEMMA GraceEndsType ==
    ASSUME TypeOK, Placed, NEW k \in Sends, GraceEnds(k)
    PROVE  TypeOK' /\ Placed'
<1> USE DEF pageVars, mapVars, sendVars, netVars, histVars
<1>1. TypeOK'
  BY DEF GraceEnds, Abort, TypeOK, Placed, SendOK, ProbeOK, Live
<1>2. \A j \in Sends : SendOK(j)'
  BY DEF GraceEnds, Abort, TypeOK, Placed, SendOK, ProbeOK, Live
<1>3. \A s \in Sessions : ActiveOK(s)'
  BY DEF GraceEnds, Abort, TypeOK, Placed, ActiveOK, SendOK
<1>4. \A j \in Attempts : AttOK(j)'
  BY DEF GraceEnds, Abort, TypeOK, Placed, SendOK, AttOK
<1>5. ProbeOK'
  BY DEF GraceEnds, Abort, TypeOK, Placed, ProbeOK, ActiveOK
<1> QED BY <1>1, <1>2, <1>3, <1>4, <1>5 DEF Placed

LEMMA GoesBackgroundType ==
    ASSUME TypeOK, Placed, NEW k \in Sends, GoesBackground(k)
    PROVE  TypeOK' /\ Placed'
<1> USE DEF pageVars, mapVars, sendVars, netVars, histVars
<1>1. TypeOK'
  BY DEF GoesBackground, TypeOK, Placed, SendOK, ProbeOK, Live
<1>2. \A j \in Sends : SendOK(j)'
  BY DEF GoesBackground, TypeOK, Placed, SendOK, ProbeOK, Live
<1>3. \A s \in Sessions : ActiveOK(s)'
  BY DEF GoesBackground, TypeOK, Placed, ActiveOK, SendOK
<1>4. \A j \in Attempts : AttOK(j)'
  BY DEF GoesBackground, TypeOK, Placed, SendOK, AttOK
<1>5. ProbeOK'
  BY DEF GoesBackground, TypeOK, Placed, ProbeOK, ActiveOK
<1> QED BY <1>1, <1>2, <1>3, <1>4, <1>5 DEF Placed

LEMMA ServerStartsType ==
    ASSUME TypeOK, Placed, NEW k \in Sends, ServerStarts(k)
    PROVE  TypeOK' /\ Placed'
<1> USE DEF pageVars, mapVars, sendVars, netVars, histVars
<1>1. TypeOK'
  BY DEF ServerStarts, Serve, RunningIn, TypeOK, Placed, SendOK, ProbeOK, Live
<1>2. \A j \in Sends : SendOK(j)'
  BY DEF ServerStarts, Serve, RunningIn, TypeOK, Placed, SendOK, ProbeOK, Live
<1>3. \A s \in Sessions : ActiveOK(s)'
  BY DEF ServerStarts, Serve, RunningIn, TypeOK, Placed, ActiveOK, SendOK
<1>4. \A j \in Attempts : AttOK(j)'
  BY DEF ServerStarts, Serve, RunningIn, TypeOK, Placed, SendOK, AttOK
<1>5. ProbeOK'
  BY DEF ServerStarts, Serve, RunningIn, TypeOK, Placed, ProbeOK, ActiveOK
<1> QED BY <1>1, <1>2, <1>3, <1>4, <1>5 DEF Placed

LEMMA PostLostType ==
    ASSUME TypeOK, Placed, NEW k \in Sends, PostLost(k)
    PROVE  TypeOK' /\ Placed'
<1> USE DEF pageVars, mapVars, sendVars, netVars, histVars
<1>1. TypeOK'
  BY DEF PostLost, Serve, TypeOK, Placed, SendOK, ProbeOK, Live
<1>2. \A j \in Sends : SendOK(j)'
  BY DEF PostLost, Serve, TypeOK, Placed, SendOK, ProbeOK, Live
<1>3. \A s \in Sessions : ActiveOK(s)'
  BY DEF PostLost, Serve, TypeOK, Placed, ActiveOK, SendOK
<1>4. \A j \in Attempts : AttOK(j)'
  BY DEF PostLost, Serve, TypeOK, Placed, SendOK, AttOK
<1>5. ProbeOK'
  BY DEF PostLost, Serve, TypeOK, Placed, ProbeOK, ActiveOK
<1> QED BY <1>1, <1>2, <1>3, <1>4, <1>5 DEF Placed

LEMMA ServerEndsType ==
    ASSUME TypeOK, Placed, NEW k \in Sends, ServerEnds(k)
    PROVE  TypeOK' /\ Placed'
<1> USE DEF pageVars, mapVars, sendVars, netVars, histVars
<1>1. TypeOK'
  BY DEF ServerEnds, Serve, TypeOK, Placed, SendOK, ProbeOK, Live
<1>2. \A j \in Sends : SendOK(j)'
  BY DEF ServerEnds, Serve, TypeOK, Placed, SendOK, ProbeOK, Live
<1>3. \A s \in Sessions : ActiveOK(s)'
  BY DEF ServerEnds, Serve, TypeOK, Placed, ActiveOK, SendOK
<1>4. \A j \in Attempts : AttOK(j)'
  BY DEF ServerEnds, Serve, TypeOK, Placed, SendOK, AttOK
<1>5. ProbeOK'
  BY DEF ServerEnds, Serve, TypeOK, Placed, ProbeOK, ActiveOK
<1> QED BY <1>1, <1>2, <1>3, <1>4, <1>5 DEF Placed

LEMMA ServerStopsType ==
    ASSUME TypeOK, Placed, NEW k \in Sends, ServerStops(k)
    PROVE  TypeOK' /\ Placed'
<1> USE DEF pageVars, mapVars, sendVars, netVars, histVars
<1>1. TypeOK'
  BY DEF ServerStops, Serve, TypeOK, Placed, SendOK, ProbeOK, Live
<1>2. \A j \in Sends : SendOK(j)'
  BY DEF ServerStops, Serve, TypeOK, Placed, SendOK, ProbeOK, Live
<1>3. \A s \in Sessions : ActiveOK(s)'
  BY DEF ServerStops, Serve, TypeOK, Placed, ActiveOK, SendOK
<1>4. \A j \in Attempts : AttOK(j)'
  BY DEF ServerStops, Serve, TypeOK, Placed, SendOK, AttOK
<1>5. ProbeOK'
  BY DEF ServerStops, Serve, TypeOK, Placed, ProbeOK, ActiveOK
<1> QED BY <1>1, <1>2, <1>3, <1>4, <1>5 DEF Placed

LEMMA StopType ==
    ASSUME TypeOK, Placed, Stop
    PROVE  TypeOK' /\ Placed'
<1> USE DEF pageVars, mapVars, sendVars, netVars, histVars
<1>0. \A s \in Sessions : Controller(s) # None => Controller(s) \in {k \in Sends : pc[k] \in {"posted", "reading", "closing", "done"}}
  BY ControllerOK
<1>6. pend' \in [Sends -> {"none", "bare", "controller"}]
  BY DEF Stop, StopExactRun, TypeOK
<1>7. stops' \subseteq Sends /\ asked' \subseteq Sends
  BY DEF Stop, StopExactRun, TypeOK
<1>8. streaming' \in BOOLEAN
  BY DEF Stop
<1>9. /\ aborted' \subseteq Sends /\ cut' \subseteq Sends /\ cut \subseteq cut'
      /\ \A j \in aborted' : pc[j] \in {"posted", "reading", "closing", "done"} /\ (pc[j] = "posted" => j \in cut')
  BY <1>0, AbortOK DEF Stop, TypeOK, Placed, SendOK
<1>1. TypeOK'
  BY <1>6, <1>7, <1>8, <1>9 DEF Stop, TypeOK
<1>2. \A j \in Sends : SendOK(j)'
  BY <1>9 DEF Stop, StopExactRun, TypeOK, Placed, SendOK, ProbeOK, Live
<1>3. \A s \in Sessions : ActiveOK(s)'
  BY <1>0 DEF Stop, StopExactRun, TypeOK, Placed, ActiveOK, SendOK
<1>4. \A j \in Attempts : AttOK(j)'
  BY <1>0 DEF Stop, StopExactRun, TypeOK, Placed, SendOK, AttOK
<1>5. ProbeOK'
  BY <1>0 DEF Stop, StopExactRun, TypeOK, Placed, ProbeOK, ActiveOK
<1> QED BY <1>1, <1>2, <1>3, <1>4, <1>5 DEF Placed

LEMMA CancelKeyType ==
    ASSUME TypeOK, Placed, CancelKey
    PROVE  TypeOK' /\ Placed'
<1> USE DEF pageVars, mapVars, sendVars, netVars, histVars
<1>0. \A s \in Sessions : Controller(s) # None => Controller(s) \in {k \in Sends : pc[k] \in {"posted", "reading", "closing", "done"}}
  BY ControllerOK
<1>6. /\ aborted' \subseteq Sends /\ cut' \subseteq Sends /\ cut \subseteq cut'
      /\ \A j \in aborted' : pc[j] \in {"posted", "reading", "closing", "done"} /\ (pc[j] = "posted" => j \in cut')
  BY <1>0, AbortOK DEF CancelKey, TypeOK
<1>1. TypeOK'
  BY <1>6 DEF CancelKey, TypeOK
<1>2. \A j \in Sends : SendOK(j)'
  BY <1>6 DEF CancelKey, TypeOK, Placed, SendOK, ProbeOK, Live
<1>3. \A s \in Sessions : ActiveOK(s)'
  BY DEF CancelKey, TypeOK, Placed, ActiveOK, SendOK
<1>4. \A j \in Attempts : AttOK(j)'
  BY DEF CancelKey, TypeOK, Placed, SendOK, AttOK
<1>5. ProbeOK'
  BY DEF CancelKey, TypeOK, Placed, ProbeOK, ActiveOK
<1> QED BY <1>1, <1>2, <1>3, <1>4, <1>5 DEF Placed

LEMMA TabRecoveryType ==
    ASSUME TypeOK, Placed, TabRecovery
    PROVE  TypeOK' /\ Placed'
<1> USE DEF pageVars, mapVars, sendVars, netVars, histVars
<1>6. active' \in [Sessions -> {None} \cup Sends] /\ \A s \in Sessions : active'[s] \in {None, active[s]}
  BY DEF TabRecovery, Unlock, TypeOK
<1>7. /\ aborted' \subseteq Sends /\ cut' \subseteq Sends /\ cut \subseteq cut'
      /\ \A j \in aborted' : pc[j] \in {"posted", "reading", "closing", "done"} /\ (pc[j] = "posted" => j \in cut')
  BY AbortOK DEF TabRecovery, Unlock, TypeOK, Placed, ActiveOK
<1>8. streaming' \in BOOLEAN
  BY DEF TabRecovery, Unlock
<1>9. UNCHANGED <<viewed, reader, arriving, gen, state, runId, bg, resuming, pc, sess,
                  pend, timedOut, att, wire, run, stops, asked, gap, inFlight, probe>>
  BY DEF TabRecovery, Unlock
<1>1. TypeOK'
  BY <1>6, <1>7, <1>8, <1>9 DEF TabRecovery, TypeOK
<1>2. \A j \in Sends : SendOK(j)'
  BY <1>7 DEF TabRecovery, Unlock, TypeOK, Placed, SendOK, ProbeOK, Live
<1>3. \A s \in Sessions : ActiveOK(s)'
  BY DEF TabRecovery, Unlock, TypeOK, Placed, ActiveOK, SendOK
<1>4. \A j \in Attempts : AttOK(j)'
  BY DEF TabRecovery, Unlock, TypeOK, Placed, SendOK, AttOK
<1>5. ProbeOK'
  BY DEF TabRecovery, Unlock, TypeOK, Placed, ProbeOK, ActiveOK
<1> QED BY <1>1, <1>2, <1>3, <1>4, <1>5 DEF Placed

LEMMA ArriveType ==
    ASSUME TypeOK, Placed, Arrive
    PROVE  TypeOK' /\ Placed'
<1> USE DEF pageVars, mapVars, sendVars, netVars, histVars
<1>6. att' \in [Attempts -> [at : {"idle", "due", "retry", "asked", "answered", "reading"},
                               s : Sessions \cup {None}, r : {None} \cup Sends]]
  BY DEF Arrive, Call, TypeOK
<1>7. bg' \in [Sessions -> {"none", "running", "completed", "error"}]
  BY DEF Arrive, TypeOK
<1>8. arriving' \in BOOLEAN
  BY DEF Arrive
<1>1. TypeOK'
  BY <1>6, <1>7, <1>8 DEF Arrive, TypeOK
<1>2. \A j \in Sends : SendOK(j)'
  BY DEF Arrive, Call, NoAtt, TypeOK, Placed, SendOK, ProbeOK, Live
<1>3. \A s \in Sessions : ActiveOK(s)'
  BY DEF Arrive, Call, NoAtt, TypeOK, Placed, ActiveOK, SendOK
<1>4. \A j \in Attempts : AttOK(j)'
  BY DEF Arrive, Call, NoAtt, TypeOK, Placed, SendOK, AttOK
<1>5. ProbeOK'
  BY DEF Arrive, Call, NoAtt, TypeOK, Placed, ProbeOK, ActiveOK
<1> QED BY <1>1, <1>2, <1>3, <1>4, <1>5 DEF Placed

LEMMA ResumeType ==
    ASSUME TypeOK, Placed, NEW i \in Attempts, Resume(i)
    PROVE  TypeOK' /\ Placed'
<1> USE DEF pageVars, mapVars, sendVars, netVars, histVars
<1>1. TypeOK'
  BY DEF Resume, Drop, Attempt, NoAtt, TypeOK, Placed, SendOK, ProbeOK, Live
<1>2. \A j \in Sends : SendOK(j)'
  BY DEF Resume, Drop, Attempt, NoAtt, TypeOK, Placed, SendOK, ProbeOK, Live
<1>3. \A s \in Sessions : ActiveOK(s)'
  BY DEF Resume, Drop, Attempt, NoAtt, TypeOK, Placed, ActiveOK, SendOK
<1>4. \A j \in Attempts : AttOK(j)'
  BY DEF Resume, Drop, Attempt, NoAtt, TypeOK, Placed, AttOK
<1>5. ProbeOK'
  BY DEF Resume, Drop, Attempt, NoAtt, TypeOK, Placed, ProbeOK, ActiveOK
<1> QED BY <1>1, <1>2, <1>3, <1>4, <1>5 DEF Placed

LEMMA ResumeAnswerType ==
    ASSUME TypeOK, Placed, NEW i \in Attempts, ResumeAnswer(i)
    PROVE  TypeOK' /\ Placed'
<1> USE DEF pageVars, mapVars, sendVars, netVars, histVars
<1>0. att[i].s \in Sessions
  BY DEF ResumeAnswer, Placed, AttOK
<1>1. /\ att' \in [Attempts -> [at : {"idle", "due", "retry", "asked", "answered", "reading"},
                               s : Sessions \cup {None}, r : {None} \cup Sends]]
      /\ \A j \in Attempts : AttOK(j)'
  <2>1. CASE Drop(i)
    BY <2>1 DEF Drop, NoAtt, ResumeAnswer, TypeOK, Placed, AttOK
  <2>2. ASSUME NEW r \in RunningIn(att[i].s), Attempt(i, "answered", att[i].s, r)
        PROVE  /\ att' \in [Attempts -> [at : {"idle", "due", "retry", "asked", "answered", "reading"},
                               s : Sessions \cup {None}, r : {None} \cup Sends]]
               /\ \A j \in Attempts : AttOK(j)'
    <3>1. r \in Sends /\ sess[r] = att[i].s
      BY DEF RunningIn
    <3>2. att' = [att EXCEPT ![i] = [at |-> "answered", s |-> att[i].s, r |-> r]]
      BY <2>2 DEF Attempt
    <3>3. att' \in [Attempts -> [at : {"idle", "due", "retry", "asked", "answered", "reading"},
                               s : Sessions \cup {None}, r : {None} \cup Sends]]
      BY <1>0, <3>1, <3>2 DEF TypeOK
    <3>4. \A j \in Attempts : AttOK(j)'
      BY <1>0, <3>1, <3>2 DEF ResumeAnswer, TypeOK, Placed, AttOK
    <3> QED BY <3>3, <3>4
  <2> QED BY <2>1, <2>2 DEF ResumeAnswer
<1>2. UNCHANGED <<pageVars, mapVars, sendVars, probe, netVars, histVars>>
  BY DEF ResumeAnswer
<1>3. TypeOK'
  BY <1>1, <1>2 DEF TypeOK
<1>4. Placed'
  BY <1>1, <1>2 DEF Placed, SendOK, ActiveOK, ProbeOK
<1> QED BY <1>3, <1>4

LEMMA ResumeOpensType ==
    ASSUME TypeOK, Placed, NEW i \in Attempts, ResumeOpens(i)
    PROVE  TypeOK' /\ Placed'
<1> USE DEF pageVars, mapVars, sendVars, netVars, histVars
<1>6. att' \in [Attempts -> [at : {"idle", "due", "retry", "asked", "answered", "reading"},
                               s : Sessions \cup {None}, r : {None} \cup Sends]]
  BY DEF ResumeOpens, Attempt, TypeOK
<1>7. runId' \in [Sessions -> {None} \cup Sends] /\ resuming' \in [Sessions -> BOOLEAN]
  BY DEF ResumeOpens, TypeOK, Placed, AttOK
<1>8. \A s \in Sessions : runId'[s] # None => sess[runId'[s]] = s
  BY DEF ResumeOpens, TypeOK, Placed, AttOK
<1>1. TypeOK'
  BY <1>6, <1>7, <1>8 DEF ResumeOpens, TypeOK
<1>2. \A j \in Sends : SendOK(j)'
  BY DEF ResumeOpens, Attempt, NoAtt, TypeOK, Placed, SendOK, ProbeOK, Live
<1>3. \A s \in Sessions : ActiveOK(s)'
  BY DEF ResumeOpens, Attempt, NoAtt, TypeOK, Placed, ActiveOK, SendOK
<1>4. \A j \in Attempts : AttOK(j)'
  BY DEF ResumeOpens, Attempt, NoAtt, TypeOK, Placed, SendOK, AttOK
<1>5. ProbeOK'
  BY DEF ResumeOpens, Attempt, NoAtt, TypeOK, Placed, ProbeOK, ActiveOK
<1> QED BY <1>1, <1>2, <1>3, <1>4, <1>5 DEF Placed

LEMMA ProbeAsksType ==
    ASSUME TypeOK, Placed, ProbeAsks
    PROVE  TypeOK' /\ Placed'
<1> USE DEF pageVars, mapVars, sendVars, netVars, histVars
<1>1. TypeOK'
  BY DEF ProbeAsks, TypeOK, Placed, SendOK, ProbeOK, Live
<1>2. \A j \in Sends : SendOK(j)'
  BY DEF ProbeAsks, TypeOK, Placed, SendOK, ProbeOK, Live
<1>3. \A s \in Sessions : ActiveOK(s)'
  BY DEF ProbeAsks, TypeOK, Placed, ActiveOK, SendOK
<1>4. \A j \in Attempts : AttOK(j)'
  BY DEF ProbeAsks, TypeOK, Placed, SendOK, AttOK
<1>5. ProbeOK'
  BY DEF ProbeAsks, TypeOK, Placed, ProbeOK, ActiveOK
<1> QED BY <1>1, <1>2, <1>3, <1>4, <1>5 DEF Placed

LEMMA ProbeAnswerType ==
    ASSUME TypeOK, Placed, ProbeAnswer
    PROVE  TypeOK' /\ Placed'
<1> USE DEF pageVars, mapVars, sendVars, netVars, histVars
<1>1. TypeOK'
  BY DEF ProbeAnswer, NoProbe, TypeOK, Placed, SendOK, ProbeOK, Live
<1>2. \A j \in Sends : SendOK(j)'
  BY DEF ProbeAnswer, NoProbe, TypeOK, Placed, SendOK, ProbeOK, Live
<1>3. \A s \in Sessions : ActiveOK(s)'
  BY DEF ProbeAnswer, NoProbe, TypeOK, Placed, ActiveOK, SendOK
<1>4. \A j \in Attempts : AttOK(j)'
  BY DEF ProbeAnswer, NoProbe, TypeOK, Placed, SendOK, AttOK
<1>5. ProbeOK'
  BY DEF ProbeAnswer, NoProbe, TypeOK, Placed, ProbeOK, ActiveOK
<1> QED BY <1>1, <1>2, <1>3, <1>4, <1>5 DEF Placed

LEMMA ProbeGoneType ==
    ASSUME TypeOK, Placed, ProbeGone
    PROVE  TypeOK' /\ Placed'
<1> USE DEF pageVars, mapVars, sendVars, netVars, histVars
<1>1. CASE UNCHANGED <<pageVars, mapVars, sendVars, att, netVars, histVars>>
  BY <1>1 DEF ProbeGone, NoProbe, TypeOK, Placed, SendOK, ActiveOK, AttOK, ProbeOK
<1>2. CASE Unlock(probe.s, probe.k) /\ inFlight' = FALSE
  <2>1. /\ probe.s \in Sessions /\ probe.k \in Sends
        /\ pc[probe.k] \in {"posted", "reading", "closing", "done"}
    BY DEF ProbeGone, Placed, ProbeOK
  <2>2. active' \in [Sessions -> {None} \cup Sends] /\ \A s \in Sessions : active'[s] \in {None, active[s]}
    BY <1>2, <2>1 DEF Unlock, TypeOK
  <2>3. /\ aborted' \subseteq Sends /\ cut' \subseteq Sends /\ cut \subseteq cut'
        /\ \A j \in aborted' : pc[j] \in {"posted", "reading", "closing", "done"} /\ (pc[j] = "posted" => j \in cut')
    BY <1>2, <2>1, AbortOK DEF Unlock
  <2>4. /\ UNCHANGED <<viewed, reader, arriving, gen, state, runId, bg, resuming, pc, sess, pend,
                       timedOut, att, wire, run, stops, asked, gap>>
        /\ streaming' = FALSE /\ inFlight' = FALSE
    BY <1>2 DEF Unlock
  <2>5. probe' = NoProbe
    BY DEF ProbeGone
  <2>6. probe' \in [at : {"idle", "asked", "gone"}, s : Sessions \cup {None}, k : {None} \cup Sends]
    BY <2>5 DEF NoProbe
  <2>7. \A s \in Sessions :
           \A k \in {gen'[s], state'[s], runId'[s], active'[s]} : k # None => sess'[k] = s
    BY <2>2, <2>4 DEF TypeOK
  <2>8. streaming' \in BOOLEAN /\ inFlight' \in BOOLEAN
    BY <2>4
  <2>9. active' \in [Sessions -> {None} \cup Sends]
    BY <2>2
  <2>10. TypeOK'
    BY <2>3, <2>4, <2>6, <2>7, <2>8, <2>9 DEF TypeOK
  <2>11. Placed'
    BY <2>2, <2>3, <2>4, <2>5 DEF TypeOK, Placed, SendOK, ActiveOK, AttOK, ProbeOK, NoProbe
  <2> QED BY <2>10, <2>11
<1> QED BY <1>1, <1>2 DEF ProbeGone

LEMMA PrepFailsType ==
    ASSUME TypeOK, Placed, NEW k \in Sends, PrepFails(k)
    PROVE  TypeOK' /\ Placed'
<1> USE DEF pageVars, mapVars, sendVars, netVars, histVars
<1>0. PICK b \in BOOLEAN : Finally(k, b)
  <2>1. (active[viewed] # None) \in BOOLEAN
    OBVIOUS
  <2> QED BY <2>1 DEF PrepFails
<1>1. pc[k] \in {"prep"} /\ pc[k] \in Live
  BY DEF PrepFails, Live
<1>2. bg' \in [Sessions -> {"none", "running", "completed", "error"}] /\ inFlight' \in BOOLEAN
  BY DEF PrepFails, TypeOK
<1>3. /\ aborted' \subseteq aborted \cup {k} /\ aborted' \subseteq Sends
      /\ cut \subseteq cut' /\ cut' \subseteq Sends
      /\ UNCHANGED <<wire, run, stops, asked, gap>>
  BY DEF PrepFails, TypeOK
<1>4. k \in aborted' => pc[k] # "prep"
  BY <1>1 DEF PrepFails, Placed, SendOK
<1>5. pc[k] = "posted" /\ k \in wire => k \in cut'
  BY <1>1 DEF PrepFails, Placed, SendOK
<1>6. /\ att' \in [Attempts -> [at : {"idle", "due", "retry", "asked", "answered", "reading"},
                               s : Sessions \cup {None}, r : {None} \cup Sends]]
      /\ \A i \in Attempts : att'[i] = att[i] \/ (att'[i].at = "retry" /\ att'[i].s \in Sessions)
  BY DEF PrepFails, TypeOK, Placed, SendOK
<1> QED BY <1>0, <1>1, <1>2, <1>3, <1>4, <1>5, <1>6, FinallyStep

LEMMA SupersededType ==
    ASSUME TypeOK, Placed, NEW k \in Sends, Superseded(k)
    PROVE  TypeOK' /\ Placed'
<1> USE DEF pageVars, mapVars, sendVars, netVars, histVars
<1>0. streaming \in BOOLEAN /\ Finally(k, streaming)
  BY DEF Superseded, TypeOK
<1>1. pc[k] \in {"prep"} /\ pc[k] \in Live
  BY DEF Superseded, Live
<1>2. bg' \in [Sessions -> {"none", "running", "completed", "error"}] /\ inFlight' \in BOOLEAN
  BY DEF Superseded, TypeOK
<1>3. /\ aborted' \subseteq aborted \cup {k} /\ aborted' \subseteq Sends
      /\ cut \subseteq cut' /\ cut' \subseteq Sends
      /\ UNCHANGED <<wire, run, stops, asked, gap>>
  BY DEF Superseded, TypeOK
<1>4. k \in aborted' => pc[k] # "prep"
  BY <1>1 DEF Superseded, Placed, SendOK
<1>5. pc[k] = "posted" /\ k \in wire => k \in cut'
  BY <1>1 DEF Superseded, Placed, SendOK
<1>6. /\ att' \in [Attempts -> [at : {"idle", "due", "retry", "asked", "answered", "reading"},
                               s : Sessions \cup {None}, r : {None} \cup Sends]]
      /\ \A i \in Attempts : att'[i] = att[i] \/ (att'[i].at = "retry" /\ att'[i].s \in Sessions)
  BY DEF Superseded, TypeOK, Placed, SendOK
<1> QED BY <1>0, <1>1, <1>2, <1>3, <1>4, <1>5, <1>6, FinallyStep

LEMMA RefusedType ==
    ASSUME TypeOK, Placed, NEW k \in Sends, Refused(k)
    PROVE  TypeOK' /\ Placed'
<1> USE DEF pageVars, mapVars, sendVars, netVars, histVars
<1>0. streaming \in BOOLEAN /\ Finally(k, streaming)
  BY DEF Refused, TypeOK
<1>1. pc[k] \in {"posted"} /\ pc[k] \in Live
  BY DEF Refused, Live
<1>2. bg' \in [Sessions -> {"none", "running", "completed", "error"}] /\ inFlight' \in BOOLEAN
  BY DEF Refused, TypeOK
<1>3. /\ aborted' \subseteq aborted \cup {k} /\ aborted' \subseteq Sends
      /\ cut \subseteq cut' /\ cut' \subseteq Sends
      /\ UNCHANGED <<wire, run, stops, asked, gap>>
  BY DEF Refused, TypeOK
<1>4. k \in aborted' => pc[k] # "prep"
  BY <1>1 DEF Refused, Placed, SendOK
<1>5. pc[k] = "posted" /\ k \in wire => k \in cut'
  BY <1>1 DEF Refused, Placed, SendOK
<1>6. /\ att' \in [Attempts -> [at : {"idle", "due", "retry", "asked", "answered", "reading"},
                               s : Sessions \cup {None}, r : {None} \cup Sends]]
      /\ \A i \in Attempts : att'[i] = att[i] \/ (att'[i].at = "retry" /\ att'[i].s \in Sessions)
  BY DEF Refused, TypeOK, Placed, SendOK
<1> QED BY <1>0, <1>1, <1>2, <1>3, <1>4, <1>5, <1>6, FinallyStep

LEMMA FinishedType ==
    ASSUME TypeOK, Placed, NEW k \in Sends, Finished(k)
    PROVE  TypeOK' /\ Placed'
<1> USE DEF pageVars, mapVars, sendVars, netVars, histVars
<1>1. TypeOK'
  BY DEF Finished, TypeOK, Placed, SendOK, ProbeOK, Live
<1>2. \A j \in Sends : SendOK(j)'
  BY DEF Finished, TypeOK, Placed, SendOK, ProbeOK, Live
<1>3. \A s \in Sessions : ActiveOK(s)'
  BY DEF Finished, TypeOK, Placed, ActiveOK, SendOK
<1>4. \A j \in Attempts : AttOK(j)'
  BY DEF Finished, TypeOK, Placed, SendOK, AttOK
<1>5. ProbeOK'
  BY DEF Finished, TypeOK, Placed, ProbeOK, ActiveOK
<1> QED BY <1>1, <1>2, <1>3, <1>4, <1>5 DEF Placed

LEMMA ClosesType ==
    ASSUME TypeOK, Placed, NEW k \in Sends, Closes(k)
    PROVE  TypeOK' /\ Placed'
<1> USE DEF pageVars, mapVars, sendVars, netVars, histVars
<1>0. streaming \in BOOLEAN /\ Finally(k, streaming)
  BY DEF Closes, TypeOK
<1>1. pc[k] \in {"closing"} /\ pc[k] \in Live
  BY DEF Closes, Live
<1>2. bg' \in [Sessions -> {"none", "running", "completed", "error"}] /\ inFlight' \in BOOLEAN
  BY DEF Closes, TypeOK
<1>3. /\ aborted' \subseteq aborted \cup {k} /\ aborted' \subseteq Sends
      /\ cut \subseteq cut' /\ cut' \subseteq Sends
      /\ UNCHANGED <<wire, run, stops, asked, gap>>
  BY DEF Closes, TypeOK
<1>4. k \in aborted' => pc[k] # "prep"
  BY <1>1 DEF Closes, Placed, SendOK
<1>5. pc[k] = "posted" /\ k \in wire => k \in cut'
  BY <1>1 DEF Closes, Placed, SendOK
<1>6. /\ att' \in [Attempts -> [at : {"idle", "due", "retry", "asked", "answered", "reading"},
                               s : Sessions \cup {None}, r : {None} \cup Sends]]
      /\ \A i \in Attempts : att'[i] = att[i] \/ (att'[i].at = "retry" /\ att'[i].s \in Sessions)
  BY DEF Closes, TypeOK, Placed, SendOK
<1> QED BY <1>0, <1>1, <1>2, <1>3, <1>4, <1>5, <1>6, FinallyStep

LEMMA BreaksType ==
    ASSUME TypeOK, Placed, NEW k \in Sends, Breaks(k)
    PROVE  TypeOK' /\ Placed'
<1> USE DEF pageVars, mapVars, sendVars, netVars, histVars
<1>0. streaming \in BOOLEAN /\ Finally(k, streaming)
  BY DEF Breaks, TypeOK
<1>1. pc[k] \in Fetching /\ pc[k] \in Live
  BY DEF Breaks, Live
<1>2. bg' \in [Sessions -> {"none", "running", "completed", "error"}] /\ inFlight' \in BOOLEAN
  BY DEF Breaks, Errs, Recovers, Call, TypeOK
<1>3. /\ aborted' \subseteq aborted \cup {k} /\ aborted' \subseteq Sends
      /\ cut \subseteq cut' /\ cut' \subseteq Sends
      /\ UNCHANGED <<wire, run, stops, asked, gap>>
  BY DEF Breaks, Errs, Recovers, Call, TypeOK
<1>4. k \in aborted' => pc[k] # "prep"
  BY <1>1 DEF Breaks, Errs, Recovers, Call, Placed, SendOK
<1>5. pc[k] = "posted" /\ k \in wire => k \in cut'
  BY <1>1 DEF Breaks, Errs, Recovers, Call, Placed, SendOK
<1>6. /\ att' \in [Attempts -> [at : {"idle", "due", "retry", "asked", "answered", "reading"},
                               s : Sessions \cup {None}, r : {None} \cup Sends]]
      /\ \A i \in Attempts : att'[i] = att[i] \/ (att'[i].at = "retry" /\ att'[i].s \in Sessions)
  BY DEF Breaks, Errs, Recovers, Call, TypeOK, Placed, SendOK
<1> QED BY <1>0, <1>1, <1>2, <1>3, <1>4, <1>5, <1>6, FinallyStep

LEMMA AbortSeenType ==
    ASSUME TypeOK, Placed, NEW k \in Sends, AbortSeen(k)
    PROVE  TypeOK' /\ Placed'
<1> USE DEF pageVars, mapVars, sendVars, netVars, histVars
<1>0. streaming \in BOOLEAN /\ Finally(k, streaming)
  BY DEF AbortSeen, TypeOK
<1>1. pc[k] \in Fetching /\ pc[k] \in Live
  BY DEF AbortSeen, Live
<1>2. bg' \in [Sessions -> {"none", "running", "completed", "error"}] /\ inFlight' \in BOOLEAN
  BY DEF AbortSeen, Errs, TypeOK
<1>3. /\ aborted' \subseteq aborted \cup {k} /\ aborted' \subseteq Sends
      /\ cut \subseteq cut' /\ cut' \subseteq Sends
      /\ UNCHANGED <<wire, run, stops, asked, gap>>
  BY DEF AbortSeen, Errs, TypeOK
<1>4. k \in aborted' => pc[k] # "prep"
  BY <1>1 DEF AbortSeen, Errs, Placed, SendOK
<1>5. pc[k] = "posted" /\ k \in wire => k \in cut'
  BY <1>1 DEF AbortSeen, Errs, Placed, SendOK
<1>6. /\ att' \in [Attempts -> [at : {"idle", "due", "retry", "asked", "answered", "reading"},
                               s : Sessions \cup {None}, r : {None} \cup Sends]]
      /\ \A i \in Attempts : att'[i] = att[i] \/ (att'[i].at = "retry" /\ att'[i].s \in Sessions)
  BY DEF AbortSeen, Errs, TypeOK, Placed, SendOK
<1> QED BY <1>0, <1>1, <1>2, <1>3, <1>4, <1>5, <1>6, FinallyStep

LEMMA StepType ==
    ASSUME TypeOK, Placed, [Next]_vars
    PROVE  TypeOK' /\ Placed'
<1> USE DEF pageVars, mapVars, sendVars, netVars, histVars
<1>1. CASE UNCHANGED vars
  BY <1>1 DEF vars, TypeOK, Placed, SendOK, ActiveOK, AttOK, ProbeOK
<1>2. ASSUME NEW k \in Sends, Submit(k) \/ Withdraw(k) \/ Throws(k) \/ Commit(k) \/ Post(k) \/ Headers(k) \/ Timeout(k) \/ GraceEnds(k) \/ GoesBackground(k) \/ ServerStarts(k) \/ PostLost(k) \/ ServerEnds(k) \/ ServerStops(k) \/ PrepFails(k) \/ Superseded(k) \/ Refused(k) \/ Finished(k) \/ Closes(k) \/ Breaks(k) \/ AbortSeen(k)
     PROVE  TypeOK' /\ Placed'
  BY <1>2, SubmitType, WithdrawType, ThrowsType, CommitType, PostType, HeadersType, TimeoutType, GraceEndsType, GoesBackgroundType, ServerStartsType, PostLostType, ServerEndsType, ServerStopsType, PrepFailsType, SupersededType, RefusedType, FinishedType, ClosesType, BreaksType, AbortSeenType
<1>3. CASE Stop \/ CancelKey \/ TabRecovery \/ Arrive \/ ProbeAsks \/ ProbeAnswer \/ ProbeGone
  BY <1>3, StopType, CancelKeyType, TabRecoveryType, ArriveType, ProbeAsksType, ProbeAnswerType, ProbeGoneType
<1>4. ASSUME NEW i \in Attempts, Resume(i) \/ ResumeAnswer(i) \/ ResumeOpens(i)
     PROVE  TypeOK' /\ Placed'
  BY <1>4, ResumeType, ResumeAnswerType, ResumeOpensType
<1>5. ASSUME NEW i \in Attempts, ResumeEnds(i) PROVE TypeOK' /\ Placed'
  <2>1. /\ att[i].s \in Sessions /\ resuming' \in [Sessions -> BOOLEAN] /\ UNCHANGED runId
        /\ att' \in [Attempts -> [at : {"idle", "due", "retry", "asked", "answered", "reading"},
                               s : Sessions \cup {None}, r : {None} \cup Sends]]
        /\ \A j \in Attempts : att'[j] = att[j] \/ att'[j] = NoAtt
    BY <1>5 DEF ResumeEnds, Drop, NoAtt, TypeOK, Placed, AttOK
  <2>2. CASE UNCHANGED <<pageVars, gen, state, active, bg, sendVars, probe, netVars, histVars>>
    BY <2>1, <2>2 DEF TypeOK, Placed, SendOK, ActiveOK, AttOK, ProbeOK, NoAtt
  <2>3. CASE Open(att[i].s, bg) /\ UNCHANGED inFlight
    BY <2>1, <2>3, OpenStep DEF TypeOK
  <2> QED BY <1>5, <2>2, <2>3 DEF ResumeEnds
<1>6. ASSUME NEW s \in Sessions, Select(s) PROVE TypeOK' /\ Placed'
  BY <1>6, OpenStep DEF Select, TypeOK
<1>7. CASE PollEnds
  <2>1. [bg EXCEPT ![viewed] = "none"] \in [Sessions -> {"none", "running", "completed", "error"}]
    BY DEF TypeOK
  <2> QED BY <1>7, <2>1, OpenStep DEF PollEnds, TypeOK
<1> QED BY <1>1, <1>2, <1>3, <1>4, <1>5, <1>6, <1>7 DEF Next, SendStep, ServerStep, Fault

LEMMA InitType == Init => TypeOK /\ Placed
<1>1. ASSUME Init PROVE TypeOK
  BY <1>1 DEF Init, TypeOK, NoAtt, NoProbe, Live
<1>2. ASSUME Init PROVE Placed
  <2>1. \A k \in Sends : SendOK(k)
    BY <1>2 DEF Init, SendOK
  <2>2. \A s \in Sessions : ActiveOK(s)
    BY <1>2 DEF Init, ActiveOK
  <2>3. (\A i \in Attempts : AttOK(i)) /\ ProbeOK
    BY <1>2 DEF Init, AttOK, ProbeOK, NoAtt, NoProbe
  <2> QED BY <2>1, <2>2, <2>3 DEF Placed
<1> QED BY <1>1, <1>2

\* Type correctness: the page's maps hold sends of their own session, whichever
\* session is on screen when they are written.
THEOREM ChatTyped == Spec => []TypeOK
<1>1. TypeOK /\ Placed /\ [Next]_vars => (TypeOK /\ Placed)'
  BY StepType
<1> QED BY <1>1, InitType, PTL DEF Spec

-----------------------------------------------------------------------------
(* The latest send of a session is the one Stop finds. *)

LEMMA LatestStep ==
    ASSUME TypeOK, Placed, LatestIsKnown, [Next]_vars
    PROVE  LatestIsKnown'
<1> USE DEF pageVars, mapVars, sendVars, netVars, histVars
<1>1. ASSUME NEW k \in Sends, Commit(k) PROVE LatestIsKnown'
  <2>1. \A s \in Sessions : gen[s] # k
    <3>1. k # None /\ sess[k] = None
      BY <1>1, ChatAssumption DEF Commit, Placed, SendOK, Sends, None
    <3> QED BY <3>1, ChatAssumption DEF TypeOK
  <2> QED BY <1>1, <2>1 DEF Commit, TakeOver, LatestIsKnown, TypeOK
<1>2. ASSUME NEW k \in Sends, NEW other, Finally(k, other), pc[k] \in Live PROVE LatestIsKnown'
  BY <1>2 DEF Finally, DropState, Owns, LatestIsKnown, TypeOK, Live
<1>3. ASSUME UNCHANGED <<gen, state>>, \A k \in Sends : pc'[k] \in Live => pc[k] \in Live
      PROVE  LatestIsKnown'
  BY <1>3 DEF LatestIsKnown, TypeOK
<1>4. ASSUME NEW k \in Sends, Submit(k) \/ Withdraw(k) \/ Throws(k) \/ Post(k) \/ Headers(k)
                              \/ Finished(k)
      PROVE  LatestIsKnown'
  <2>1. UNCHANGED <<gen, state>> /\ \A j \in Sends : pc'[j] \in Live => pc[j] \in Live
    BY <1>4 DEF Submit, Withdraw, Throws, Post, Headers, Finished, TypeOK, Live
  <2> QED BY <2>1, <1>3
<1>5. ASSUME NEW k \in Sends, PrepFails(k) \/ Superseded(k) \/ Refused(k) \/ Closes(k)
                              \/ Breaks(k) \/ AbortSeen(k)
      PROVE  LatestIsKnown'
  BY <1>5, <1>2 DEF PrepFails, Superseded, Refused, Closes, Breaks, AbortSeen, Live
<1>6. ASSUME UNCHANGED <<gen, state, pc>> PROVE LatestIsKnown'
  BY <1>6 DEF LatestIsKnown
<1>7. ASSUME NEW k \in Sends, Timeout(k) \/ GraceEnds(k) \/ GoesBackground(k) \/ ServerStarts(k)
                              \/ PostLost(k) \/ ServerEnds(k) \/ ServerStops(k)
      PROVE  UNCHANGED <<gen, state, pc>>
  BY <1>7 DEF Timeout, GraceEnds, GoesBackground, ServerStarts, PostLost, ServerEnds, ServerStops, Serve
<1>8. ASSUME Stop \/ CancelKey \/ TabRecovery \/ Arrive \/ PollEnds \/ ProbeAsks \/ ProbeAnswer \/ ProbeGone
      PROVE  UNCHANGED <<gen, state, pc>>
  BY <1>8 DEF Stop, CancelKey, TabRecovery, Arrive, PollEnds, Open, ProbeAsks, ProbeAnswer, ProbeGone, Unlock
<1>9. ASSUME NEW s \in Sessions, Select(s) PROVE UNCHANGED <<gen, state, pc>>
  BY <1>9 DEF Select, Open
<1>10. ASSUME NEW i \in Attempts, Resume(i) \/ ResumeAnswer(i) \/ ResumeOpens(i) \/ ResumeEnds(i)
       PROVE  UNCHANGED <<gen, state, pc>>
  BY <1>10 DEF Resume, ResumeAnswer, ResumeOpens, ResumeEnds, Open
<1>11. CASE UNCHANGED vars
  BY <1>6, <1>11 DEF vars
<1> QED BY <1>1, <1>4, <1>5, <1>6, <1>7, <1>8, <1>9, <1>10, <1>11 DEF Next, SendStep, ServerStep, Fault

\* The clean-up of a superseded send leaves the session to its replacement: while the
\* latest send of a session lives, Stop and the button find that one.
THEOREM LatestFound == Spec => []LatestIsKnown
<1>1. Init => TypeOK /\ Placed /\ LatestIsKnown
  BY InitType DEF Init, LatestIsKnown
<1>2. TypeOK /\ Placed /\ LatestIsKnown /\ [Next]_vars => (TypeOK /\ Placed /\ LatestIsKnown)'
  BY StepType, LatestStep
<1> QED BY <1>1, <1>2, PTL DEF Spec

-----------------------------------------------------------------------------
(* A running entry has a reader. *)

Settler(s, k) ==
    sess[k] = s /\ (pc[k] \in {"posted", "reading"} \/ run[k] = "refused" \/ k \in gap)
SettledBy(s) == \E k \in Sends : Settler(s, k)

LEMMA AliveStep ==
    ASSUME TypeOK, Placed, \A s \in Sessions : bg[s] = "running" => SettledBy(s), [Next]_vars
    PROVE  \A s \in Sessions : bg'[s] = "running" => SettledBy(s)'
<1> USE DEF pageVars, mapVars, sendVars, netVars, histVars
<1>1. ASSUME NEW s \in Sessions, SettledBy(s),
             \A k \in Sends : Settler(s, k) => Settler(s, k)'
      PROVE  SettledBy(s)'
  BY <1>1 DEF SettledBy
<1>2. ASSUME NEW k \in Sends, NEW other, Finally(k, other), pc[k] \in Live,
             UNCHANGED <<run, gap>>, \A s \in Sessions : bg'[s] = "running" => bg[s] = "running",
             bg'[sess[k]] = "running" => run[k] = "refused" \/ pc[k] \in {"prep", "closing"}
      PROVE  \A s \in Sessions : bg'[s] = "running" => SettledBy(s)'
  <2>1. pc' = [pc EXCEPT ![k] = "done"] /\ sess' = sess
    BY <1>2 DEF Finally
  <2>2. TAKE s \in Sessions
  <2>3. HAVE bg'[s] = "running"
  <2>4. \A j \in Sends : Settler(s, j) => Settler(s, j)'
    BY <1>2, <2>1, <2>3 DEF Settler, TypeOK, Placed, SendOK
  <2> QED BY <1>1, <1>2, <2>3, <2>4
<1>3. ASSUME \A s \in Sessions : bg'[s] = "running" => bg[s] = "running",
             \A s \in Sessions, k \in Sends : Settler(s, k) => Settler(s, k)'
      PROVE  \A s \in Sessions : bg'[s] = "running" => SettledBy(s)'
  BY <1>1, <1>3
<1>4. ASSUME NEW k \in Sends, Submit(k) \/ Withdraw(k) \/ Throws(k) \/ Post(k) \/ Headers(k) \/ Commit(k)
      PROVE  \A s \in Sessions : bg'[s] = "running" => SettledBy(s)'
  <2>1. /\ \A j \in Sends : pc[j] \in {"posted", "reading"} => pc'[j] \in {"posted", "reading"}
        /\ \A j \in Sends : pc[j] \notin {"new", "gate", "thrown"} => sess'[j] = sess[j]
        /\ run' = run /\ bg' = bg /\ gap' = gap
    BY <1>4 DEF Submit, Withdraw, Throws, Post, Headers, Commit, TypeOK
  <2>2. \A s \in Sessions, j \in Sends : Settler(s, j) => Settler(s, j)'
    BY <2>1, ChatAssumption DEF Settler, Placed, SendOK
  <2> QED BY <2>1, <2>2, <1>3
<1>5. ASSUME NEW k \in Sends, ServerStarts(k) \/ PostLost(k) \/ ServerEnds(k) \/ ServerStops(k)
      PROVE  \A s \in Sessions : bg'[s] = "running" => SettledBy(s)'
  <2>1. /\ \A j \in Sends : run[j] = "refused" => run'[j] = "refused"
        /\ UNCHANGED <<sess, pc, bg, gap>>
    BY <1>5 DEF ServerStarts, PostLost, ServerEnds, ServerStops, Serve, RunningIn, TypeOK, Placed, SendOK
  <2>2. \A s \in Sessions, j \in Sends : Settler(s, j) => Settler(s, j)'
    BY <2>1 DEF Settler
  <2> QED BY <2>1, <2>2, <1>3
<1>6. ASSUME NEW k \in Sends, PrepFails(k) \/ Superseded(k) \/ Refused(k) \/ Closes(k)
                              \/ Breaks(k) \/ AbortSeen(k)
      PROVE  \A s \in Sessions : bg'[s] = "running" => SettledBy(s)'
  <2>1. PICK other : Finally(k, other)
    BY <1>6 DEF PrepFails, Superseded, Refused, Closes, Breaks, AbortSeen
  <2>2. pc[k] \in Live /\ UNCHANGED <<run, gap>> /\ sess[k] \in Sessions
    BY <1>6 DEF PrepFails, Superseded, Refused, Closes, Breaks, AbortSeen, Live, TypeOK, Placed, SendOK
  <2>3. /\ \A s \in Sessions : bg'[s] = "running" => bg[s] = "running"
        /\ bg'[sess[k]] = "running" => run[k] = "refused" \/ pc[k] \in {"prep", "closing"}
    BY <1>6, <2>2 DEF PrepFails, Superseded, Refused, Closes, Breaks, AbortSeen, Errs, TypeOK
  <2> QED BY <2>1, <2>2, <2>3, <1>2
<1>7. ASSUME UNCHANGED <<pc, sess, run>>, gap \subseteq gap', NEW x \in Sessions,
             NEW k \in Sends, Settler(x, k)',
             \A s \in Sessions : bg'[s] = "running" => bg[s] = "running" \/ s = x
      PROVE  \A s \in Sessions : bg'[s] = "running" => SettledBy(s)'
  <2>1. \A s \in Sessions, j \in Sends : Settler(s, j) => Settler(s, j)'
    BY <1>7 DEF Settler
  <2>2. SettledBy(x)'
    BY <1>7 DEF SettledBy
  <2> QED BY <1>1, <1>7, <2>1, <2>2
<1>8. ASSUME UNCHANGED <<pc, sess, run>>, gap \subseteq gap',
             \A s \in Sessions : bg'[s] = "running" => bg[s] = "running"
      PROVE  \A s \in Sessions : bg'[s] = "running" => SettledBy(s)'
  <2>1. \A s \in Sessions, j \in Sends : Settler(s, j) => Settler(s, j)'
    BY <1>8 DEF Settler
  <2> QED BY <1>3, <1>8, <2>1
<1>9. ASSUME NEW k \in Sends, GoesBackground(k)
      PROVE  \A s \in Sessions : bg'[s] = "running" => SettledBy(s)'
  <2>1. UNCHANGED <<pc, sess, run, gap>> /\ Settler(sess[k], k)
    BY <1>9 DEF GoesBackground, Settler
  <2>2. TAKE s \in Sessions
  <2>3. HAVE bg'[s] = "running"
  <2>4. CASE s = sess[k]
    BY <2>1, <2>4 DEF SettledBy, Settler
  <2>5. CASE s # sess[k]
    <3>1. bg[s] = "running"
      BY <1>9, <2>3, <2>5 DEF GoesBackground, TypeOK
    <3>2. \A j \in Sends : Settler(s, j) => Settler(s, j)'
      BY <2>1 DEF Settler
    <3> QED BY <1>1, <3>1, <3>2
  <2> QED BY <2>4, <2>5
<1>10. ASSUME NEW to \in Sessions, NEW b, Open(to, b),
              \A s \in Sessions : b[s] = "running" => bg[s] = "running",
              b \in [Sessions -> {"none", "running", "completed", "error"}]
       PROVE  \A s \in Sessions : bg'[s] = "running" => SettledBy(s)'
  <2>1. UNCHANGED <<pc, sess, run>> /\ gap \subseteq gap'
    BY <1>10 DEF Open
  <2>2. CASE active[viewed] # None
    <3>1. PICK x \in Sessions : x = viewed
      BY DEF TypeOK
    <3>2. \A s \in Sessions : bg'[s] = "running" => bg[s] = "running" \/ s = x
      BY <1>10, <2>2, <3>1 DEF Open, TypeOK
    <3>3. PICK k \in Sends : k = active[x] /\ sess[k] = x /\ pc[k] \in Fetching
      BY <2>2, <3>1 DEF TypeOK, Placed, ActiveOK
    <3>4. pc[k] = "closing" => k \in gap'
      BY <1>10, <2>2, <3>1, <3>3 DEF Open
    <3>5. Settler(x, k)'
      BY <2>1, <3>3, <3>4 DEF Settler
    <3> QED BY <2>1, <3>2, <3>5, <1>7
  <2>3. CASE active[viewed] = None
    <3>1. \A s \in Sessions : bg'[s] = "running" => bg[s] = "running"
      BY <1>10, <2>3 DEF Open
    <3> QED BY <2>1, <3>1, <1>8
  <2> QED BY <2>2, <2>3
<1>11. ASSUME NEW to \in Sessions, Select(to)
       PROVE  \A s \in Sessions : bg'[s] = "running" => SettledBy(s)'
  BY <1>11, <1>10 DEF Select, TypeOK
<1>12. CASE PollEnds
  <2>1. [bg EXCEPT ![viewed] = "none"] \in [Sessions -> {"none", "running", "completed", "error"}]
    BY DEF TypeOK
  <2>2. \A s \in Sessions : [bg EXCEPT ![viewed] = "none"][s] = "running" => bg[s] = "running"
    BY DEF TypeOK
  <2>3. viewed \in Sessions
    BY DEF TypeOK
  <2> QED BY <1>12, <2>1, <2>2, <2>3, <1>10 DEF PollEnds
<1>13. ASSUME NEW i \in Attempts, ResumeEnds(i)
       PROVE  \A s \in Sessions : bg'[s] = "running" => SettledBy(s)'
  <2>1. CASE UNCHANGED <<pageVars, gen, state, active, bg, sendVars, probe, netVars, histVars>>
    BY <2>1, <1>8
  <2>2. CASE viewed = att[i].s /\ Open(att[i].s, bg)
    BY <2>2, <1>10 DEF TypeOK
  <2> QED BY <1>13, <2>1, <2>2 DEF ResumeEnds
<1>14. ASSUME NEW i \in Attempts, Resume(i) \/ ResumeAnswer(i) \/ ResumeOpens(i)
       PROVE  UNCHANGED <<pc, sess, run, bg, gap>>
  BY <1>14 DEF Resume, ResumeAnswer, ResumeOpens
<1>15. ASSUME NEW k \in Sends, Timeout(k) \/ GraceEnds(k) PROVE UNCHANGED <<pc, sess, run, bg, gap>>
  BY <1>15 DEF Timeout, GraceEnds
<1>16. ASSUME Stop \/ CancelKey \/ TabRecovery \/ ProbeAsks \/ ProbeAnswer \/ ProbeGone
       PROVE  UNCHANGED <<pc, sess, run, bg, gap>>
  BY <1>16 DEF Stop, CancelKey, TabRecovery, ProbeAsks, ProbeAnswer, ProbeGone, Unlock
<1>17. CASE Arrive
  <2>1. UNCHANGED <<pc, sess, run, gap>> /\ \A s \in Sessions : bg'[s] = "running" => bg[s] = "running"
    BY <1>17 DEF Arrive, TypeOK
  <2> QED BY <2>1, <1>8
<1>18. CASE UNCHANGED vars
  BY <1>8, <1>18 DEF vars
<1>19. ASSUME UNCHANGED <<pc, sess, run, bg, gap>>
       PROVE  \A s \in Sessions : bg'[s] = "running" => SettledBy(s)'
  BY <1>8, <1>19
<1>20. ASSUME NEW k \in Sends, Finished(k)
       PROVE  \A s \in Sessions : bg'[s] = "running" => SettledBy(s)'
  <2>1. /\ pc' = [pc EXCEPT ![k] = "closing"] /\ UNCHANGED <<sess, run, gap>>
        /\ bg' = [bg EXCEPT ![sess[k]] = IF viewed = sess[k] THEN "none" ELSE "completed"]
    BY <1>20 DEF Finished
  <2>2. TAKE s \in Sessions
  <2>3. HAVE bg'[s] = "running"
  <2>4. s # sess[k] /\ bg[s] = "running"
    BY <2>1, <2>3 DEF TypeOK
  <2>5. \A j \in Sends : Settler(s, j) => Settler(s, j)'
    BY <2>1, <2>4 DEF Settler, TypeOK
  <2> QED BY <1>1, <2>4, <2>5
<1> QED BY <1>20, <1>4, <1>5, <1>6, <1>9, <1>11, <1>12, <1>13, <1>14, <1>15, <1>16, <1>17, <1>18, <1>19
        DEF Next, SendStep, ServerStep, Fault

\* An entry that says "running" has a send that is still to settle it, or whose POST was
\* refused, or which was detached between its [DONE] and its close: no other step
\* orphans an entry, neither a switch nor a Stop, an error or a recovered tab.
THEOREM BackgroundHasReader == Spec => []BackgroundIsAlive
<1> DEFINE Alive == \A s \in Sessions : bg[s] = "running" => SettledBy(s)
<1>1. Init => TypeOK /\ Placed /\ Alive
  BY InitType DEF Init
<1>2. TypeOK /\ Placed /\ Alive /\ [Next]_vars => (TypeOK /\ Placed /\ Alive)'
  BY StepType, AliveStep
<1>3. Alive => BackgroundIsAlive
  BY DEF BackgroundIsAlive, SettledBy, Settler
<1> QED BY <1>1, <1>2, <1>3, PTL DEF Spec

-----------------------------------------------------------------------------
(* The exact Stop.  resumeStream writes the run id of a session whatever its    *)
(* latest send is, so that a session it re-attaches to keeps less than another. *)

\* The run id of a session is that of its latest send, ...
RunOK(s) == runId[s] # None => runId[s] = gen[s] /\ pc[gen[s]] \in {"reading", "closing", "done"}

\* ... and is known once the answer of its POST is there.
KnownOK(s) ==
    (/\ gen[s] # None /\ pc[gen[s]] \in {"reading", "closing", "done"}
     /\ run[gen[s]] = "running" /\ gen[s] \notin cut) => runId[s] = gen[s]

\* A Stop without a run id waits in the queue of its own send; once the run can be
\* named it is on its way.
StopOK(k) ==
    /\ sess[k] # None => gen[sess[k]] # None
    /\ pend[k] # "none" => k \in asked \cup timedOut
    /\ k \in asked => sess[k] # None
    /\ sess[k] \notin Resumable =>
          /\ k \in asked /\ pc[k] \in {"prep", "posted"} => pend[k] # "none"
          /\ k \in asked \ cut /\ run[k] = "running" /\ pc[k] # "posted" => k \in stops

StopInv == /\ StopsAreExact
           /\ \A s \in Sessions \ Resumable : RunOK(s) /\ KnownOK(s)
           /\ \A k \in Sends : StopOK(k)

\* A call of resumeStream is for a session that is re-attached to.
CallsOK == \A i \in Attempts : att[i].at # "idle" => att[i].s \in Resumable

LEMMA CallsStep ==
    ASSUME TypeOK, CallsOK, [Next]_vars
    PROVE  CallsOK'
<1> USE DEF pageVars, mapVars, sendVars, netVars, histVars
<1>1. CASE UNCHANGED att
  BY <1>1 DEF CallsOK
<1>2. ASSUME NEW s \in Resumable, NEW how, Call(s, how) PROVE CallsOK'
  BY <1>2 DEF Call, CallsOK, TypeOK
<1>3. ASSUME NEW k \in Sends, Breaks(k) PROVE CallsOK'
  <2>1. UNCHANGED att \/ Recovers(k)
    BY <1>3 DEF Breaks
  <2>2. UNCHANGED att \/ (sess[k] \in Resumable /\ Call(sess[k], "retry"))
    BY <2>1 DEF Recovers
  <2> QED BY <2>2, <1>1, <1>2
<1>4. CASE Arrive
  <2>1. UNCHANGED att \/ (viewed \in Resumable /\ Call(viewed, "due"))
    BY <1>4 DEF Arrive
  <2> QED BY <2>1, <1>1, <1>2
<1>5. ASSUME NEW i \in Attempts, Resume(i) \/ ResumeAnswer(i) \/ ResumeOpens(i) \/ ResumeEnds(i)
      PROVE  CallsOK'
  <2>1. /\ att[i].at # "idle"
        /\ Drop(i) \/ \E at, r : Attempt(i, at, att[i].s, r)
    BY <1>5 DEF Resume, ResumeAnswer, ResumeOpens, ResumeEnds
  <2> QED BY <2>1 DEF Drop, Attempt, NoAtt, CallsOK, TypeOK
<1>6. ASSUME NEW k \in Sends,
             \/ Submit(k) \/ Withdraw(k) \/ Throws(k) \/ Closes(k) \/ Commit(k) \/ Superseded(k) \/ Post(k) \/ Headers(k)
             \/ Refused(k) \/ Finished(k) \/ AbortSeen(k) \/ PrepFails(k) \/ Timeout(k)
             \/ GraceEnds(k) \/ GoesBackground(k) \/ ServerStep(k) \/ PostLost(k)
      PROVE  UNCHANGED att
  BY <1>6 DEF Submit, Withdraw, Throws, Closes, Commit, Superseded, Post, Headers, Refused, Finished, AbortSeen,
      PrepFails, Timeout, GraceEnds, GoesBackground, ServerStep, ServerStarts, ServerEnds, ServerStops,
      PostLost, Serve
<1>7. ASSUME Stop \/ CancelKey \/ TabRecovery \/ PollEnds \/ ProbeAsks \/ ProbeAnswer \/ ProbeGone
             \/ (\E s \in Sessions : Select(s)) \/ UNCHANGED vars
      PROVE  UNCHANGED att
  BY <1>7 DEF Stop, CancelKey, TabRecovery, PollEnds, ProbeAsks, ProbeAnswer, ProbeGone, Unlock,
      Select, vars
<1> QED BY <1>1, <1>3, <1>4, <1>5, <1>6, <1>7 DEF Next, SendStep, Fault

\* A Stop stays exact; a new one has to be.
LEMMA ExactKept ==
    ASSUME TypeOK, StopsAreExact, asked \subseteq asked', timedOut \subseteq timedOut',
           \A k \in Sends : sess[k] # None => sess'[k] = sess[k],
           \A k \in stops' : \/ k \in stops \cup asked' \cup timedOut'
                             \/ \E j \in asked' \cup timedOut' :
                                    sess'[k] \in Resumable /\ sess'[j] = sess'[k]
    PROVE  StopsAreExact'
<1> SUFFICES ASSUME NEW k \in stops', k \in stops, k \notin asked' \cup timedOut'
             PROVE  \E j \in asked' \cup timedOut' : sess'[k] \in Resumable /\ sess'[j] = sess'[k]
  BY DEF StopsAreExact
<1>1. PICK j \in asked \cup timedOut : sess[k] \in Resumable /\ sess[j] = sess[k]
  BY DEF StopsAreExact
<1>2. sess[k] # None /\ k \in Sends /\ j \in Sends
  BY <1>1, ChatAssumption DEF TypeOK
<1> QED BY <1>1, <1>2

\* A step that moves neither maps, nor Stops, nor runs, nor sends on.
LEMMA StopFrame ==
    ASSUME TypeOK, Placed, StopInv,
           UNCHANGED <<gen, runId, sess, pend, run, stops, asked>>,
           timedOut \subseteq timedOut', cut \subseteq cut',
           \A j \in Sends : pc'[j] = pc[j] \/ {pc[j], pc'[j]} \subseteq {"new", "gate", "thrown"}
    PROVE  StopInv'
<1>3. StopsAreExact'
  BY DEF StopInv, StopsAreExact
<1>4. ASSUME NEW s \in Sessions \ Resumable PROVE RunOK(s)' /\ KnownOK(s)'
  BY <1>4 DEF StopInv, RunOK, KnownOK, TypeOK
<1>5. ASSUME NEW k \in Sends PROVE StopOK(k)'
  BY <1>5 DEF StopInv, StopOK, TypeOK, Placed, SendOK
<1> QED BY <1>3, <1>4, <1>5 DEF StopInv

\* A step that ends a send which has a run only if it was read, or its POST cut.
LEMMA StopFinally ==
    ASSUME TypeOK, Placed, StopInv, NEW k \in Sends, NEW other, Finally(k, other),
           pc[k] \in Live, UNCHANGED <<run, stops, asked>>, cut \subseteq cut',
           pc[k] = "posted" => run[k] \in {"none", "refused", "over"} \/ k \in cut'
    PROVE  StopInv'
<1>1. /\ UNCHANGED <<gen, runId, sess, timedOut>>
      /\ pc' = [pc EXCEPT ![k] = "done"] /\ pend' = [pend EXCEPT ![k] = "none"]
  BY DEF Finally
<1>2. pc[k] = "prep" => run[k] = "none"
  BY DEF Placed, SendOK
<1>3. StopsAreExact'
  BY <1>1 DEF StopInv, StopsAreExact
<1>4. ASSUME NEW s \in Sessions \ Resumable PROVE RunOK(s)'
  BY <1>1 DEF StopInv, RunOK, TypeOK
<1>5. ASSUME NEW s \in Sessions \ Resumable PROVE KnownOK(s)'
  BY <1>1, <1>2 DEF StopInv, KnownOK, TypeOK, Live
<1>6. ASSUME NEW j \in Sends PROVE StopOK(j)'
  BY <1>1, <1>2 DEF StopInv, StopOK, TypeOK, Live
<1> QED BY <1>3, <1>4, <1>5, <1>6 DEF StopInv

LEMMA StopStep ==
    ASSUME TypeOK, Placed, CallsOK, StopInv, [Next]_vars
    PROVE  StopInv'
<1> USE DEF pageVars, mapVars, sendVars, netVars, histVars
<1>1. ASSUME NEW k \in Sends, Submit(k) \/ Withdraw(k) \/ Throws(k) PROVE StopInv'
  <2>1. /\ UNCHANGED <<gen, runId, sess, pend, run, stops, asked, timedOut, cut>>
        /\ \A j \in Sends : pc'[j] = pc[j] \/ {pc[j], pc'[j]} \subseteq {"new", "gate", "thrown"}
    BY <1>1 DEF Submit, Withdraw, Throws, TypeOK
  <2> QED BY <2>1, StopFrame
<1>2. ASSUME UNCHANGED <<gen, runId, sess, pend, run, stops, asked, pc>>,
             timedOut \subseteq timedOut', cut \subseteq cut'
      PROVE  StopInv'
  BY <1>2, StopFrame
<1>3. ASSUME NEW k \in Sends, Commit(k) PROVE StopInv'
  <2>1. /\ k # None /\ sess[k] = None /\ pc[k] = "gate" /\ run[k] = "none" /\ k \notin asked
        /\ UNCHANGED <<run, stops, asked, timedOut, cut, pend>> /\ viewed \in Sessions
    BY <1>3 DEF Commit, TypeOK, Placed, SendOK, StopInv, StopOK, Sends, None
  <2>2. /\ pc' = [pc EXCEPT ![k] = "prep"] /\ sess' = [sess EXCEPT ![k] = viewed]
        /\ gen' = [gen EXCEPT ![viewed] = k] /\ runId' = [runId EXCEPT ![viewed] = None]
    BY <1>3 DEF Commit, TakeOver
  <2>3. \A s \in Sessions : gen[s] # k
    BY <2>1, ChatAssumption DEF TypeOK
  <2>4. StopsAreExact'
    BY <2>1, <2>2, ExactKept DEF StopInv, TypeOK
  <2>5. ASSUME NEW s \in Sessions \ Resumable PROVE RunOK(s)' /\ KnownOK(s)'
    BY <2>1, <2>2, <2>3 DEF StopInv, RunOK, KnownOK, TypeOK
  <2>6. ASSUME NEW j \in Sends PROVE StopOK(j)'
    BY <2>1, <2>2, ChatAssumption DEF StopInv, StopOK, TypeOK
  <2> QED BY <2>4, <2>5, <2>6 DEF StopInv
<1>4. ASSUME NEW k \in Sends, Post(k) PROVE StopInv'
  <2>1. /\ pc[k] = "prep" /\ pc' = [pc EXCEPT ![k] = "posted"] /\ run[k] = "none"
        /\ UNCHANGED <<gen, runId, sess, pend, run, stops, asked, timedOut, cut>>
    BY <1>4 DEF Post, Placed, SendOK
  <2>2. StopsAreExact'
    BY <2>1 DEF StopInv, StopsAreExact
  <2>3. ASSUME NEW s \in Sessions \ Resumable PROVE RunOK(s)' /\ KnownOK(s)'
    BY <2>1 DEF StopInv, RunOK, KnownOK, TypeOK
  <2>4. ASSUME NEW j \in Sends PROVE StopOK(j)'
    BY <2>1 DEF StopInv, StopOK, TypeOK
  <2> QED BY <2>2, <2>3, <2>4 DEF StopInv
<1>5. ASSUME NEW k \in Sends, Headers(k) PROVE StopInv'
  <2>1. /\ pc[k] = "posted" /\ pc' = [pc EXCEPT ![k] = "reading"] /\ sess[k] \in Sessions
        /\ runId' = [runId EXCEPT ![sess[k]] = IF Owns(k) THEN k ELSE @]
        /\ stops' = IF pend[k] # "none" THEN stops \cup {k} ELSE stops
        /\ pend' = [pend EXCEPT ![k] = "none"]
        /\ UNCHANGED <<gen, sess, run, asked, timedOut, cut>>
    BY <1>5 DEF Headers, StopIsDue, TypeOK, Placed, SendOK
  <2>2. StopsAreExact'
    BY <2>1, ExactKept DEF StopInv, StopOK
  <2>3. ASSUME NEW s \in Sessions \ Resumable PROVE RunOK(s)'
    BY <2>1 DEF StopInv, RunOK, TypeOK, Owns
  <2>4. ASSUME NEW s \in Sessions \ Resumable PROVE KnownOK(s)'
    BY <2>1 DEF StopInv, RunOK, KnownOK, TypeOK, Owns
  <2>5. ASSUME NEW j \in Sends PROVE StopOK(j)'
    BY <2>1 DEF StopInv, StopOK, TypeOK
  <2> QED BY <2>2, <2>3, <2>4, <2>5 DEF StopInv
<1>6. ASSUME NEW k \in Sends, Timeout(k) PROVE StopInv'
  <2>1. /\ pc[k] \in Fetching /\ sess[k] \in Sessions
        /\ timedOut' = timedOut \cup {k} /\ cut \subseteq cut'
        /\ UNCHANGED <<gen, runId, sess, run, asked, pc>>
    BY <1>6 DEF Timeout, Abort, TypeOK, Placed, SendOK
  <2>2. /\ stops \subseteq stops'
        /\ \A j \in Sends : j # k => pend'[j] = pend[j]
        /\ pend[k] # "none" => pend'[k] # "none"
        /\ \A j \in stops' \ stops : sess[j] = sess[k] /\ (j = k \/ sess[k] \in Resumable)
    <3>1. CASE Owns(k)
      <4>1. gen[sess[k]] = k /\ StopExactRun(sess[k], k) /\ k # None
        BY <1>6, <3>1 DEF Timeout, Owns, Sends, None
      <4>2. runId[sess[k]] # None =>
               /\ sess[runId[sess[k]]] = sess[k]
               /\ runId[sess[k]] = k \/ sess[k] \in Resumable
        BY <2>1, <4>1 DEF StopInv, RunOK, TypeOK
      <4> QED BY <4>1, <4>2 DEF StopExactRun, TypeOK
    <3>2. CASE ~Owns(k)
      BY <1>6, <3>2 DEF Timeout
    <3> QED BY <3>1, <3>2
  <2>3. StopsAreExact'
    BY <2>1, <2>2, ExactKept DEF StopInv, TypeOK
  <2>4. ASSUME NEW s \in Sessions \ Resumable PROVE RunOK(s)' /\ KnownOK(s)'
    BY <2>1 DEF StopInv, RunOK, KnownOK
  <2>5. ASSUME NEW j \in Sends PROVE StopOK(j)'
    BY <2>1, <2>2 DEF StopInv, StopOK
  <2> QED BY <2>3, <2>4, <2>5 DEF StopInv
<1>7. CASE Stop
  <2> DEFINE g == gen[viewed]
  <2>1. /\ viewed \in Sessions /\ g \in {None} \cup Sends /\ (g # None => sess[g] = viewed)
        /\ StopExactRun(viewed, Controller(viewed)) /\ cut \subseteq cut'
        /\ asked' = IF g = None THEN asked ELSE asked \cup {g}
        /\ UNCHANGED <<gen, runId, sess, run, pc, timedOut>>
    BY <1>7 DEF Stop, Abort, TypeOK
  <2>2. CASE runId[viewed] # None
    <3> DEFINE r == runId[viewed]
    <3>1. /\ g # None /\ stops' = stops \cup {r} /\ pend' = pend /\ r \in Sends /\ sess[r] = viewed
          /\ viewed \in Resumable \/ (r = g /\ pc[g] \in {"reading", "closing", "done"})
      <4>1. stops' = stops \cup {r} /\ pend' = pend
        BY <2>1, <2>2 DEF StopExactRun
      <4>2. r \in Sends /\ sess[r] = viewed
        BY <2>1, <2>2 DEF TypeOK
      <4>3. g # None
        BY <2>1, <4>2, ChatAssumption DEF StopInv, StopOK
      <4>4. viewed \in Resumable \/ (r = g /\ pc[g] \in {"reading", "closing", "done"})
        BY <2>1, <2>2 DEF StopInv, RunOK
      <4> QED BY <4>1, <4>2, <4>3, <4>4
    <3>2. StopsAreExact'
      BY <2>1, <3>1, ExactKept DEF StopInv, TypeOK
    <3>3. ASSUME NEW s \in Sessions \ Resumable PROVE RunOK(s)' /\ KnownOK(s)'
      BY <2>1 DEF StopInv, RunOK, KnownOK
    <3>4. ASSUME NEW j \in Sends PROVE StopOK(j)'
      BY <2>1, <3>1, ChatAssumption DEF StopInv, StopOK
    <3> QED BY <3>2, <3>3, <3>4 DEF StopInv
  <2>3. CASE runId[viewed] = None
    <3>1. /\ stops' = stops
          /\ \A j \in Sends : j # g => pend'[j] = pend[j]
          /\ g # None => pend'[g] # "none"
      <4>1. g = None => pend' = pend /\ stops' = stops
        BY <2>1, <2>3 DEF StopExactRun
      <4>2. ASSUME g # None
            PROVE  /\ stops' = stops /\ (\A j \in Sends : j # g => pend'[j] = pend[j])
                   /\ pend'[g] # "none"
        BY <2>1, <2>3, <4>2 DEF StopExactRun, TypeOK
      <4> QED BY <4>1, <4>2
    <3>2. g # None /\ viewed \notin Resumable => ~(pc[g] \in {"reading", "closing", "done"} /\ run[g] = "running" /\ g \notin cut)
      BY <2>1, <2>3 DEF StopInv, KnownOK
    <3>3. StopsAreExact'
      BY <2>1, <3>1 DEF StopInv, StopsAreExact
    <3>4. ASSUME NEW s \in Sessions \ Resumable PROVE RunOK(s)' /\ KnownOK(s)'
      BY <2>1 DEF StopInv, RunOK, KnownOK
    <3>5. ASSUME NEW j \in Sends PROVE StopOK(j)'
      <4>1. CASE j # g
        BY <2>1, <3>1, <4>1 DEF StopInv, StopOK
      <4>2. CASE j = g
        <5>1. g # None /\ sess[g] \in Sessions /\ pc[g] \notin {"new", "gate", "thrown"}
          BY <2>1, <4>2, ChatAssumption DEF Placed, SendOK, Sends, None
        <5>2. run[g] = "running" => pc[g] \in {"posted", "reading", "closing", "done"}
          BY <2>1, <5>1 DEF Placed, SendOK
        <5>3. gen[sess[g]] # None
          BY <5>1, <4>2, ChatAssumption DEF StopInv, StopOK
        <5> QED BY <2>1, <3>1, <3>2, <4>2, <5>1, <5>2, <5>3, ChatAssumption DEF StopOK
      <4> QED BY <4>1, <4>2
    <3> QED BY <3>3, <3>4, <3>5 DEF StopInv
  <2> QED BY <2>2, <2>3
<1>8. ASSUME NEW k \in Sends, PrepFails(k) \/ Superseded(k) \/ Refused(k) \/ Closes(k)
                              \/ Breaks(k) \/ AbortSeen(k)
      PROVE  StopInv'
  <2>1. PICK other : Finally(k, other)
    BY <1>8 DEF PrepFails, Superseded, Refused, Closes, Breaks, AbortSeen
  <2>2. /\ pc[k] \in Live /\ UNCHANGED <<run, stops, asked>> /\ cut \subseteq cut'
        /\ pc[k] = "posted" => run[k] \in {"none", "refused", "over"} \/ k \in cut'
    BY <1>8 DEF PrepFails, Superseded, Refused, Closes, Breaks, AbortSeen, Live, Placed, SendOK
  <2> QED BY <2>1, <2>2, StopFinally
<1>9. ASSUME NEW k \in Sends, ServerStarts(k) PROVE StopInv'
  <2>1. /\ run[k] = "none" /\ (pc[k] = "posted" \/ (pc[k] = "done" /\ k \in cut))
        /\ \A j \in Sends : j # k => (run'[j] = "running" => run[j] = "running")
        /\ UNCHANGED <<gen, runId, sess, pend, pc, stops, asked, timedOut, cut>>
    BY <1>9 DEF ServerStarts, Serve, TypeOK, Placed, SendOK
  <2>2. StopsAreExact'
    BY <2>1 DEF StopInv, StopsAreExact
  <2>3. ASSUME NEW s \in Sessions \ Resumable PROVE RunOK(s)' /\ KnownOK(s)'
    BY <2>1 DEF StopInv, RunOK, KnownOK, TypeOK
  <2>4. ASSUME NEW j \in Sends PROVE StopOK(j)'
    BY <2>1 DEF StopInv, StopOK
  <2> QED BY <2>2, <2>3, <2>4 DEF StopInv
<1>10. ASSUME NEW k \in Sends, PostLost(k) \/ ServerEnds(k) \/ ServerStops(k) PROVE StopInv'
  <2>1. /\ \A j \in Sends : run'[j] = "running" => run[j] = "running"
        /\ stops' \subseteq stops
        /\ \A j \in stops : j \notin stops' => run'[j] # "running"
        /\ UNCHANGED <<gen, runId, sess, pend, pc, asked, timedOut, cut>>
    BY <1>10 DEF PostLost, ServerEnds, ServerStops, Serve, TypeOK
  <2>2. StopsAreExact'
    BY <2>1 DEF StopInv, StopsAreExact
  <2>3. ASSUME NEW s \in Sessions \ Resumable PROVE RunOK(s)' /\ KnownOK(s)'
    BY <2>1 DEF StopInv, RunOK, KnownOK, TypeOK
  <2>4. ASSUME NEW j \in Sends PROVE StopOK(j)'
    BY <2>1 DEF StopInv, StopOK
  <2> QED BY <2>2, <2>3, <2>4 DEF StopInv
<1>11. ASSUME NEW k \in Sends, GraceEnds(k) \/ GoesBackground(k) PROVE StopInv'
  <2>1. UNCHANGED <<gen, runId, sess, pend, run, stops, asked, pc, timedOut>> /\ cut \subseteq cut'
    BY <1>11 DEF GraceEnds, GoesBackground, Abort
  <2> QED BY <2>1, <1>2
<1>12. ASSUME CancelKey \/ TabRecovery \/ Arrive \/ PollEnds \/ ProbeAsks \/ ProbeAnswer \/ ProbeGone
       PROVE  StopInv'
  <2>1. UNCHANGED <<gen, runId, sess, pend, run, stops, asked, pc, timedOut>> /\ cut \subseteq cut'
    BY <1>12 DEF CancelKey, TabRecovery, Arrive, PollEnds, Open, ProbeAsks, ProbeAnswer, ProbeGone,
                 Unlock, Abort
  <2> QED BY <2>1, <1>2
<1>13. ASSUME NEW s \in Sessions, Select(s) PROVE StopInv'
  <2>1. UNCHANGED <<gen, runId, sess, pend, run, stops, asked, pc, timedOut>> /\ cut \subseteq cut'
    BY <1>13 DEF Select, Open, Abort
  <2> QED BY <2>1, <1>2
<1>14. CASE UNCHANGED vars
  BY <1>2, <1>14 DEF vars
<1>15. ASSUME NEW i \in Attempts, Resume(i) \/ ResumeAnswer(i) \/ ResumeEnds(i) PROVE StopInv'
  <2>1. UNCHANGED <<gen, runId, sess, pend, run, stops, asked, pc, timedOut>> /\ cut \subseteq cut'
    BY <1>15 DEF Resume, ResumeAnswer, ResumeEnds, Open, Abort
  <2> QED BY <2>1, <1>2
<1>16. ASSUME NEW i \in Attempts, ResumeOpens(i) PROVE StopInv'
  <2>1. /\ att[i].s \in Resumable /\ runId' = [runId EXCEPT ![att[i].s] = att[i].r]
        /\ UNCHANGED <<gen, sess, pend, run, stops, asked, pc, timedOut, cut>>
    BY <1>16 DEF ResumeOpens, CallsOK
  <2>2. StopsAreExact'
    BY <2>1 DEF StopInv, StopsAreExact
  <2>3. ASSUME NEW s \in Sessions \ Resumable PROVE RunOK(s)' /\ KnownOK(s)'
    BY <2>1 DEF StopInv, RunOK, KnownOK, TypeOK
  <2>4. ASSUME NEW j \in Sends PROVE StopOK(j)'
    BY <2>1 DEF StopInv, StopOK
  <2> QED BY <2>2, <2>3, <2>4 DEF StopInv
<1>17. ASSUME NEW k \in Sends, Finished(k) PROVE StopInv'
  <2>1. /\ pc[k] = "reading" /\ pc' = [pc EXCEPT ![k] = "closing"]
        /\ UNCHANGED <<gen, runId, sess, pend, run, stops, asked, timedOut, cut>>
    BY <1>17 DEF Finished
  <2>2. StopsAreExact'
    BY <2>1 DEF StopInv, StopsAreExact
  <2>3. ASSUME NEW s \in Sessions \ Resumable PROVE RunOK(s)' /\ KnownOK(s)'
    BY <2>1 DEF StopInv, RunOK, KnownOK, TypeOK
  <2>4. ASSUME NEW j \in Sends PROVE StopOK(j)'
    BY <2>1 DEF StopInv, StopOK, TypeOK
  <2> QED BY <2>2, <2>3, <2>4 DEF StopInv
<1> QED BY <1>1, <1>3, <1>4, <1>5, <1>6, <1>7, <1>8, <1>9, <1>10, <1>11, <1>12, <1>13, <1>14,
           <1>15, <1>16, <1>17
        DEF Next, SendStep, ServerStep, Fault

LEMMA StopInit == Init => CallsOK /\ StopInv
<1> SUFFICES ASSUME Init PROVE CallsOK /\ StopInv
  OBVIOUS
<1>0. CallsOK
  BY DEF Init, NoAtt, CallsOK
<1>1. StopsAreExact
  BY DEF Init, StopsAreExact
<1>2. ASSUME NEW s \in Sessions \ Resumable PROVE RunOK(s) /\ KnownOK(s)
  BY <1>2 DEF Init, RunOK, KnownOK
<1>3. ASSUME NEW k \in Sends PROVE StopOK(k)
  BY <1>3 DEF Init, StopOK
<1> QED BY <1>0, <1>1, <1>2, <1>3 DEF StopInv

\* A Stop on its way names a run whose own send the user stopped or which timed out,
\* never the run of an earlier or a later send; in a session that resumeStream
\* re-attaches to, it names at least a run of the session that was stopped.
THEOREM StopIsExact == Spec => []StopsAreExact
<1>1. Init => TypeOK /\ Placed /\ CallsOK /\ StopInv
  BY InitType, StopInit
<1>2. TypeOK /\ Placed /\ CallsOK /\ StopInv /\ [Next]_vars
      => (TypeOK /\ Placed /\ CallsOK /\ StopInv)'
  BY StepType, CallsStep, StopStep
<1>3. StopInv => StopsAreExact
  BY DEF StopInv
<1> QED BY <1>1, <1>2, <1>3, PTL DEF Spec

\* In a session that is not re-attached to, whatever happens to the others, a Stop the
\* user asked for is never forgotten: the run it is for runs on only while the Stop travels, or waits for the answer of a POST that is
\* alive; only a POST that was cut can escape it.
THEOREM StopIsKept == Spec => []StopNotLost
<1>1. Init => TypeOK /\ Placed /\ CallsOK /\ StopInv
  BY InitType, StopInit
<1>2. TypeOK /\ Placed /\ CallsOK /\ StopInv /\ [Next]_vars
      => (TypeOK /\ Placed /\ CallsOK /\ StopInv)'
  BY StepType, CallsStep, StopStep
<1>3. TypeOK /\ StopInv => StopNotLost
  BY DEF TypeOK, StopInv, StopOK, StopNotLost
<1> QED BY <1>1, <1>2, <1>3, PTL DEF Spec

-----------------------------------------------------------------------------
(* The contract of the server.  Only its own steps start or end a run, and a     *)
(* send has its session for good before it has a run.                            *)

\* The runs of the server, as the contract has them: those of the POSTs it accepted.
Server == INSTANCE SessionRuns WITH
    Runs <- Sends,
    home <- [k \in Sends |-> IF run[k] \in {"running", "over"} THEN sess[k] ELSE None],
    live <- {k \in Sends : run[k] = "running"}

\* The environment this module models does no more than SessionRuns promises.
ServerKeepsContract == Server!Spec

LEMMA PageKeepsRuns ==
    ASSUME TypeOK, Placed, [Next]_vars,
           \A k \in Sends : ~ServerStarts(k) /\ ~ServerEnds(k) /\ ~ServerStops(k)
    PROVE  UNCHANGED run /\ \A k \in Sends : run[k] # "none" => sess'[k] = sess[k]
<1> USE DEF pageVars, mapVars, sendVars, netVars
<1>1. CASE UNCHANGED <<run, sess>>
  BY <1>1
<1>2. ASSUME NEW k \in Sends, Commit(k)
      PROVE  UNCHANGED run /\ \A j \in Sends : run[j] # "none" => sess'[j] = sess[j]
  <2>1. UNCHANGED run /\ sess' = [sess EXCEPT ![k] = viewed] /\ pc[k] = "gate"
    BY <1>2 DEF Commit
  <2>2. run[k] = "none"
    BY <2>1 DEF Placed, SendOK
  <2> QED BY <2>1, <2>2 DEF TypeOK
<1>3. ASSUME NEW k \in Sends,
             \/ Submit(k) \/ Withdraw(k) \/ Throws(k) \/ Post(k) \/ Headers(k) \/ Timeout(k) \/ Finished(k)
             \/ GraceEnds(k) \/ GoesBackground(k) \/ PostLost(k)
      PROVE  UNCHANGED <<run, sess>>
  BY <1>3 DEF Submit, Withdraw, Throws, Finished, Post, Headers, Timeout, GraceEnds, GoesBackground, PostLost, Serve
<1>4. ASSUME NEW k \in Sends,
             \/ Superseded(k) \/ Refused(k) \/ Closes(k) \/ AbortSeen(k) \/ PrepFails(k) \/ Breaks(k)
      PROVE  UNCHANGED <<run, sess>>
  BY <1>4 DEF Superseded, Refused, Closes, AbortSeen, PrepFails, Breaks, Finally
<1>5. ASSUME \/ Stop \/ CancelKey \/ TabRecovery \/ PollEnds \/ ProbeAsks \/ ProbeAnswer \/ ProbeGone
             \/ Arrive \/ (\E s \in Sessions : Select(s)) \/ UNCHANGED vars
      PROVE  UNCHANGED <<run, sess>>
  BY <1>5 DEF Stop, CancelKey, TabRecovery, PollEnds, ProbeAsks, ProbeAnswer, ProbeGone, Unlock,
      Arrive, Select, Open, vars
<1>6. ASSUME NEW i \in Attempts, Resume(i) \/ ResumeAnswer(i) \/ ResumeOpens(i) \/ ResumeEnds(i)
      PROVE  UNCHANGED <<run, sess>>
  BY <1>6 DEF Resume, ResumeAnswer, ResumeOpens, ResumeEnds, Open
<1> QED BY <1>1, <1>2, <1>3, <1>4, <1>5, <1>6 DEF Next, SendStep, ServerStep, Fault

LEMMA ServerKeeps ==
    ASSUME TypeOK, Placed, NEW k \in Sends, ServerStarts(k) \/ ServerEnds(k) \/ ServerStops(k)
    PROVE  Server!Next \/ UNCHANGED (Server!vars)
<1> DEFINE home == [j \in Sends |-> IF run[j] \in {"running", "over"} THEN sess[j] ELSE None]
           live == {j \in Sends : run[j] = "running"}
<1>1. run \in [Sends -> {"none", "running", "over", "refused"}]
  BY DEF TypeOK
<1>2. CASE ServerStarts(k)
  <2>1. run[k] = "none" /\ sess[k] \in Sessions /\ sess' = sess
    BY <1>2 DEF ServerStarts, Serve, sendVars, Placed, SendOK, TypeOK
  <2>2. CASE run' = [run EXCEPT ![k] = "refused"]
    <3>1. home' = home /\ live' = live
      BY <1>1, <2>1, <2>2
    <3> QED BY <3>1 DEF Server!vars
  <2>3. CASE run' = [j \in Sends |-> IF j = k THEN "running"
                                     ELSE IF j \in RunningIn(sess[k]) THEN "over" ELSE run[j]]
    <3>1. PICK s \in Sessions : s = sess[k]
      BY <2>1
    <3>2. home[k] = None
      BY <2>1
    <3>3. home' = [home EXCEPT ![k] = s]
      BY <1>1, <2>1, <2>3, <3>1 DEF RunningIn
    <3>4. live' = {k} \cup {q \in live : home[q] # s}
      BY <1>1, <2>1, <2>3, <3>1 DEF RunningIn
    <3>5. Server!Start(k, s)
      BY <3>2, <3>3, <3>4 DEF Server!Start
    <3> HIDE DEF home, live
    <3> QED BY <3>5, Zenon DEF Server!Next
  <2> QED BY <1>2, <2>2, <2>3 DEF ServerStarts
<1>3. CASE ServerEnds(k) \/ ServerStops(k)
  <2>1. sess' = sess
    BY <1>3 DEF ServerEnds, ServerStops, Serve, sendVars
  <2>2. CASE run' = run
    <3>1. home' = home /\ live' = live
      BY <2>1, <2>2
    <3> QED BY <3>1 DEF Server!vars
  <2>3. CASE run' # run
    <3>1. run[k] = "running" /\ run' = [run EXCEPT ![k] = "over"]
      <4>1. CASE ServerEnds(k)
        BY <4>1 DEF ServerEnds
      <4>2. CASE ServerStops(k)
        BY <1>1, <2>3, <4>2 DEF ServerStops
      <4> QED BY <1>3, <4>1, <4>2
    <3>2. \A j \in Sends : run'[j] = IF j = k THEN "over" ELSE run[j]
      BY <1>1, <3>1
    <3>3. live' = live \ {k} /\ k \in live
      BY <3>1, <3>2
    <3>4. home' = home
      BY <2>1, <3>1, <3>2
    <3>5. Server!EndRun(k)
      BY <3>3, <3>4 DEF Server!EndRun
    <3> HIDE DEF home, live
    <3> QED BY <3>5, Zenon DEF Server!Next
  <2> QED BY <2>2, <2>3
<1> QED BY <1>2, <1>3

\* The server and the network this page is checked against do no more than agent_runs
\* keeps (theorem KeepsTheContract of AgentRunsProofs): one running run per session.
THEOREM ServerIsFaithful == Spec => ServerKeepsContract
<1>1. Init => TypeOK /\ Placed /\ Server!Init
  BY InitType DEF Init, Server!Init
<1>2. TypeOK /\ Placed /\ [Next]_vars => (TypeOK /\ Placed)' /\ [Server!Next]_(Server!vars)
  <2> SUFFICES ASSUME TypeOK, Placed, [Next]_vars
               PROVE  Server!Next \/ UNCHANGED (Server!vars)
    BY StepType
  <2>1. CASE \E k \in Sends : ServerStarts(k) \/ ServerEnds(k) \/ ServerStops(k)
    BY <2>1, ServerKeeps
  <2>2. CASE \A k \in Sends : ~ServerStarts(k) /\ ~ServerEnds(k) /\ ~ServerStops(k)
    <3>1. UNCHANGED run /\ \A k \in Sends : run[k] # "none" => sess'[k] = sess[k]
      BY <2>2, PageKeepsRuns
    <3> QED BY <3>1 DEF Server!vars
  <2> QED BY <2>1, <2>2
<1> QED BY <1>1, <1>2, PTL DEF Spec, ServerKeepsContract, Server!Spec
=============================================================================
