--------------------------- MODULE SessionNavProofs ---------------------------
(* Theorems of SessionNav, for every set of sessions and any number of clicks. *)
EXTENDS SessionNav, TLAPS

-----------------------------------------------------------------------------
(* The shared operators keep the types of what they assign. *)

PageTyped ==
    /\ {current, selected, hash, saved} \subseteq Sessions \cup {None}
    /\ shown \in Sessions \cup {None, "loading", "error"}
NavTyped ==
    /\ nav \in [at : {"idle", "asked", "painting", "failed"}, s : Sessions \cup {None},
                same : BOOLEAN, sender : BOOLEAN, timer : BOOLEAN]
    /\ nav.at = "idle" <=> nav.s = None
    /\ nav.sender => nav.at \in {"asked", "painting"} /\ ~nav.timer /\ "sender" \notin lost
    /\ lost \subseteq {"sender", "other"}
SendTyped ==
    /\ pending \in {"none", "default", "manual"}
    /\ send \in [at : {"idle", "adopting", "gate", "default", "creating", "making", "stuck"},
                 mine : BOOLEAN]
    /\ send.at = "adopting" <=> nav.sender \/ "sender" \in lost
    /\ send.mine => pending # "none"
RestTyped ==
    /\ list \subseteq Sessions
    /\ skip \in BOOLEAN /\ rooted \in BOOLEAN /\ cached \in BOOLEAN /\ late \in BOOLEAN
    /\ answer \subseteq SUBSET Sessions
    /\ picking \in {"idle", "asked", "stale"} /\ opening \in {"idle", "new", "auto"}
    /\ where \in [Sessions -> {"unborn", "live", "dying", "gone"}]
    /\ intent \in Sessions \cup {"start", "asking", "left", "new"}
    /\ clicks \in 0 .. Clicks

LEMMA TypeParts == TypeOK <=> PageTyped /\ NavTyped /\ SendTyped /\ RestTyped
BY DEF TypeOK, PageTyped, NavTyped, SendTyped, RestTyped

USE NavAssumption

\* A send is still waiting for its navigation, in nav or among the lost ones.
Opening == nav.sender \/ "sender" \in lost

LEMMA LeaveTyped ==
    ASSUME TypeOK, Leave
    PROVE  PageTyped' /\ NavTyped' /\ (Opening' <=> Opening)
<1>1. PageTyped'
  BY DEF Leave, Blank, PageTyped
<1>2. NavTyped'
  <2>1. nav' = NoNav /\ lost' \subseteq {"sender", "other"}
    BY DEF Leave, Supersede, TypeOK
  <2>2. QED  BY <2>1 DEF NavTyped, NoNav
<1>3. Opening' <=> Opening
  <2>1. ~nav'.sender
    BY DEF Leave, NoNav
  <2>2. "sender" \in lost' <=> Opening
    BY DEF Leave, Supersede, TypeOK, Opening
  <2>3. QED  BY <2>1, <2>2 DEF Opening
<1>4. QED  BY <1>1, <1>2, <1>3

LEMMA PendTyped ==
    ASSUME TypeOK, NEW source \in {"none", "default", "manual"}, Pend(source), Opening' <=> Opening
    PROVE  SendTyped'
<1>1. /\ pending' = source
      /\ send' \in [at : {"idle", "adopting", "gate", "default", "creating", "making", "stuck"},
                 mine : BOOLEAN]
      /\ send'.at = send.at /\ ~send'.mine
  BY DEF Pend, TypeOK
<1>2. QED  BY <1>1 DEF SendTyped, TypeOK, Opening

\* A new chat, whoever asks for it: the page, the token and the send stay consistent.
LEMMA DirectTyped ==
    ASSUME TypeOK, NEW source \in {"default", "manual"}, Direct(source)
    PROVE  PageTyped' /\ NavTyped' /\ SendTyped' /\ skip' \in BOOLEAN
<1>1. CASE Displaces(source)
  <2>1. Leave /\ Pend(source) /\ skip' = TRUE
    BY <1>1 DEF Direct
  <2>2. QED  BY <2>1, LeaveTyped, PendTyped
<1>2. CASE ~Displaces(source)
  <2>1. UNCHANGED <<pageVars, navVars, pending, send, skip>>
    BY <1>2 DEF Direct
  <2>2. QED  BY <2>1 DEF pageVars, navVars, TypeOK, PageTyped, NavTyped, SendTyped
<1>3. QED  BY <1>1, <1>2

LEMMA EnterTyped ==
    ASSUME TypeOK, NEW s \in Sessions, NEW rows, NEW last \in Sessions \cup {None},
           NEW sender \in BOOLEAN, NEW loading \in BOOLEAN, sender => ~loading /\ ~Opening,
           Enter(s, rows, last, sender, loading)
    PROVE  /\ PageTyped' /\ NavTyped'
           /\ nav'.sender = sender
           /\ "sender" \in lost' <=> Opening
<1>1. PageTyped'
  BY DEF Enter, TypeOK, PageTyped
<1>2. "sender" \in lost' <=> Opening
  BY DEF Enter, Supersede, TypeOK, Opening
<1>3. lost' \subseteq {"sender", "other"}
  BY DEF Enter, Supersede, TypeOK
<1>4. NavTyped' /\ nav'.sender = sender
  BY <1>2, <1>3 DEF Enter, NavTyped
<1>5. QED  BY <1>1, <1>2, <1>4

LEMMA InitTyped == Init => TypeOK
<1> SUFFICES ASSUME Init PROVE TypeOK
  OBVIOUS
<1>1. PageTyped /\ NavTyped /\ SendTyped
  BY DEF Init, NoNav, PageTyped, NavTyped, SendTyped
<1>2. where \in [Sessions -> {"unborn", "live", "dying", "gone"}]
  BY DEF Init
<1>3. clicks \in 0 .. Clicks
  BY DEF Init
<1>4. RestTyped
  BY <1>2, <1>3 DEF Init, RestTyped
<1>5. QED  BY <1>1, <1>4, TypeParts
-----------------------------------------------------------------------------
(* The types are inductive. *)

LEMMA TypedAfter ==
    ASSUME PageTyped', NavTyped', SendTyped', RestTyped'
    PROVE  TypeOK'
BY DEF TypeOK, PageTyped, NavTyped, SendTyped, RestTyped

LEMMA PageKept == ASSUME TypeOK, UNCHANGED pageVars PROVE PageTyped'
BY DEF TypeOK, PageTyped, pageVars
LEMMA NavKept ==
    ASSUME TypeOK, UNCHANGED navVars PROVE NavTyped' /\ (Opening' <=> Opening)
BY DEF TypeOK, NavTyped, navVars, Opening
LEMMA SendKept ==
    ASSUME TypeOK, UNCHANGED <<pending, send>>, Opening' <=> Opening PROVE SendTyped'
BY DEF TypeOK, SendTyped, Opening
LEMMA RestKept ==
    ASSUME TypeOK, UNCHANGED <<listVars, modelVars, where, historyVars>>, clicks' \in 0 .. Clicks
    PROVE  RestTyped'
BY DEF TypeOK, RestTyped, listVars, modelVars, historyVars

LEMMA UserTyped ==
    ASSUME TypeOK, User, clicks < Clicks, clicks' = clicks + 1
    PROVE  TypeOK'
<1> USE DEF modelVars, historyVars
<1>c. clicks' \in 0 .. Clicks
  BY DEF TypeOK
<1>1. ASSUME NEW s \in Sessions, Select(s) PROVE TypeOK'
  <2>1. Enter(s, list, saved, FALSE, TRUE) /\ Pend("none")
    BY <1>1 DEF Select
  <2>2. PageTyped' /\ NavTyped' /\ (Opening' <=> Opening)
    BY <2>1, EnterTyped DEF TypeOK, Opening
  <2>3. SendTyped'
    BY <2>1, <2>2, PendTyped
  <2>4. RestTyped'
    BY <1>1, <1>c DEF Select, listVars, TypeOK, RestTyped
  <2>5. QED  BY <2>2, <2>3, <2>4, TypedAfter
<1>2. ASSUME NEW s \in Sessions, Delete(s) PROVE TypeOK'
  <2>1. PageTyped'
    BY <1>2 DEF Delete, Blank, TypeOK, PageTyped
  <2>2. NavTyped' /\ SendTyped'
    BY <1>2, NavKept, SendKept DEF Delete
  <2>3. where' \in [Sessions -> {"unborn", "live", "dying", "gone"}]
    BY <1>2 DEF Delete, TypeOK
  <2>4. RestTyped'
    BY <1>2, <2>3, <1>c DEF Delete, TypeOK, RestTyped
  <2>5. QED  BY <2>1, <2>2, <2>4, TypedAfter
<1>3. CASE FreshChat
  <2>1. PageTyped' /\ NavTyped' /\ SendTyped'
    BY <1>3, LeaveTyped, SendKept DEF FreshChat
  <2>2. RestTyped'
    BY <1>3, <1>c DEF FreshChat, listVars, TypeOK, RestTyped
  <2>3. QED  BY <2>1, <2>2, TypedAfter
<1>4. CASE NewChat
  <2>1. PageTyped' /\ NavTyped' /\ SendTyped' /\ skip' \in BOOLEAN
    BY <1>4, DirectTyped DEF NewChat, TypeOK
  <2>2. RestTyped'
    BY <1>4, <2>1, <1>c DEF NewChat, TypeOK, RestTyped
  <2>3. QED  BY <2>1, <2>2, TypedAfter
<1>5. CASE NewChatAsks
  <2>1. PageTyped' /\ NavTyped' /\ SendTyped'
    BY <1>5, PageKept, NavKept, SendKept DEF NewChatAsks
  <2>2. RestTyped'
    BY <1>5, <1>c DEF NewChatAsks, listVars, TypeOK, RestTyped
  <2>3. QED  BY <2>1, <2>2, TypedAfter
<1>6. CASE Pick
  <2>1. PageTyped' /\ NavTyped' /\ SendTyped' /\ skip' \in BOOLEAN
    <3>1. CASE current # None
      BY <1>6, <3>1, PageKept, NavKept, SendKept DEF Pick, TypeOK
    <3>2. CASE current = None /\ pending # "none"
      BY <1>6, <3>2, PageKept, NavKept, PendTyped DEF Pick, TypeOK
    <3>3. CASE current = None /\ pending = "none"
      BY <1>6, <3>3, DirectTyped DEF Pick
    <3>4. QED  BY <3>1, <3>2, <3>3
  <2>2. RestTyped'
    BY <1>6, <2>1, <1>c DEF Pick, TypeOK, RestTyped
  <2>3. QED  BY <2>1, <2>2, TypedAfter
<1>7. CASE Send
  <2>1. RestTyped'
    BY <1>7, <1>c, RestKept DEF Send
  <2>2. CASE Enter(Adoptable, list, saved, TRUE, FALSE) /\ Gate("adopting") /\ Adoptable # None
    <3>1. Adoptable \in Sessions
      BY <2>2 DEF Adoptable, TypeOK
    <3>2. ~Opening
      BY <1>7 DEF Send, TypeOK, Opening
    <3>3. PageTyped' /\ NavTyped' /\ nav'.sender
      BY <2>2, <3>1, <3>2, EnterTyped DEF TypeOK
    <3>4. SendTyped'
      BY <1>7, <2>2, <3>3 DEF Send, Gate, TypeOK, SendTyped
    <3>5. QED  BY <2>1, <3>3, <3>4, TypedAfter
  <2>3. CASE Gate("gate") /\ UNCHANGED <<pageVars, navVars>>
    <3>1. ~Opening
      BY <1>7 DEF Send, TypeOK, Opening
    <3>2. SendTyped'
      BY <1>7, <2>3, <3>1, NavKept DEF Send, Gate, TypeOK, SendTyped, Opening
    <3>3. QED  BY <2>1, <2>3, <3>2, PageKept, NavKept, TypedAfter
  <2>4. QED  BY <1>7, <2>2, <2>3 DEF Send
<1>8. QED  BY <1>1, <1>2, <1>3, <1>4, <1>5, <1>6, <1>7 DEF User

LEMMA PassTyped ==
    ASSUME TypeOK, PassGate, UNCHANGED clicks
    PROVE  TypeOK'
<1> USE DEF modelVars, historyVars
<1>1. PageTyped' /\ NavTyped' /\ SendTyped' /\ skip' \in BOOLEAN
  <2>0. ~Opening
    BY DEF PassGate, TypeOK, Opening
  <2>1. CASE pending # "none" /\ send' = [at |-> "creating", mine |-> TRUE]
             /\ UNCHANGED <<pageVars, navVars, pending, skip>>
    <3>1. SendTyped'
      BY <2>0, <2>1, NavKept DEF TypeOK, SendTyped, Opening
    <3>2. QED  BY <2>1, <3>1, PageKept, NavKept DEF TypeOK
  <2>2. CASE /\ pending = "none" /\ Gate(IF current # None THEN "idle" ELSE "default")
             /\ UNCHANGED <<pageVars, navVars, pending, skip>>
    <3>1. SendTyped'
      BY <2>0, <2>2, NavKept DEF Gate, TypeOK, SendTyped, Opening
    <3>2. QED  BY <2>2, <3>1, PageKept, NavKept DEF TypeOK
  <2>3. CASE /\ Leave /\ pending' = "default" /\ skip' = TRUE
             /\ send' = [at |-> "making", mine |-> TRUE]
    <3>1. PageTyped' /\ NavTyped' /\ ~Opening'
      BY <2>0, <2>3, LeaveTyped
    <3>2. SendTyped'
      BY <2>3, <3>1 DEF SendTyped, Opening
    <3>3. QED  BY <2>3, <3>1, <3>2
  <2>4. QED  BY <2>1, <2>2, <2>3 DEF PassGate
<1>2. RestTyped'
  BY <1>1 DEF PassGate, TypeOK, RestTyped
<1>3. QED  BY <1>1, <1>2, TypedAfter

LEMMA SettlesTyped ==
    ASSUME TypeOK, Settles, UNCHANGED clicks
    PROVE  TypeOK'
<1> USE DEF modelVars, historyVars
<1>1. ASSUME NEW n \in Made, CreateAnswers(n) PROVE TypeOK'
  <2>0. ~Opening /\ n \in Sessions
    BY <1>1 DEF CreateAnswers, TypeOK, Opening
  <2>1. NavTyped' /\ ~Opening'
    BY <1>1, <2>0, NavKept DEF CreateAnswers
  <2>2. where' \in [Sessions -> {"unborn", "live", "dying", "gone"}]
    BY <1>1, <2>0 DEF CreateAnswers, TypeOK
  <2>3. CASE send.mine
    <3>1. PageTyped'
      BY <1>1, <2>0, <2>3 DEF CreateAnswers, TypeOK, PageTyped
    <3>2. SendTyped'
      BY <1>1, <2>1, <2>3 DEF CreateAnswers, TypeOK, SendTyped, Opening
    <3>3. RestTyped'
      BY <1>1, <2>0, <2>2, <2>3 DEF CreateAnswers, listVars, TypeOK, RestTyped
    <3>4. QED  BY <2>1, <3>1, <3>2, <3>3, TypedAfter
  <2>4. CASE ~send.mine
    <3>1. PageTyped'
      BY <1>1, <2>4 DEF CreateAnswers, TypeOK, PageTyped
    <3>2. SendTyped'
      BY <1>1, <2>1, <2>4 DEF CreateAnswers, TypeOK, SendTyped, Opening
    <3>3. RestTyped'
      BY <1>1, <2>2, <2>4 DEF CreateAnswers, listVars, TypeOK, RestTyped
    <3>4. QED  BY <2>1, <3>1, <3>2, <3>3, TypedAfter
  <2>5. QED  BY <2>3, <2>4
<1>2. CASE DefaultAnswers
  <2>0. ~Opening
    BY <1>2 DEF DefaultAnswers, TypeOK, Opening
  <2>1. PageTyped' /\ NavTyped' /\ ~Opening' /\ skip' \in BOOLEAN
        /\ pending' \in {"none", "default", "manual"}
    <3>1. CASE Displaces("default")
      BY <1>2, <2>0, <3>1, LeaveTyped DEF DefaultAnswers
    <3>2. CASE ~Displaces("default")
      BY <1>2, <2>0, <3>2, PageKept, NavKept DEF DefaultAnswers, TypeOK
    <3>3. QED  BY <3>1, <3>2
  <2>2. SendTyped'
    BY <1>2, <2>1 DEF DefaultAnswers, Displaces, SendTyped, Opening
  <2>3. RestTyped'
    BY <1>2, <2>1 DEF DefaultAnswers, TypeOK, RestTyped
  <2>4. QED  BY <2>1, <2>2, <2>3, TypedAfter
<1>3. CASE Released \/ Thrown
  <2>1. ~Opening
    BY <1>3 DEF Released, Thrown, TypeOK, Opening
  <2>2. PageTyped' /\ NavTyped' /\ ~Opening'
    BY <1>3, <2>1, PageKept, NavKept DEF Released, Thrown
  <2>3. SendTyped'
    <3>1. send' = [at |-> "idle", mine |-> FALSE] \/ send' = [at |-> "stuck", mine |-> FALSE]
      BY <1>3, Zenon DEF Released, Thrown
    <3>2. pending' = pending
      BY <1>3, Zenon DEF Released, Thrown
    <3>3. ~send'.mine /\ send'.at \in {"idle", "stuck"}
      BY <3>1
    <3>4. send' \in [at : {"idle", "adopting", "gate", "default", "creating", "making", "stuck"},
                     mine : BOOLEAN]
      <4>1. CASE send' = [at |-> "idle", mine |-> FALSE]
        BY <4>1
      <4>2. CASE send' = [at |-> "stuck", mine |-> FALSE]
        BY <4>2
      <4>3. QED  BY <3>1, <4>1, <4>2
    <3>5. pending' \in {"none", "default", "manual"}
      BY <3>2 DEF TypeOK
    <3>6. QED  BY <2>2, <3>3, <3>4, <3>5 DEF SendTyped, Opening
  <2>4. RestTyped'
    BY <1>3, RestKept DEF Released, Thrown, TypeOK
  <2>5. QED  BY <2>2, <2>3, <2>4, TypedAfter
<1>4. QED  BY <1>1, <1>2, <1>3 DEF Settles

\* A call of selectSession that returns lets its send go on, and only its own.
LEMMA ReturnsTyped ==
    ASSUME TypeOK, ~nav'.sender, UNCHANGED <<lost, pending>>, Returns
    PROVE  SendTyped'
<1>1. CASE nav.sender
  BY <1>1 DEF Returns, Gate, TypeOK, SendTyped
<1>2. CASE ~nav.sender
  BY <1>2 DEF Returns, TypeOK, SendTyped
<1>3. QED  BY <1>1, <1>2

LEMMA OpensTyped ==
    ASSUME TypeOK, Opens \/ PaintLoading \/ (\E kind \in {"sender", "other"} : LostEnds(kind)),
           UNCHANGED clicks
    PROVE  TypeOK'
<1>0. RestTyped'
  BY RestKept DEF Opens, HistoryArrives, Paints, HistoryFails, PaintLoading, LostEnds, TypeOK
<1>1. CASE HistoryArrives
  <2>1. PageTyped'
    BY <1>1, PageKept DEF HistoryArrives
  <2>2. NavTyped' /\ SendTyped'
    <3>1. CASE nav' = NoNav /\ Returns
      <4>1. NavTyped'
        BY <1>1, <3>1 DEF HistoryArrives, NoNav, TypeOK, NavTyped
      <4>2. QED  BY <1>1, <3>1, <4>1, ReturnsTyped DEF HistoryArrives, NoNav
    <3>2. CASE nav' = [nav EXCEPT !.at = "painting", !.timer = FALSE] /\ UNCHANGED send
      <4>1. NavTyped' /\ nav'.sender = nav.sender
        BY <1>1, <3>2 DEF HistoryArrives, TypeOK, NavTyped
      <4>2. QED  BY <1>1, <3>2, <4>1 DEF HistoryArrives, TypeOK, SendTyped
    <3>3. QED  BY <1>1, <3>1, <3>2 DEF HistoryArrives
  <2>3. QED  BY <1>0, <2>1, <2>2, TypedAfter
<1>2. CASE Paints
  <2>1. PageTyped'
    BY <1>2 DEF Paints, TypeOK, PageTyped
  <2>2. NavTyped'
    BY <1>2 DEF Paints, NoNav, TypeOK, NavTyped
  <2>3. SendTyped'
    BY <1>2, ReturnsTyped DEF Paints, NoNav
  <2>4. QED  BY <1>0, <2>1, <2>2, <2>3, TypedAfter
<1>3. CASE HistoryFails
  <2>1. PageTyped'
    BY <1>3 DEF HistoryFails, TypeOK, PageTyped
  <2>2. NavTyped' /\ ~nav'.sender
    BY <1>3 DEF HistoryFails, TypeOK, NavTyped
  <2>3. SendTyped'
    BY <1>3, <2>2, ReturnsTyped DEF HistoryFails
  <2>4. QED  BY <1>0, <2>1, <2>2, <2>3, TypedAfter
<1>4. CASE PaintLoading
  <2>1. PageTyped'
    BY <1>4 DEF PaintLoading, TypeOK, PageTyped
  <2>2. NavTyped' /\ (Opening' <=> Opening)
    <3>1. ~nav.sender
      BY <1>4 DEF PaintLoading, TypeOK
    <3>2. QED  BY <1>4, <3>1 DEF PaintLoading, TypeOK, NavTyped, Opening
  <2>3. QED  BY <1>0, <1>4, <2>1, <2>2, SendKept, TypedAfter DEF PaintLoading
<1>5. ASSUME NEW kind \in {"sender", "other"}, LostEnds(kind) PROVE TypeOK'
  <2>1. PageTyped'
    BY <1>5 DEF LostEnds, TypeOK, PageTyped
  <2>2. NavTyped'
    BY <1>5 DEF LostEnds, TypeOK, NavTyped
  <2>3. SendTyped'
    <3>1. CASE kind = "sender"
      BY <1>5, <3>1 DEF LostEnds, Gate, TypeOK, SendTyped
    <3>2. CASE kind = "other"
      BY <1>5, <3>2 DEF LostEnds, TypeOK, SendTyped
    <3>3. QED  BY <3>1, <3>2
  <2>4. QED  BY <1>0, <2>1, <2>2, <2>3, TypedAfter
<1>6. QED  BY <1>1, <1>2, <1>3, <1>4, <1>5 DEF Opens

LEMMA TargetsTyped ==
    ASSUME TypeOK, NEW got \in SUBSET Sessions, NEW root, NEW last,
           NEW s \in Targets(got, root, last), s # None
    PROVE  s \in Sessions /\ pending = "none"
BY DEF Targets, Restored, TypeOK

LEMMA LoadTyped ==
    ASSUME TypeOK, NEW got \in answer, LoadArrives(got), UNCHANGED clicks
    PROVE  TypeOK'
<1> USE DEF modelVars, historyVars
<1> DEFINE root == ~rooted /\ hash = None /\ current = None /\ pending = "none"
           last == IF root \/ saved \in got \cap Transient THEN None ELSE saved
           Stays == saved' = last /\ skip' = FALSE
                    /\ UNCHANGED <<current, selected, hash, shown, navVars>>
<1>1. PICK s \in Targets(got, root, last) :
        \/ /\ s \notin {None, current}
           /\ \E loading \in BOOLEAN : Enter(s, got, last, FALSE, loading)
           /\ Pend("none") /\ skip' = FALSE
           /\ UNCHANGED <<picking, opening>>
        \/ Stays /\ UNCHANGED <<pending, send, picking, opening>>
        \/ /\ pending = "none" /\ Stays /\ Picker
           /\ opening' = IF got = {} /\ opening = "idle" THEN "auto" ELSE opening
           /\ UNCHANGED send
        \/ Direct("default") /\ UNCHANGED <<picking, opening>>
  BY DEF LoadArrives
<1>2. last \in Sessions \cup {None} /\ got \in SUBSET Sessions
  BY DEF TypeOK
<1>3. /\ PageTyped' /\ NavTyped' /\ SendTyped' /\ skip' \in BOOLEAN
      /\ picking' \in {"idle", "asked", "stale"} /\ opening' \in {"idle", "new", "auto"}
  <2>1. CASE /\ s \notin {None, current}
             /\ \E loading \in BOOLEAN : Enter(s, got, last, FALSE, loading)
             /\ Pend("none") /\ skip' = FALSE
             /\ UNCHANGED <<picking, opening>>
    <3>1. s \in Sessions
      BY <1>2, <2>1, TargetsTyped
    <3>2. PICK l \in Sessions \cup {None}, sender \in BOOLEAN, loading \in BOOLEAN :
            ~sender /\ Enter(s, got, l, sender, loading)
      <4>1. PICK l : l = last
        OBVIOUS
      <4>2. PICK loading \in BOOLEAN : Enter(s, got, last, FALSE, loading)
        BY <2>1
      <4>3. PICK sender \in BOOLEAN : sender = FALSE
        OBVIOUS
      <4>4. l \in Sessions \cup {None} /\ ~sender /\ Enter(s, got, l, sender, loading)
        BY ONLY <1>2, <4>1, <4>2, <4>3
      <4>5. QED  BY <4>4
    <3>3. PageTyped' /\ NavTyped' /\ (Opening' <=> Opening)
      <4>1. PageTyped'
        BY <3>1, <3>2 DEF Enter, TypeOK, PageTyped
      <4>2. "sender" \in lost' <=> Opening
        BY <3>1, <3>2 DEF Enter, Supersede, TypeOK, Opening
      <4>3. lost' \subseteq {"sender", "other"}
        BY <3>2 DEF Enter, Supersede, TypeOK
      <4>4. NavTyped' /\ ~nav'.sender
        BY <3>1, <3>2, <4>3 DEF Enter, NavTyped
      <4>5. QED  BY <4>1, <4>2, <4>4 DEF Opening
    <3>4. SendTyped'
      BY <2>1, <3>3, PendTyped
    <3>5. QED  BY <2>1, <3>3, <3>4 DEF TypeOK
  <2>2. CASE Stays
             /\ \/ UNCHANGED <<pending, send, picking, opening>>
                \/ /\ pending = "none" /\ Picker
                   /\ opening' = IF got = {} /\ opening = "idle" THEN "auto" ELSE opening
                   /\ UNCHANGED send
    <3>1. PageTyped' /\ NavTyped' /\ (Opening' <=> Opening)
      BY <1>2, <2>2, NavKept DEF TypeOK, PageTyped
    <3>2. SendTyped'
      BY <2>2, <3>1 DEF Picker, TypeOK, SendTyped, Opening
    <3>3. picking' \in {"idle", "asked", "stale"} /\ opening' \in {"idle", "new", "auto"}
      BY <2>2 DEF Picker, TypeOK
    <3>4. QED  BY <2>2, <3>1, <3>2, <3>3
  <2>3. CASE Direct("default") /\ UNCHANGED <<picking, opening>>
    BY <2>3, DirectTyped DEF TypeOK
  <2>4. QED  BY <1>1, <2>1, <2>2, <2>3
<1>4. RestTyped'
  BY <1>2, <1>3 DEF LoadArrives, TypeOK, RestTyped
<1>5. QED  BY <1>3, <1>4, TypedAfter

LEMMA OtherTyped ==
    ASSUME TypeOK, Other, UNCHANGED clicks
    PROVE  TypeOK'
<1> USE DEF modelVars, historyVars
<1>1. CASE \/ ServerLists \/ LoadFails \/ \E s \in Sessions : DelAnswers(s)
  <2>1. PageTyped' /\ NavTyped' /\ SendTyped'
    BY <1>1, PageKept, NavKept, SendKept DEF ServerLists, LoadFails, DelAnswers
  <2>2. answer' \in SUBSET SUBSET Sessions
    BY <1>1 DEF ServerLists, LoadFails, DelAnswers, listVars, Live, TypeOK
  <2>3. where' \in [Sessions -> {"unborn", "live", "dying", "gone"}]
    BY <1>1 DEF ServerLists, LoadFails, DelAnswers, TypeOK
  <2>4. RestTyped'
    BY <1>1, <2>2, <2>3 DEF ServerLists, LoadFails, DelAnswers, listVars, TypeOK, RestTyped
  <2>5. QED  BY <2>1, <2>4, TypedAfter
<1>2. CASE PickerUpdates
  <2>1. PageTyped' /\ NavTyped' /\ (Opening' <=> Opening)
    BY <1>2, PageKept, NavKept DEF PickerUpdates
  <2>2. SendTyped'
    BY <1>2, <2>1 DEF PickerUpdates, Picker, TypeOK, SendTyped, Opening
  <2>3. RestTyped'
    BY <1>2 DEF PickerUpdates, Picker, listVars, TypeOK, RestTyped
  <2>4. QED  BY <2>1, <2>2, <2>3, TypedAfter
<1>3. CASE PickAnswers
  <2>1. PageTyped' /\ NavTyped' /\ (Opening' <=> Opening)
    BY <1>3, PageKept, NavKept DEF PickAnswers
  <2>2. SendTyped'
    BY <1>3, <2>1, SendKept, PendTyped DEF PickAnswers
  <2>3. RestTyped'
    BY <1>3 DEF PickAnswers, listVars, TypeOK, RestTyped
  <2>4. QED  BY <2>1, <2>2, <2>3, TypedAfter
<1>4. CASE OpeningAnswers
  <2>1. PageTyped' /\ NavTyped' /\ SendTyped' /\ skip' \in BOOLEAN
    <3>1. CASE Direct("default") \/ Direct("manual")
      BY <3>1, DirectTyped
    <3>2. CASE Leave /\ UNCHANGED <<pending, send, skip>>
      BY <3>2, LeaveTyped, SendKept DEF TypeOK
    <3>3. CASE UNCHANGED <<pageVars, navVars, pending, send, skip>>
      BY <3>3, PageKept, NavKept, SendKept DEF TypeOK
    <3>4. QED  BY <1>4, <3>1, <3>2, <3>3 DEF OpeningAnswers
  <2>2. RestTyped'
    BY <1>4, <2>1 DEF OpeningAnswers, TypeOK, RestTyped
  <2>3. QED  BY <2>1, <2>2, TypedAfter
<1>5. QED
  BY <1>1, <1>2, <1>3, <1>4, SettlesTyped, OpensTyped, LoadTyped DEF Other

LEMMA StepTyped == TypeOK /\ [Next]_vars => TypeOK'
<1> SUFFICES ASSUME TypeOK, [Next]_vars PROVE TypeOK'
  OBVIOUS
<1>1. CASE UNCHANGED vars
  BY <1>1 DEF vars, sysVars, pageVars, navVars, listVars, modelVars, historyVars, TypeOK
<1>2. QED  BY <1>1, PassTyped, UserTyped, OtherTyped DEF Next

\* Every variable keeps its type, and a send, its navigation and the pending chat agree
\* about one another (chat.js:393, sessions.js:1850, 2328).
THEOREM NavTypesHold == Spec => []TypeOK
BY InitTyped, StepTyped, PTL DEF Spec

-----------------------------------------------------------------------------
(* The page, the URL and the user agree.  Each of the three invariants uses the one      *)
(* before it.                                                                           *)

\* No session has the name of a state of the page.
LEMMA NewIsNoSession ==
    /\ "start" \notin Sessions /\ "asking" \notin Sessions
    /\ "left" \notin Sessions /\ "new" \notin Sessions
    /\ None \notin Sessions /\ None \notin Transient /\ None \notin Empty
    /\ Transient \subseteq Sessions
BY NavAssumption

LEMMA UrlStep ==
    ASSUME TypeOK, UrlIsCurrent, [Next]_vars
    PROVE  UrlIsCurrent'
<1> USE NewIsNoSession DEF UrlIsCurrent, pageVars, historyVars
<1>1. CASE UNCHANGED vars
  BY <1>1 DEF vars, sysVars
<1>2. CASE PassGate
  BY <1>2 DEF PassGate, Direct, Leave, Blank
<1>3. CASE User
  <2>1. ASSUME NEW s \in Sessions, Select(s) PROVE UrlIsCurrent'
    BY <2>1 DEF Select, Enter
  <2>2. ASSUME NEW s \in Sessions, Delete(s) PROVE UrlIsCurrent'
    BY <2>2 DEF Delete, Blank
  <2>3. CASE FreshChat
    BY <2>3 DEF FreshChat, Leave, Blank
  <2>4. CASE NewChat
    BY <2>4 DEF NewChat, Direct, Displaces, Leave, Blank
  <2>5. CASE NewChatAsks
    BY <2>5 DEF NewChatAsks
  <2>6. CASE Pick
    BY <2>6 DEF Pick, Direct, Displaces, Leave, Blank
  <2>7. CASE Send
    BY <2>7 DEF Send, Enter, Adoptable
  <2>8. QED  BY <1>3, <2>1, <2>2, <2>3, <2>4, <2>5, <2>6, <2>7 DEF User
<1>4. CASE Settles
  BY <1>4 DEF Settles, CreateAnswers, DefaultAnswers, Released, Thrown, Leave, Blank, TypeOK
<1>5. CASE Opens \/ PaintLoading
  <2>1. UNCHANGED <<current, hash, saved, historyVars>>
    BY <1>5 DEF Opens, HistoryArrives, Paints, HistoryFails, PaintLoading
  <2>2. QED  BY <2>1
<1>6. ASSUME NEW kind \in {"sender", "other"}, LostEnds(kind) PROVE UrlIsCurrent'
  BY <1>6 DEF LostEnds
<1>7. CASE ServerLists \/ LoadFails \/ PickerUpdates \/ PickAnswers
  <2>1. UNCHANGED <<current, hash, saved, intent>>
    BY <1>7 DEF ServerLists, LoadFails, PickerUpdates, PickAnswers
  <2>2. late => late'
    <3>1. CASE ServerLists \/ LoadFails
      BY <3>1 DEF ServerLists, LoadFails
    <3>2. CASE PickerUpdates
      BY <3>2 DEF PickerUpdates
    <3>3. CASE PickAnswers
      BY <3>3 DEF PickAnswers
    <3>4. QED  BY <1>7, <3>1, <3>2, <3>3
  <2>3. QED  BY <2>1, <2>2
<1>8. ASSUME NEW s \in Sessions, DelAnswers(s) PROVE UrlIsCurrent'
  BY <1>8 DEF DelAnswers
<1>9. CASE OpeningAnswers
  <2>1. late => late'
    BY <1>9 DEF OpeningAnswers
  <2>2. CASE Leave
    BY <2>2 DEF Leave, Blank
  <2>3. CASE ~Leave
    <3>1. UNCHANGED <<pageVars, pending>> /\ (opening = "auto" \/ pending = "manual")
      BY <1>9, <2>3 DEF OpeningAnswers, Direct, Displaces
    <3>2. UNCHANGED intent
      BY <1>9, <3>1 DEF OpeningAnswers
    <3>3. QED  BY <2>1, <3>1, <3>2
  <2>4. QED  BY <2>2, <2>3
<1>10. ASSUME NEW got \in answer, LoadArrives(got) PROVE UrlIsCurrent'
  BY <1>10 DEF LoadArrives, Enter, Direct, Leave, Blank, TypeOK
<1>11. QED
  BY <1>1, <1>2, <1>3, <1>4, <1>5, <1>6, <1>7, <1>8, <1>9, <1>10 DEF Next, Other

\* The URL and lastSessionId name the session that is current (sessions.js:1866-1882), and
\* none that was left (sessions.js:291): a reload comes back to what the user sees, but for
\* Transient sessions, which the code keeps out of both.
THEOREM UrlFollows == Spec => []UrlIsCurrent
<1>1. Init => UrlIsCurrent
  BY DEF Init, UrlIsCurrent
<1>2. QED  BY <1>1, UrlStep, NavTypesHold, PTL DEF Spec

LEMMA ViewStep ==
    ASSUME TypeOK, UrlIsCurrent, IntendedView, [Next]_vars
    PROVE  IntendedView'
<1> USE NewIsNoSession DEF IntendedView, pageVars, historyVars
<1>1. CASE UNCHANGED vars
  BY <1>1 DEF vars, sysVars
<1>2. CASE PassGate
  BY <1>2 DEF PassGate, Direct, Leave, Blank, Pend
<1>3. CASE User
  <2>1. ASSUME NEW s \in Sessions, Select(s) PROVE IntendedView'
    BY <2>1 DEF Select, Enter, Pend
  <2>2. ASSUME NEW s \in Sessions, Delete(s) PROVE IntendedView'
    BY <2>2 DEF Delete, Blank
  <2>3. CASE FreshChat
    BY <2>3 DEF FreshChat, Leave, Blank
  <2>4. CASE NewChat
    BY <2>4 DEF NewChat, Direct, Displaces, Leave, Blank, Pend
  <2>5. CASE NewChatAsks
    BY <2>5 DEF NewChatAsks
  <2>6. CASE Pick
    BY <2>6 DEF Pick, Direct, Displaces, Leave, Blank, Pend
  <2>7. CASE Send
    BY <2>7 DEF Send, Enter
  <2>8. QED  BY <1>3, <2>1, <2>2, <2>3, <2>4, <2>5, <2>6, <2>7 DEF User
<1>4. CASE Settles
  <2>1. CASE \E n \in Made : CreateAnswers(n)
    \* What is created is for the chat that is pending: no session is current.
    BY <2>1, NavAssumption DEF CreateAnswers, TypeOK
  <2>2. CASE DefaultAnswers
    BY <2>2 DEF DefaultAnswers, Leave, Blank
  <2>3. CASE Released \/ Thrown
    BY <2>3 DEF Released, Thrown
  <2>4. QED  BY <1>4, <2>1, <2>2, <2>3 DEF Settles
<1>5. CASE Opens \/ PaintLoading
  BY <1>5 DEF Opens, HistoryArrives, Paints, HistoryFails, PaintLoading
<1>6. ASSUME NEW kind \in {"sender", "other"}, LostEnds(kind) PROVE IntendedView'
  BY <1>6 DEF LostEnds
<1>7. CASE ServerLists \/ LoadFails \/ PickerUpdates \/ PickAnswers
  BY <1>7 DEF ServerLists, LoadFails, PickerUpdates, PickAnswers, Picker, Pend, TypeOK
<1>8. ASSUME NEW s \in Sessions, DelAnswers(s) PROVE IntendedView'
  BY <1>8 DEF DelAnswers
<1>9. CASE OpeningAnswers
  BY <1>9 DEF OpeningAnswers, Direct, Displaces, Leave, Blank, Pend, TypeOK
<1>10. ASSUME NEW got \in answer, LoadArrives(got) PROVE IntendedView'
  <2>1. got \subseteq Sessions
    BY DEF TypeOK
  <2>2. PICK root, last : \E s \in Targets(got, root, last) :
          \/ /\ s \notin {None, current} /\ current' = s /\ pending' = "none"
             /\ hash' \in {s, hash}
          \/ UNCHANGED <<current, hash, pending>>
          \/ s = None /\ pending = "none" /\ current' \in {None, current} /\ pending' = "default"
          \/ s = None /\ pending = "none" /\ current' \in {None, current} /\ pending' = "none"
    BY <1>10 DEF LoadArrives, Enter, Pend, Picker, Direct, Leave, Blank
  <2>3. UNCHANGED <<intent, late>>
    BY <1>10 DEF LoadArrives
  <2>4. QED
    BY <2>1, <2>2, <2>3 DEF Targets, Restored, UrlIsCurrent, TypeOK
<1>11. QED
  BY <1>1, <1>2, <1>3, <1>4, <1>5, <1>6, <1>7, <1>8, <1>9, <1>10 DEF Next, Other

\* Nobody but the user leaves the session or the new chat the user opened, and no new chat
\* is pending behind a session (sessions.js:1748, 1852, 2325).  What the code does besides
\* is bounded here: a Transient session is left only for the one the URL still names
\* (sessions.js:1754), and a default model that comes late is the only other thief.
THEOREM ViewIsIntended == Spec => []IntendedView
<1>1. Init => IntendedView
  BY NewIsNoSession DEF Init, IntendedView
<1>2. QED  BY <1>1, ViewStep, NavTypesHold, UrlFollows, PTL DEF Spec

LEMMA ScreenStep ==
    ASSUME TypeOK, IntendedView, ScreenIsCurrent, [Next]_vars
    PROVE  ScreenIsCurrent'
<1> USE NewIsNoSession DEF ScreenIsCurrent, pageVars, navVars, historyVars
<1>1. CASE UNCHANGED vars
  BY <1>1 DEF vars, sysVars
<1>2. CASE PassGate
  BY <1>2 DEF PassGate, Direct, Leave, Blank
<1>3. CASE User
  <2>1. ASSUME NEW s \in Sessions, Select(s) PROVE ScreenIsCurrent'
    BY <2>1 DEF Select, Enter
  <2>2. ASSUME NEW s \in Sessions, Delete(s) PROVE ScreenIsCurrent'
    BY <2>2 DEF Delete, Blank
  <2>3. CASE FreshChat
    BY <2>3 DEF FreshChat, Leave, Blank
  <2>4. CASE NewChat
    BY <2>4 DEF NewChat, Direct, Leave, Blank
  <2>5. CASE NewChatAsks
    BY <2>5 DEF NewChatAsks
  <2>6. CASE Pick
    BY <2>6 DEF Pick, Direct, Leave, Blank
  <2>7. CASE Send
    BY <2>7 DEF Send, Enter
  <2>8. QED  BY <1>3, <2>1, <2>2, <2>3, <2>4, <2>5, <2>6, <2>7 DEF User
<1>4. CASE Settles
  <2>1. CASE \E n \in Made : CreateAnswers(n)
    \* The new session takes the place of the welcome screen, not of another's messages.
    BY <2>1, NavAssumption DEF CreateAnswers, IntendedView, TypeOK
  <2>2. CASE DefaultAnswers
    BY <2>2 DEF DefaultAnswers, Leave, Blank
  <2>3. CASE Released \/ Thrown
    BY <2>3 DEF Released, Thrown
  <2>4. QED  BY <1>4, <2>1, <2>2, <2>3 DEF Settles
<1>5. CASE HistoryArrives
  <2>1. UNCHANGED <<current, shown, late>> /\ nav.at = "asked"
    BY <1>5 DEF HistoryArrives
  <2>2. CASE ~Wanted
    \* The session that was current is another: what is on screen was so before.
    BY <2>1, <2>2 DEF Wanted
  <2>3. CASE WouldWipe /\ Wanted
    BY <2>1, <2>3 DEF Wanted, WouldWipe
  <2>4. CASE Wanted /\ ~WouldWipe
    <3>1. nav' = [nav EXCEPT !.at = "painting", !.timer = FALSE]
      BY <1>5, <2>4, Zenon DEF HistoryArrives
    <3>2. nav'.at = "painting" /\ nav'.s = nav.s
      BY <3>1 DEF TypeOK
    <3>3. QED  BY <2>1, <2>4, <3>2 DEF Wanted
  <2>5. QED  BY <2>2, <2>3, <2>4
<1>6. CASE Paints
  BY <1>6 DEF Paints, Wanted
<1>7. CASE HistoryFails
  BY <1>7 DEF HistoryFails, Wanted
<1>8. CASE PaintLoading
  BY <1>8 DEF PaintLoading
<1>9. ASSUME NEW kind \in {"sender", "other"}, LostEnds(kind) PROVE ScreenIsCurrent'
  BY <1>9 DEF LostEnds
<1>10. CASE ServerLists \/ LoadFails \/ PickerUpdates \/ PickAnswers
  BY <1>10 DEF ServerLists, LoadFails, PickerUpdates, PickAnswers
<1>11. ASSUME NEW s \in Sessions, DelAnswers(s) PROVE ScreenIsCurrent'
  BY <1>11 DEF DelAnswers
<1>12. CASE OpeningAnswers
  BY <1>12 DEF OpeningAnswers, Direct, Leave, Blank
<1>13. ASSUME NEW got \in answer, LoadArrives(got) PROVE ScreenIsCurrent'
  BY <1>13 DEF LoadArrives, Enter, Direct, Leave, Blank
<1>14. QED
  BY <1>1, <1>2, <1>3, <1>4, <1>5, <1>6, <1>7, <1>8, <1>9, <1>10, <1>11, <1>12, <1>13
     DEF Next, Other, Opens

\* No messages but those of the current session are on screen (sessions.js:1987, 2027,
\* 2038), unless its history is still coming, or failed where no loading state was painted
\* (sessions.js:2144).
THEOREM ScreenFollows == Spec => []ScreenIsCurrent
<1>1. Init => ScreenIsCurrent
  BY DEF Init, ScreenIsCurrent
<1>2. QED  BY <1>1, ScreenStep, NavTypesHold, ViewIsIntended, PTL DEF Spec
=============================================================================
