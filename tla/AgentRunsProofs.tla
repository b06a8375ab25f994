--------------------------- MODULE AgentRunsProofs ---------------------------
(* Theorems of AgentRuns, for every number of runs, events and clients.       *)
EXTENDS AgentRuns, SequenceTheorems, TLAPS

Statuses == {"running", "done", "error", "stopped"}

-----------------------------------------------------------------------------
(* Runs.  A run that still counts as running has a live drain task, and one   *)
(* that is cancelled before its first instruction no longer counts as running.*)

RunInv ==
    /\ \A r \in Runs : pc[r] = "unborn" <=> r > started
    /\ \A r \in Runs : pc[r] = "unborn" => ~cancel[r] /\ status[r] = "running"
    /\ \A r \in Runs : status[r] = "running"
                       => pc[r] \in {"unborn", "new", "waiting"} \cup Writing
    /\ \A r \in Runs : pc[r] = "new" /\ cancel[r] => status[r] # "running"
    /\ \A r \in Runs : pc[r] # "done" => size[r] <= MaxEvents

-----------------------------------------------------------------------------
(* Queues.  Up to its first sentinel a queue holds consecutive events, n of   *)
(* them from b on; one that holds no sentinel leads to the end of the buffer. *)

Chunk(q, s, b, n) ==
    /\ n \in 0..Len(q) /\ b \in Nat /\ b + n <= s
    /\ \A i \in 1..n : q[i] = b + i - 1
    /\ IF n = Len(q) THEN b + n = s ELSE q[n + 1] = End

\* t is the k events from s on, and a sentinel if w.
Events(t, s, k, w) ==
    /\ Len(t) = IF w THEN k + 1 ELSE k
    /\ \A i \in 1..k : t[i] = s + i - 1
    /\ w => t[k + 1] = End

\* q2 is q followed by t.
Joins(q2, q, t) ==
    /\ Len(q2) = Len(q) + Len(t)
    /\ \A i \in 1..Len(q) + Len(t) : q2[i] = IF i <= Len(q) THEN q[i] ELSE t[i - Len(q)]

\* The chunk of q grew by k events, and a sentinel if w, into the chunk of q2.
Grows(q, q2, s, b, n, k, w) ==
    LET m == IF n = Len(q) THEN n + k ELSE n
    IN  /\ Chunk(q2, s + k, b, m)
        /\ w => m # Len(q2)
        /\ ~w => (m = Len(q2) <=> n = Len(q))

\* What a client that reads has ahead of it: in "live", nothing between what it
\* was sent and its queue, and a sentinel as soon as its run is over.
Ahead(c) ==
    LET r == bound[c] IN
    /\ pos[c] <= size[r]
    /\ cpc[c] = "flush" => status[r] # "running"
    /\ \E b \in 0..size[r], n \in 0..Len(queue[c]) :
          /\ Chunk(queue[c], size[r], b, n)
          /\ status[r] = "running" => n = Len(queue[c])
          /\ cpc[c] = "live" => b <= pos[c] /\ (n = Len(queue[c]) => status[r] = "running")

ClientInv ==
    \A c \in Clients :
        /\ bound[c] = NoRun <=> cpc[c] \in {"idle", "ended"}
        /\ cpc[c] \notin Reading => queue[c] = <<>> /\ pos[c] = 0
        /\ cpc[c] \in Reading => Ahead(c)

IInv == TypeOK /\ RunInv /\ ClientInv

-----------------------------------------------------------------------------
(* What the operators do *)

LEMMA ItemsResult ==
    ASSUME TypeOK, NEW r \in Runs, NEW k \in 0..2, NEW w \in BOOLEAN, size[r] + k <= End
    PROVE  Items(r, k, w) \in Seq(0..End) /\ Events(Items(r, k, w), size[r], k, w)
<1> DEFINE e == [i \in 1..k |-> size[r] + i - 1]
           t == IF w THEN <<End>> ELSE <<>>
<1>0. size[r] \in Nat /\ End \in Nat
  BY RunsAssumption DEF TypeOK, End
<1>1. e \in Seq(0..End) /\ Len(e) = k /\ \A i \in 1..k : e[i] = size[r] + i - 1
  <2>1. e \in [1..k -> 0..End]
    BY <1>0
  <2>2. e \in Seq(0..End)
    BY <2>1, SeqDef
  <2> QED BY <2>1, <2>2, LenProperties
<1>2. t \in Seq(0..End) /\ Len(t) = (IF w THEN 1 ELSE 0) /\ (w => t[1] = End)
  <2>1. CASE w
    BY <1>0, <2>1
  <2>2. CASE ~w
    BY <2>2
  <2> QED BY <2>1, <2>2
<1>3. Items(r, k, w) = e \o t
  BY DEF Items
<1> HIDE DEF e, t
<1> QED BY <1>1, <1>2, <1>3, ConcatProperties DEF Events

\* A chunk followed by the next k events, and a sentinel if w, is a chunk.
LEMMA ChunkGrows ==
    ASSUME NEW s \in Nat, NEW k \in 0..2, NEW w \in BOOLEAN,
           NEW q \in Seq(0..End), NEW b, NEW n, Chunk(q, s, b, n),
           NEW t \in Seq(0..End), Events(t, s, k, w),
           NEW q2 \in Seq(0..End), Joins(q2, q, t)
    PROVE  Grows(q, q2, s, b, n, k, w)
<1> DEFINE m == IF n = Len(q) THEN n + k ELSE n
<1>1. /\ Len(t) = (IF w THEN k + 1 ELSE k)
      /\ \A i \in 1..k : t[i] = s + i - 1
      /\ w => t[k + 1] = End
  BY DEF Events
<1>2. Len(q2) = Len(q) + Len(t) /\ Len(q) \in Nat
  BY LenProperties DEF Joins
<1>3. s \in Nat /\ n \in 0..Len(q) /\ b \in Nat /\ b + n <= s /\ (n = Len(q) => b + n = s)
  BY DEF Chunk
<1>4. /\ \A i \in 1..n : q[i] = b + i - 1
      /\ n # Len(q) => q[n + 1] = End
  BY DEF Chunk
<1>5. \A i \in 1..Len(q) : q2[i] = q[i]
  BY <1>1, <1>2 DEF Joins
<1>6. \A i \in 1..Len(t) : q2[Len(q) + i] = t[i]
  <2>1. ASSUME NEW i \in 1..Len(t)
        PROVE  q2[Len(q) + i] = t[i]
    <3>1. Len(t) \in Nat /\ Len(q) + i \in 1..Len(q) + Len(t) /\ ~(Len(q) + i <= Len(q))
      BY <1>1, <1>2
    <3>2. (Len(q) + i) - Len(q) = i
      BY <1>1, <1>2
    <3> QED BY <3>1, <3>2 DEF Joins
  <2> QED BY <2>1
<1> SUFFICES /\ Chunk(q2, s + k, b, m)
             /\ w => m # Len(q2)
             /\ ~w => (m = Len(q2) <=> n = Len(q))
  BY DEF Grows
<1>7. CASE n = Len(q)
  <2>1. m = Len(q) + k /\ b + m = s + k
    <3>1. m = n + k
      BY <1>7, Zenon
    <3>2. b \in Nat /\ n \in Nat /\ s \in Nat /\ k \in Nat /\ b + n = s
      BY <1>2, <1>3, <1>7
    <3> HIDE DEF m
    <3>3. b + (n + k) = s + k
      BY <3>2
    <3> QED BY <3>1, <3>3, <1>7
  <2>2. \A i \in 1..m : q2[i] = b + i - 1
    <3>1. ASSUME NEW i \in 1..m
          PROVE  q2[i] = b + i - 1
      <4>1. CASE i <= Len(q)
        BY <1>2, <1>3, <1>4, <1>5, <1>7, <2>1, <4>1
      <4>2. CASE i > Len(q)
        <5> DEFINE h == i - Len(q)
        <5>1. h \in 1..k /\ h \in 1..Len(t) /\ Len(q) + h = i
          BY <1>1, <1>2, <2>1, <4>2
        <5>2. q2[i] = t[h] /\ t[h] = s + h - 1
          BY <1>1, <1>6, <5>1
        <5> QED BY <1>2, <1>3, <1>7, <5>1, <5>2
      <4> QED BY <1>2, <2>1, <4>1, <4>2
    <3> QED BY <3>1
  <2>3. CASE w
    <3>1. k + 1 \in 1..Len(t) /\ t[k + 1] = End /\ Len(q) + (k + 1) = m + 1
      BY <1>1, <1>2, <2>1, <2>3
    <3>2. q2[m + 1] = End
      BY <1>6, <3>1
    <3>3. m \in 0..Len(q2) /\ m # Len(q2)
      BY <1>1, <1>2, <2>1, <2>3
    <3> QED BY <1>2, <1>3, <2>1, <2>2, <2>3, <3>2, <3>3 DEF Chunk
  <2>4. CASE ~w
    <3>1. m \in 0..Len(q2) /\ m = Len(q2)
      BY <1>1, <1>2, <2>1, <2>4
    <3> QED BY <1>2, <1>3, <2>1, <2>2, <2>4, <3>1 DEF Chunk
  <2> QED BY <2>3, <2>4
<1>8. CASE n # Len(q)
  <2>0. Len(t) \in Nat /\ n < Len(q) /\ m = n
    BY <1>1, <1>2, <1>3, <1>8
  <2>1. n \in 0..Len(q2) /\ n # Len(q2) /\ b + n <= s + k /\ n + 1 \in 1..Len(q)
    BY <1>2, <1>3, <2>0
  <2>2. q2[n + 1] = End /\ \A i \in 1..n : q2[i] = b + i - 1
    BY <1>2, <1>3, <1>4, <1>5, <1>8, <2>1
  <2> QED BY <1>3, <1>8, <2>0, <2>1, <2>2 DEF Chunk
<1> QED BY <1>7, <1>8

\* Feeding keeps a queue a chunk of the buffer it feeds; a woken queue has a sentinel.
LEMMA FeedChunk ==
    ASSUME TypeOK, NEW r \in Runs, NEW k \in 0..2, NEW w \in BOOLEAN, size[r] + k <= End,
           NEW q \in Seq(0..End), NEW b, NEW n, Chunk(q, size[r], b, n)
    PROVE  /\ q \o Items(r, k, w) \in Seq(0..End)
           /\ Grows(q, q \o Items(r, k, w), size[r], b, n, k, w)
<1> DEFINE t == Items(r, k, w)
           q2 == q \o t
           s == size[r]
<1>1. t \in Seq(0..End) /\ Events(t, s, k, w)
  BY ItemsResult
<1>2. q2 \in Seq(0..End) /\ Joins(q2, q, t)
  BY <1>1, ConcatProperties DEF Joins
<1>3. s \in Nat
  BY DEF TypeOK
<1>4. Chunk(q, s, b, n)
  OBVIOUS
<1> HIDE DEF t, q2, s
<1>5. Grows(q, q2, s, b, n, k, w)
  BY <1>1, <1>2, <1>3, <1>4, ChunkGrows
<1> QED BY <1>2, <1>5 DEF t, q2, s

\* A client that stays where it is keeps its chunk while its run is fed.
LEMMA FeedAhead ==
    ASSUME TypeOK, NEW r \in Runs, NEW k \in 0..2, NEW w \in BOOLEAN, size[r] + k <= End,
           Feed(r, k, w),
           \A q \in Runs \ {r} : status'[q] = status[q],
           status'[r] = "running" <=> status[r] = "running" /\ ~w,
           NEW c \in Clients, cpc[c] \in Reading, bound[c] \in Runs, Ahead(c),
           cpc'[c] = cpc[c], bound'[c] = bound[c], pos'[c] = pos[c]
    PROVE  Ahead(c)'
<1>1. PICK b \in 0..size[bound[c]], n \in 0..Len(queue[c]) :
          /\ Chunk(queue[c], size[bound[c]], b, n)
          /\ status[bound[c]] = "running" => n = Len(queue[c])
          /\ cpc[c] = "live" => b <= pos[c] /\ (n = Len(queue[c]) => status[bound[c]] = "running")
  BY DEF Ahead
<1>2. /\ size \in [Runs -> 0..End] /\ queue[c] \in Seq(0..End) /\ pos[c] \in Nat
      /\ size[bound[c]] \in Nat /\ pos[c] <= size[bound[c]]
      /\ cpc[c] = "flush" => status[bound[c]] # "running"
  BY DEF TypeOK, Ahead
<1>3. CASE bound[c] # r
  <2>1. queue'[c] = queue[c] /\ size'[bound[c]] = size[bound[c]] /\ status'[bound[c]] = status[bound[c]]
    BY <1>2, <1>3 DEF Feed, Subscribers
  <2> QED BY <1>1, <1>2, <2>1 DEF Ahead
<1>4. CASE bound[c] = r
  <2> DEFINE q2 == queue[c] \o Items(r, k, w)
             m == IF n = Len(queue[c]) THEN n + k ELSE n
  <2>1. queue'[c] = q2 /\ size'[r] = size[r] + k
    BY <1>2, <1>4 DEF Feed, Subscribers
  <2>2. q2 \in Seq(0..End) /\ Grows(queue[c], q2, size[r], b, n, k, w)
    <3>1. Chunk(queue[c], size[r], b, n)
      BY <1>1, <1>4
    <3> QED BY <1>2, <3>1, FeedChunk
  <2>7. /\ Chunk(q2, size[r] + k, b, m)
        /\ w => m # Len(q2)
        /\ ~w => (m = Len(q2) <=> n = Len(queue[c]))
    BY <2>2 DEF Grows
  <2> HIDE DEF q2, m
  <2>3. m \in 0..Len(q2) /\ b \in 0..size[r] + k /\ pos[c] <= size[r] + k
    BY <1>1, <1>2, <1>4, <2>7 DEF Chunk
  <2>4. status'[r] = "running" => m = Len(q2)
    BY <1>1, <1>4, <2>7
  <2>5. cpc[c] = "live" => b <= pos[c] /\ (m = Len(q2) => status'[r] = "running")
    BY <1>1, <1>4, <2>7
  <2>6. cpc[c] = "flush" => status'[r] # "running"
    BY <1>2, <1>4
  <2> QED BY <1>4, <2>1, <2>3, <2>4, <2>5, <2>6, <2>7 DEF Ahead
<1> QED BY <1>3, <1>4

-----------------------------------------------------------------------------
(* Steps of the runs *)

RunTypes ==
    /\ started \in 0..MaxRuns /\ current \in 0..started
    /\ status \in [Runs -> Statuses] /\ prev \in [Runs -> 0..MaxRuns]
    /\ pc \in [Runs -> Alive \cup {"unborn", "done"}]
    /\ cancel \in [Runs -> BOOLEAN] /\ armed \in [Runs -> BOOLEAN]
    /\ size \in [Runs -> 0..End]

ClientTypes ==
    /\ cpc \in [Clients -> Reading \cup {"idle", "bound", "ended"}]
    /\ bound \in [Clients -> 0..started]
    /\ queue \in [Clients -> Seq(0..End)]
    /\ pos \in [Clients -> 0..End]
    /\ got \in [Clients -> Seq(0..End)]
    /\ \A c \in Clients : pos[c] = Len(got[c])

LEMMA TypeParts == TypeOK <=> RunTypes /\ ClientTypes
BY DEF TypeOK, RunTypes, ClientTypes, Statuses

LEMMA BoundIsRun ==
    ASSUME IInv, NEW c \in Clients, cpc[c] \notin {"idle", "ended"}
    PROVE  bound[c] \in Runs /\ bound[c] <= started
BY RunsAssumption DEF IInv, TypeOK, ClientInv, NoRun, Runs

\* A fed queue stays typed.
LEMMA FeedTypes ==
    ASSUME TypeOK, NEW r \in Runs, NEW k \in 0..2, NEW w \in BOOLEAN, size[r] + k <= End,
           Feed(r, k, w)
    PROVE  queue' \in [Clients -> Seq(0..End)] /\ size' \in [Runs -> 0..End]
<1>1. queue \in [Clients -> Seq(0..End)] /\ size \in [Runs -> 0..End] /\ End \in Nat
  BY RunsAssumption DEF TypeOK, End
<1>2. \A c \in Clients : queue[c] \o Items(r, k, w) \in Seq(0..End)
  BY <1>1, ItemsResult, ConcatProperties
<1>3. size[r] + k \in 0..End
  BY <1>1
<1>4. size' = [size EXCEPT ![r] = @ + k]
  BY DEF Feed
<1>5. size' \in [Runs -> 0..End]
  BY <1>1, <1>3, <1>4
<1>6. queue' \in [Clients -> Seq(0..End)]
  BY <1>1, <1>2 DEF Feed
<1> QED BY <1>5, <1>6

\* A step of r's drain task feeds r's subscribers, and wakes them iff it ends r.
Fed(r, k, w) ==
    /\ size[r] + k <= End /\ Feed(r, k, w)
    /\ \A q \in Runs \ {r} : status'[q] = status[q]
    /\ status'[r] = "running" <=> status[r] = "running" /\ ~w

Others == ClientTypes' /\ ClientInv' /\ size' \in [Runs -> 0..End]

LEMMA QuietOthers ==
    ASSUME IInv, NEW r \in Runs, Drains(r), UNCHANGED <<status, size, queue>>
    PROVE  Others
<1>1. RunTypes /\ ClientTypes /\ ClientInv
  BY TypeParts DEF IInv
<1>2. UNCHANGED <<started, cpc, bound, pos, got, status, size, queue>>
  BY DEF Drains
<1> QED BY <1>1, <1>2 DEF Others, ClientTypes, RunTypes, ClientInv, Ahead

LEMMA FedOthers ==
    ASSUME IInv, NEW r \in Runs, Drains(r), NEW k \in 0..2, NEW w \in BOOLEAN, Fed(r, k, w)
    PROVE  Others
<1>1. UNCHANGED <<started, cpc, bound, pos, got>>
  BY DEF Drains
<1>2. TypeOK /\ ClientTypes /\ ClientInv
  BY TypeParts DEF IInv
<1>3. queue' \in [Clients -> Seq(0..End)] /\ size' \in [Runs -> 0..End]
  BY <1>2, FeedTypes DEF Fed
<1>4. ClientTypes'
  BY <1>1, <1>2, <1>3 DEF ClientTypes
<1>5. ASSUME NEW c \in Clients
      PROVE  /\ bound'[c] = NoRun <=> cpc'[c] \in {"idle", "ended"}
             /\ cpc'[c] \notin Reading => queue'[c] = <<>> /\ pos'[c] = 0
             /\ cpc'[c] \in Reading => Ahead(c)'
  <2>1. CASE cpc[c] \in Reading
    <3>1. bound[c] \in Runs
      BY <2>1, BoundIsRun DEF Reading
    <3>2. Ahead(c)'
      BY <1>1, <1>2, <2>1, <3>1, FeedAhead DEF ClientInv, Fed
    <3> QED BY <1>1, <1>2, <2>1, <3>2 DEF ClientInv
  <2>2. CASE cpc[c] \notin Reading
    <3>1. queue'[c] = queue[c]
      BY <1>2, <2>2 DEF Fed, Feed, Subscribers, ClientTypes
    <3> QED BY <1>1, <1>2, <2>2, <3>1 DEF ClientInv
  <2> QED BY <2>1, <2>2
<1> QED BY <1>3, <1>4, <1>5 DEF Others, ClientInv

\* A step of a drain task.
LEMMA DrainStep ==
    ASSUME IInv, NEW r \in Runs, Drain(r) \/ Publish(r)
    PROVE  IInv'
<1>1. RunTypes /\ RunInv
  BY TypeParts DEF IInv
<1>2. /\ size[r] \in Nat /\ End = MaxEvents + 2 /\ MaxEvents \in Nat
      /\ pc[r] # "done" => size[r] <= MaxEvents
  BY <1>1, RunsAssumption DEF RunTypes, End, RunInv
<1>3. SUFFICES Others /\ RunTypes' /\ RunInv'
  BY DEF IInv, Others, TypeOK, RunTypes, ClientTypes, Statuses
<1>4. CASE Begin(r) \/ Proceed(r) \/ Throw(r) \/ LeaveBarrier(r)
  <2>1. Drains(r) /\ UNCHANGED <<status, size, queue>>
    BY <1>4 DEF Begin, Proceed, Throw, LeaveBarrier
  <2>2. Others
    BY <2>1, QuietOthers
  <2>3. CASE Begin(r)
    BY <1>1, <2>1, <2>2, <2>3 DEF Begin, Drains, RunTypes, RunInv, Alive, Writing
  <2>4. CASE Proceed(r) \/ Throw(r)
    BY <1>1, <2>1, <2>2, <2>4 DEF Proceed, Throw, Drains, RunTypes, RunInv, Alive, Writing
  <2>5. CASE LeaveBarrier(r)
    BY <1>1, <2>1, <2>2, <2>5 DEF LeaveBarrier, Terminate, Drains, RunTypes, RunInv, Alive, Writing
  <2> QED BY <1>4, <2>2, <2>3, <2>4, <2>5
<1>5. CASE Publish(r)
  <2>1. /\ pc[r] = "streaming" /\ size[r] < MaxEvents /\ Feed(r, 1, FALSE)
        /\ UNCHANGED <<status, pc, cancel, armed>> /\ Drains(r)
    BY <1>5 DEF Publish
  <2>2. /\ 1 \in 0..2 /\ size[r] + 1 <= End /\ status' = status
        /\ \A q \in Runs \ {r} : status'[q] = status[q]
    BY <1>2, <2>1
  <2>3. Fed(r, 1, FALSE)
    BY <2>1, <2>2, Zenon DEF Fed
  <2>5. Others
    BY <2>1, <2>2, <2>3, FedOthers, Zenon
  <2>4. size' = [size EXCEPT ![r] = @ + 1]
    BY <2>1 DEF Feed
  <2> QED BY <1>1, <1>2, <2>1, <2>4, <2>5 DEF Others, Drains, RunTypes, RunInv, Alive, Writing
<1>6. CASE Finish(r)
  <2>1. /\ pc[r] = "streaming" /\ Feed(r, 0, TRUE) /\ Terminate(r) /\ Drains(r)
        /\ status' = [status EXCEPT ![r] = IF @ = "running" THEN "done" ELSE @]
    BY <1>6 DEF Finish
  <2>2. /\ 0 \in 0..2 /\ size[r] + 0 <= End /\ status'[r] # "running"
        /\ \A q \in Runs \ {r} : status'[q] = status[q]
    BY <1>1, <1>2, <2>1 DEF RunTypes
  <2>3. Fed(r, 0, TRUE)
    BY <2>1, <2>2, Zenon DEF Fed
  <2>5. Others
    BY <2>1, <2>2, <2>3, FedOthers, Zenon
  <2>4. size' = [size EXCEPT ![r] = @ + 0]
    BY <2>1 DEF Feed
  <2> QED BY <1>1, <1>2, <2>1, <2>4, <2>5
          DEF Others, Terminate, Drains, RunTypes, RunInv, Alive, Writing, Statuses
<1>7. CASE Fail(r)
  <2>1. /\ pc[r] \in Writing /\ Feed(r, 2, TRUE) /\ Terminate(r) /\ Drains(r)
        /\ status' = [status EXCEPT ![r] = "error"]
    BY <1>7 DEF Fail, Writing
  <2>2. /\ 2 \in 0..2 /\ size[r] + 2 <= End /\ status'[r] # "running"
        /\ \A q \in Runs \ {r} : status'[q] = status[q]
    BY <1>1, <1>2, <2>1 DEF RunTypes, Writing
  <2>3. Fed(r, 2, TRUE)
    BY <2>1, <2>2, Zenon DEF Fed
  <2>5. Others
    BY <2>1, <2>2, <2>3, FedOthers, Zenon
  <2>4. size' = [size EXCEPT ![r] = @ + 2]
    BY <2>1 DEF Feed
  <2> QED BY <1>1, <1>2, <2>1, <2>4, <2>5
          DEF Others, Terminate, Drains, RunTypes, RunInv, Alive, Writing, Statuses
<1>8. CASE Cancelled(r)
  <2>1. /\ pc[r] \in {"unwinding", "waiting"} /\ Feed(r, 0, TRUE) /\ Drains(r)
        /\ status' = [status EXCEPT ![r] = "stopped"]
        /\ \/ /\ pc' = [pc EXCEPT ![r] = "barrier"]
              /\ cancel' = [cancel EXCEPT ![r] = FALSE]
              /\ UNCHANGED armed
           \/ Terminate(r)
    BY <1>8 DEF Cancelled
  <2>2. /\ 0 \in 0..2 /\ size[r] + 0 <= End /\ status'[r] # "running"
        /\ \A q \in Runs \ {r} : status'[q] = status[q]
    BY <1>1, <1>2, <2>1 DEF RunTypes
  <2>3. Fed(r, 0, TRUE)
    BY <2>1, <2>2, Zenon DEF Fed
  <2>5. Others
    BY <2>1, <2>2, <2>3, FedOthers, Zenon
  <2>4. size' = [size EXCEPT ![r] = @ + 0]
    BY <2>1 DEF Feed
  <2>6. /\ pc'[r] \in {"barrier", "done"} /\ ~cancel'[r]
        /\ \A q \in Runs \ {r} : pc'[q] = pc[q] /\ cancel'[q] = cancel[q]
        /\ pc' \in [Runs -> Alive \cup {"unborn", "done"}]
        /\ cancel' \in [Runs -> BOOLEAN] /\ armed' \in [Runs -> BOOLEAN]
    BY <1>1, <2>1 DEF Terminate, RunTypes, Alive
  <2>7. RunTypes'
    BY <1>1, <2>1, <2>5, <2>6 DEF Others, Drains, RunTypes, Statuses
  <2>8. RunInv'
    BY <1>1, <1>2, <2>1, <2>4, <2>6 DEF Drains, RunTypes, RunInv
  <2> QED BY <2>5, <2>7, <2>8
<1> QED BY <1>4, <1>5, <1>6, <1>7, <1>8 DEF Drain

\* A new run: its predecessor is still counted as running by nobody.
LEMMA StartStep ==
    ASSUME IInv, NEW c \in Clients, Start(c)
    PROVE  IInv'
<1> DEFINE p == current
           r == started + 1
           replaces == p # NoRun /\ pc[p] \in Alive
<1>1. RunTypes /\ ClientTypes /\ RunInv /\ ClientInv /\ TypeOK
  BY TypeParts DEF IInv
<1>2. /\ r \in Runs /\ p \in 0..started /\ started \in Nat /\ NoRun = 0
      /\ started' = r /\ current' = r /\ pc[r] = "unborn" /\ (p # NoRun => p \in Runs /\ p # r)
  BY <1>1, RunsAssumption DEF Start, RunTypes, RunInv, Runs, NoRun
<1>3. /\ cpc[c] \in {"idle", "ended"} /\ cpc' = [cpc EXCEPT ![c] = "bound"]
      /\ bound' = [bound EXCEPT ![c] = r] /\ UNCHANGED <<pos, got>>
      /\ prev' = [prev EXCEPT ![r] = IF replaces THEN p ELSE NoRun]
      /\ pc' = [pc EXCEPT ![r] = "new"]
      /\ armed' = [q \in Runs |-> armed[q] /\ q # p]
      /\ cancel' = [q \in Runs |-> cancel[q] \/ (replaces /\ q = p)]
  BY DEF Start, Bind
<1>4. CASE replaces /\ status[p] = "running"
  <2>1. p \in Runs /\ Feed(p, 0, TRUE) /\ status' = [status EXCEPT ![p] = "stopped"]
    BY <1>2, <1>4 DEF Start, Displace
  <2>2. /\ 0 \in 0..2 /\ TRUE \in BOOLEAN /\ size[p] + 0 <= End
        /\ status'[p] # "running" /\ \A q \in Runs \ {p} : status'[q] = status[q]
        /\ status' \in [Runs -> Statuses]
    BY <1>1, <2>1, RunsAssumption DEF RunTypes, Statuses, End
  <2>3. queue' \in [Clients -> Seq(0..End)] /\ size' \in [Runs -> 0..End]
    BY <1>1, <2>1, <2>2, FeedTypes, Zenon
  <2>4. size' = size
    BY <1>1, <2>1 DEF Feed, RunTypes
  <2>5. RunTypes'
    BY <1>1, <1>2, <1>3, <2>2, <2>4, RunsAssumption DEF RunTypes, Runs, Alive
  <2>6. RunInv'
    <3>1. /\ pc'[r] = "new" /\ cancel'[r] = cancel[r]
          /\ \A q \in Runs \ {r} : pc'[q] = pc[q]
          /\ \A q \in Runs \ {p} : cancel'[q] = cancel[q]
      BY <1>1, <1>2, <1>3 DEF RunTypes
    <3>2. status'[p] = "stopped" /\ pc[p] \in Alive
      BY <1>1, <1>4, <2>1 DEF RunTypes
    <3> QED BY <1>1, <1>2, <2>1, <2>2, <2>4, <3>1, <3>2 DEF RunInv, Alive, Writing
  <2>7. ClientTypes'
    <3>1. cpc' \in [Clients -> Reading \cup {"idle", "bound", "ended"}]
          /\ bound' \in [Clients -> 0..started']
      BY <1>1, <1>2, <1>3 DEF ClientTypes
    <3> QED BY <1>1, <1>3, <2>3, <3>1 DEF ClientTypes
  <2>8. ASSUME NEW d \in Clients
        PROVE  /\ bound'[d] = NoRun <=> cpc'[d] \in {"idle", "ended"}
               /\ cpc'[d] \notin Reading => queue'[d] = <<>> /\ pos'[d] = 0
               /\ cpc'[d] \in Reading => Ahead(d)'
    <3>1. CASE cpc[d] \in Reading
      <4>1. d # c /\ bound[d] \in Runs
        BY <1>3, <3>1, BoundIsRun DEF Reading
      <4>2. cpc'[d] = cpc[d] /\ bound'[d] = bound[d] /\ pos'[d] = pos[d]
        BY <1>1, <1>3, <4>1 DEF ClientTypes
      <4>3. Ahead(d)
        BY <1>1, <3>1 DEF ClientInv
      <4>4. status'[p] = "running" <=> status[p] = "running" /\ ~TRUE
        BY <2>2
      <4>5. Ahead(d)'
        BY <1>1, <2>1, <2>2, <3>1, <4>1, <4>2, <4>3, <4>4, FeedAhead, Zenon
      <4> QED BY <1>1, <3>1, <4>2, <4>5 DEF ClientInv
    <3>2. CASE cpc[d] \notin Reading
      <4>1. queue'[d] = queue[d]
        BY <1>1, <2>1, <3>2 DEF Feed, Subscribers, ClientTypes
      <4> QED BY <1>1, <1>2, <1>3, <3>2, <4>1 DEF ClientInv, ClientTypes, Reading
    <3> QED BY <3>1, <3>2
  <2> QED BY <2>5, <2>6, <2>7, <2>8 DEF IInv, ClientInv, TypeOK, RunTypes, ClientTypes, Statuses
<1>5. CASE ~(replaces /\ status[p] = "running")
  <2>1. UNCHANGED <<status, queue, size>>
    BY <1>5 DEF Start, Displace
  <2>2. RunTypes'
    BY <1>1, <1>2, <1>3, <2>1, RunsAssumption DEF RunTypes, Runs, Alive
  <2>3. RunInv'
    BY <1>1, <1>2, <1>3, <1>5, <2>1, RunsAssumption
       DEF RunTypes, RunInv, Runs, Alive, Writing
  <2>4. ClientTypes'
    BY <1>1, <1>2, <1>3, <2>1 DEF ClientTypes
  <2>5. ClientInv'
    BY <1>1, <1>2, <1>3, <2>1 DEF ClientTypes, ClientInv, Ahead, Reading
  <2> QED BY <2>2, <2>3, <2>4, <2>5 DEF IInv, TypeOK, RunTypes, ClientTypes, Statuses
<1> QED BY <1>4, <1>5

LEMMA HandlerStep ==
    ASSUME IInv, Stop \/ (\E c \in Clients : Resume(c)) \/ (\E r \in Runs : Evict(r))
                 \/ UNCHANGED vars
    PROVE  IInv'
<1>1. RunTypes /\ ClientTypes /\ RunInv /\ ClientInv
  BY TypeParts DEF IInv
<1>2. SUFFICES RunTypes' /\ ClientTypes' /\ RunInv' /\ ClientInv'
  BY DEF IInv, TypeOK, RunTypes, ClientTypes, Statuses
<1>3. CASE Stop
  <2>1. /\ current \in Runs /\ pc[current] \in Alive \ {"new"}
        /\ cancel' = [cancel EXCEPT ![current] = TRUE]
        /\ UNCHANGED <<started, current, status, prev, pc, size, armed, clientVars>>
    BY <1>1, <1>3, RunsAssumption DEF Stop, RunTypes, Runs, NoRun
  <2> QED BY <1>1, <2>1
          DEF RunTypes, ClientTypes, RunInv, ClientInv, Ahead, clientVars, Alive, Writing
<1>4. CASE \E c \in Clients : Resume(c)
  <2>1. PICK c \in Clients : Resume(c)
    BY <1>4
  <2>2. /\ current # NoRun /\ cpc[c] \in {"idle", "ended"}
        /\ cpc' = [cpc EXCEPT ![c] = "bound"] /\ bound' = [bound EXCEPT ![c] = current]
        /\ UNCHANGED <<pos, got, queue, started, current, status, prev, pc, cancel, size, armed>>
    BY <2>1 DEF Resume, Bind, runVars
  <2>3. RunTypes' /\ RunInv'
    BY <1>1, <2>2 DEF RunTypes, RunInv
  <2>4. ClientTypes'
    BY <1>1, <2>2 DEF RunTypes, ClientTypes
  <2>5. ClientInv'
    BY <1>1, <2>2 DEF ClientTypes, ClientInv, Ahead, Reading
  <2> QED BY <2>3, <2>4, <2>5
<1>5. CASE \E r \in Runs : Evict(r)
  <2>1. /\ armed' \in [Runs -> BOOLEAN] /\ current' \in {current, NoRun}
        /\ UNCHANGED <<started, status, prev, pc, cancel, size, clientVars>>
    BY <1>1, <1>5 DEF Evict, RunTypes
  <2>2. RunTypes' /\ RunInv'
    BY <1>1, <2>1 DEF RunTypes, RunInv, NoRun
  <2>3. ClientTypes' /\ ClientInv'
    BY <1>1, <2>1 DEF ClientTypes, ClientInv, Ahead, clientVars
  <2> QED BY <2>2, <2>3
<1>6. CASE UNCHANGED vars
  BY <1>1, <1>6 DEF RunTypes, ClientTypes, RunInv, ClientInv, Ahead, vars, runVars, clientVars
<1> QED BY <1>3, <1>4, <1>5, <1>6

-----------------------------------------------------------------------------
(* Steps of the clients *)

\* A response that goes on: it sends the next event of its run, or nothing.
Stays(c) ==
    /\ cpc[c] \in Reading \cup {"bound"} /\ bound' = bound
    /\ \E w \in Reading : cpc' = [cpc EXCEPT ![c] = w]
    /\ \E q \in Seq(0..End) : queue' = [queue EXCEPT ![c] = q]
    /\ \/ UNCHANGED <<pos, got>>
       \/ /\ pos[c] < size[bound[c]]
          /\ pos' = [pos EXCEPT ![c] = @ + 1]
          /\ got' = [got EXCEPT ![c] = Append(@, pos[c])]
    /\ Ahead(c)'

\* A response that is over, by itself only at the end of a run that is over.
Leaves(c) ==
    /\ cpc[c] \in Reading \cup {"bound"}
    /\ \/ Close(c, "idle")
       \/ Close(c, "ended") /\ pos[c] = size[bound[c]] /\ status[bound[c]] # "running"

Moves(c) == armed' \in [Runs -> BOOLEAN] /\ Serves /\ (Stays(c) \/ Leaves(c))

LEMMA ArmedTyped ==
    ASSUME IInv, NEW c \in Clients, CancelTimer(c) \/ RearmTimer(c) \/ UNCHANGED armed
    PROVE  armed' \in [Runs -> BOOLEAN]
<1>1. armed \in [Runs -> BOOLEAN]
  BY DEF IInv, TypeOK
<1>2. CASE CancelTimer(c)
  BY <1>1, <1>2 DEF CancelTimer
<1>3. CASE RearmTimer(c)
  BY <1>1, <1>3 DEF RearmTimer
<1>4. CASE UNCHANGED armed
  BY <1>1, <1>4
<1> QED BY <1>2, <1>3, <1>4

LEMMA ReplayMoves ==
    ASSUME IInv, NEW c \in Clients, Replay(c)
    PROVE  Moves(c)
<1> DEFINE r == bound[c]
<1>1. RunTypes /\ ClientTypes /\ ClientInv
  BY TypeParts DEF IInv
<1>2. cpc[c] \in {"bound", "replay"} /\ Serves /\ armed' \in [Runs -> BOOLEAN] /\ r \in Runs
  BY ArmedTyped, BoundIsRun DEF Replay
<1>3. /\ pos[c] \in Nat /\ size[r] \in Nat /\ pos[c] <= size[r] /\ queue[c] \in Seq(0..End)
      /\ cpc[c] = "bound" => queue[c] = <<>>
      /\ cpc[c] = "replay" => Ahead(c)
      /\ UNCHANGED <<size, status>>
  BY <1>1, <1>2 DEF RunTypes, ClientTypes, ClientInv, Ahead, Reading, Serves
<1>4. \E b \in 0..size[r], n \in 0..Len(queue[c]) :
        /\ Chunk(queue[c], size[r], b, n)
        /\ status[r] = "running" => n = Len(queue[c])
  <2>1. CASE cpc[c] = "bound"
    <3>1. Chunk(<<>>, size[r], size[r], 0) /\ Len(<<>>) = 0
      BY <1>3 DEF Chunk
    <3> QED BY <1>3, <2>1, <3>1
  <2>2. CASE cpc[c] = "replay"
    BY <1>3, <2>2 DEF Ahead
  <2> QED BY <1>2, <2>1, <2>2
<1>5. CASE pos[c] < size[r] /\ Send(c, pos[c]) /\ cpc' = [cpc EXCEPT ![c] = "replay"]
           /\ UNCHANGED <<bound, queue>>
  <2>1. /\ pos' = [pos EXCEPT ![c] = @ + 1] /\ got' = [got EXCEPT ![c] = Append(@, pos[c])]
        /\ cpc'[c] = "replay" /\ pos'[c] <= size[r]
    BY <1>1, <1>3, <1>5 DEF Send, ClientTypes
  <2>2. Ahead(c)'
    BY <1>3, <1>4, <1>5, <2>1 DEF Ahead
  <2>3. queue' = [queue EXCEPT ![c] = queue[c]]
    BY <1>1, <1>5 DEF ClientTypes
  <2> QED BY <1>2, <1>3, <1>5, <2>1, <2>2, <2>3 DEF Moves, Stays, Reading
<1>6. CASE pos[c] >= size[r] /\ status[r] = "running" /\ cpc' = [cpc EXCEPT ![c] = "live"]
           /\ UNCHANGED <<bound, queue, pos, got>>
  <2>1. PICK b \in 0..size[r], n \in 0..Len(queue[c]) :
          Chunk(queue[c], size[r], b, n) /\ n = Len(queue[c])
    BY <1>4, <1>6
  <2>2. cpc'[c] = "live" /\ pos[c] = size[r] /\ b <= pos[c]
    BY <1>1, <1>3, <1>6, <2>1 DEF ClientTypes
  <2>3. Ahead(c)'
    BY <1>3, <1>6, <2>1, <2>2 DEF Ahead
  <2>4. queue' = [queue EXCEPT ![c] = queue[c]]
    BY <1>1, <1>6 DEF ClientTypes
  <2> QED BY <1>2, <1>3, <1>6, <2>3, <2>4 DEF Moves, Stays, Reading
<1>7. CASE pos[c] >= size[r] /\ status[r] # "running" /\ Close(c, "ended")
  BY <1>2, <1>3, <1>7 DEF Moves, Leaves, Reading
<1> QED BY <1>5, <1>6, <1>7 DEF Replay

\* A response that read its sentinel, or flushes, is one of a run that is over.
LEMMA FlushMoves ==
    ASSUME IInv, NEW c \in Clients, cpc[c] \in Reading, status[bound[c]] # "running",
           Flush(c), Serves
    PROVE  Moves(c)
<1> DEFINE r == bound[c]
<1>0. RunTypes /\ ClientTypes /\ Ahead(c) /\ r \in Runs
  BY TypeParts, BoundIsRun DEF IInv, ClientInv, Reading
<1>4. CancelTimer(c) \/ RearmTimer(c) \/ UNCHANGED armed
  BY DEF Flush
<1>1. /\ ClientTypes /\ r \in Runs /\ size[r] \in Nat /\ pos[c] \in Nat /\ pos[c] <= size[r]
      /\ UNCHANGED <<size, status>> /\ armed' \in [Runs -> BOOLEAN]
  BY <1>0, <1>4, ArmedTyped DEF RunTypes, ClientTypes, Ahead, Serves
<1>2. CASE pos[c] < size[r] /\ Send(c, pos[c]) /\ cpc' = [cpc EXCEPT ![c] = "flush"]
           /\ queue' = [queue EXCEPT ![c] = <<>>] /\ UNCHANGED bound
  <2>1. /\ pos' = [pos EXCEPT ![c] = @ + 1] /\ got' = [got EXCEPT ![c] = Append(@, pos[c])]
        /\ cpc'[c] = "flush" /\ pos'[c] <= size[r] /\ queue'[c] = <<>>
    BY <1>1, <1>2 DEF Send, ClientTypes
  <2>2. Chunk(<<>>, size[r], size[r], 0) /\ Len(<<>>) = 0 /\ <<>> \in Seq(0..End)
    BY <1>1 DEF Chunk
  <2>3. Ahead(c)'
    BY <1>1, <1>2, <2>1, <2>2 DEF Ahead
  <2> QED BY <1>1, <1>2, <2>1, <2>2, <2>3 DEF Moves, Stays, Reading
<1>3. CASE pos[c] >= size[r] /\ Close(c, "ended")
  BY <1>1, <1>3 DEF Moves, Leaves, Reading
<1> QED BY <1>2, <1>3 DEF Flush

\* The next item of the queue is the event after the last one sent, or an older
\* one, or the sentinel of a run that is over.
LEMMA ReceiveMoves ==
    ASSUME IInv, NEW c \in Clients, Receive(c)
    PROVE  Moves(c)
<1> DEFINE r == bound[c]
           q == queue[c]
           head == Head(q)
           tail == Tail(q)
<1>1. RunTypes /\ ClientTypes /\ Ahead(c) /\ r \in Runs
  BY TypeParts, BoundIsRun DEF IInv, ClientInv, Receive, Reading
<1>2. /\ cpc[c] = "live" /\ Serves /\ UNCHANGED <<size, status>>
      /\ size[r] \in Nat /\ pos[c] \in Nat /\ pos[c] <= size[r]
  BY <1>1 DEF Receive, RunTypes, ClientTypes, Ahead, Serves
<1>3. PICK b \in 0..size[r], n \in 0..Len(q) :
        /\ Chunk(q, size[r], b, n) /\ b <= pos[c]
        /\ status[r] = "running" <=> n = Len(q)
  BY <1>1, <1>2 DEF Ahead
<1>4. q # <<>> /\ q \in Seq(0..End)
  BY <1>1 DEF Receive, ClientTypes
<1>9. /\ tail \in Seq(0..End) /\ Len(tail) = Len(q) - 1 /\ Len(q) \in Nat /\ Len(q) > 0
      /\ \A i \in 1..Len(tail) : tail[i] = q[i + 1]
      /\ head = q[1]
  <2> HIDE DEF q
  <2>1. Len(q) \in Nat /\ Len(q) > 0
    BY <1>4, EmptySeq
  <2>2. /\ tail \in Seq(0..End) /\ Len(tail) = Len(q) - 1
        /\ \A i \in 1..Len(tail) : tail[i] = q[i + 1]
    BY <1>4, HeadTailProperties
  <2>3. head = q[1]
    BY <1>4
  <2> QED BY <2>1, <2>2, <2>3
<1> HIDE DEF q, head, tail
<1>10. Len(q) \in Nat /\ Len(q) > 0 /\ Len(tail) = Len(q) - 1 /\ n \in Nat /\ n <= Len(q) /\ b \in Nat
  BY <1>3, <1>9
<1>11. b + n <= size[r] /\ (n = Len(q) => b + n = size[r])
  BY <1>3 DEF Chunk
<1>5. /\ \A i \in 1..n : q[i] = b + i - 1
      /\ n # Len(q) => q[n + 1] = End
  BY <1>3 DEF Chunk
<1>6. n = 0 <=> q[1] = End
  <2>1. size[r] <= End
    BY <1>1 DEF RunTypes
  <2>2. CASE n = 0
    BY <1>5, <1>10, <2>2
  <2>3. CASE n > 0
    <3>1. q[1] = b
      BY <1>5, <1>10, <2>3
    <3>2. b < End
      BY <1>2, <1>10, <1>11, <2>1, <2>3, RunsAssumption DEF End
    <3> QED BY <1>10, <2>3, <3>1, <3>2
  <2> QED BY <1>10, <2>2, <2>3
<1>7. CASE head = End /\ Flush(c)
  <2>1. n = 0 /\ n # Len(q)
    BY <1>6, <1>7, <1>9, <1>10
  <2> QED BY <1>2, <1>3, <1>7, <2>1, FlushMoves DEF Reading
<1>8. CASE /\ head # End /\ queue' = [queue EXCEPT ![c] = Tail(@)]
           /\ IF Fresh(c, head) THEN Send(c, head) ELSE UNCHANGED <<pos, got>>
           /\ UNCHANGED <<cpc, bound, armed>>
  <2>1. n > 0 /\ q[1] = b
    BY <1>5, <1>6, <1>8, <1>9, <1>10
  <2>2. queue'[c] = tail /\ queue' = [queue EXCEPT ![c] = tail]
    BY <1>1, <1>8 DEF ClientTypes, q, tail
  <2>3. Chunk(tail, size[r], b + 1, n - 1)
    <3>1. n - 1 \in 0..Len(tail) /\ b + 1 \in Nat /\ (b + 1) + (n - 1) <= size[r]
      BY <1>2, <1>10, <1>11, <2>1
    <3>2. ASSUME NEW i \in 1..n - 1
          PROVE  tail[i] = (b + 1) + i - 1
      <4>1. i \in 1..Len(tail) /\ i + 1 \in 1..n
        BY <1>10, <2>1
      <4>2. tail[i] = q[i + 1] /\ q[i + 1] = b + (i + 1) - 1
        BY <1>5, <1>9, <4>1
      <4> QED BY <1>10, <4>1, <4>2
    <3>3. CASE n = Len(q)
      <4>1. n - 1 = Len(tail) /\ (b + 1) + (n - 1) = size[r]
        BY <1>2, <1>10, <1>11, <3>3
      <4> QED BY <3>1, <3>2, <4>1 DEF Chunk
    <3>4. CASE n # Len(q)
      <4>1. n - 1 # Len(tail) /\ n \in 1..Len(tail) /\ (n - 1) + 1 = n
        BY <1>10, <2>1, <3>4
      <4>2. tail[(n - 1) + 1] = End
        BY <1>5, <1>9, <3>4, <4>1
      <4> QED BY <3>1, <3>2, <4>1, <4>2 DEF Chunk
    <3> QED BY <3>3, <3>4
  <2>4. /\ b + 1 \in 0..size[r] /\ n - 1 \in 0..Len(tail)
        /\ n - 1 = Len(tail) <=> n = Len(q)
    BY <1>2, <1>10, <1>11, <2>1
  <2>8. status[r] = "running" <=> n - 1 = Len(tail)
    BY <1>3, <2>4
  <2>5. \/ /\ pos' = [pos EXCEPT ![c] = @ + 1] /\ got' = [got EXCEPT ![c] = Append(@, pos[c])]
           /\ pos[c] < size[r] /\ b + 1 <= pos'[c] /\ pos'[c] <= size[r]
        \/ UNCHANGED <<pos, got>> /\ b + 1 <= pos[c]
    <3>1. CASE b = pos[c]
      <4>1. Send(c, pos[c])
        BY <1>2, <1>8, <1>9, <2>1, <3>1 DEF Fresh
      <4>2. pos[c] < size[r] /\ b + 1 = pos[c] + 1
        BY <1>2, <1>10, <1>11, <2>1, <3>1
      <4>3. pos' = [pos EXCEPT ![c] = @ + 1] /\ pos'[c] = pos[c] + 1
        BY <1>1, <4>1 DEF Send, ClientTypes
      <4> QED BY <1>2, <4>1, <4>2, <4>3 DEF Send
    <3>2. CASE b < pos[c]
      <4>1. ~Fresh(c, head) /\ b + 1 <= pos[c]
        BY <1>2, <1>9, <1>10, <2>1, <3>2 DEF Fresh
      <4> QED BY <1>8, <4>1
    <3> QED BY <1>2, <1>3, <1>10, <3>1, <3>2
  <2>6. Ahead(c)'
    <3>1. cpc'[c] = "live" /\ bound'[c] = r /\ size'[r] = size[r] /\ status'[r] = status[r]
      BY <1>2, <1>8
    <3>2. pos'[c] <= size[r] /\ b + 1 <= pos'[c]
      BY <1>2, <2>5
    <3> QED BY <2>2, <2>3, <2>4, <2>8, <3>1, <3>2 DEF Ahead
  <2>7. cpc' = [cpc EXCEPT ![c] = "live"] /\ UNCHANGED bound /\ armed' \in [Runs -> BOOLEAN]
    BY <1>1, <1>2, <1>8 DEF RunTypes, ClientTypes
  <2> QED BY <1>2, <1>9, <2>2, <2>5, <2>6, <2>7 DEF Moves, Stays, Reading
<1> QED BY <1>7, <1>8 DEF Receive, q, head, tail

LEMMA ClientMoves ==
    ASSUME IInv, NEW c \in Clients, Read(c) \/ Disconnect(c)
    PROVE  Moves(c)
<1>1. CASE Replay(c)
  BY <1>1, ReplayMoves
<1>2. CASE Receive(c)
  BY <1>2, ReceiveMoves
<1>3. CASE FlushTail(c)
  BY <1>3, FlushMoves DEF FlushTail, IInv, ClientInv, Ahead, Reading
<1>4. CASE Disconnect(c)
  BY <1>4, ArmedTyped DEF Disconnect, Moves, Leaves
<1> QED BY <1>1, <1>2, <1>3, <1>4 DEF Read

LEMMA ClientStep ==
    ASSUME IInv, NEW c \in Clients, Read(c) \/ Disconnect(c)
    PROVE  IInv'
<1>1. RunTypes /\ ClientTypes /\ RunInv /\ ClientInv /\ Moves(c)
  BY TypeParts, ClientMoves DEF IInv
<1>2. SUFFICES RunTypes' /\ ClientTypes' /\ RunInv' /\ ClientInv'
  BY DEF IInv, TypeOK, RunTypes, ClientTypes, Statuses
<1>3. RunTypes' /\ RunInv'
  BY <1>1 DEF RunTypes, RunInv, Moves, Serves
<1>4. UNCHANGED <<started, status, size>>
  BY <1>1 DEF Moves, Serves
<1>5. CASE Stays(c)
  <2>1. bound[c] \in Runs /\ bound[c] # NoRun
    BY <1>5, BoundIsRun DEF Stays, Reading, Runs, NoRun
  <2>2. /\ cpc' \in [Clients -> Reading \cup {"idle", "bound", "ended"}] /\ cpc'[c] \in Reading
        /\ queue' \in [Clients -> Seq(0..End)] /\ bound' = bound
    BY <1>1, <1>5 DEF Stays, ClientTypes
  <2>3. /\ pos' \in [Clients -> 0..End] /\ got' \in [Clients -> Seq(0..End)]
        /\ \A d \in Clients : pos'[d] = Len(got'[d])
    <3>1. CASE UNCHANGED <<pos, got>>
      BY <1>1, <3>1 DEF ClientTypes
    <3>2. CASE /\ pos[c] < size[bound[c]] /\ pos' = [pos EXCEPT ![c] = @ + 1]
               /\ got' = [got EXCEPT ![c] = Append(@, pos[c])]
      <4>1. /\ pos[c] \in 0..End /\ pos[c] + 1 \in 0..End
            /\ Append(got[c], pos[c]) \in Seq(0..End)
            /\ Len(Append(got[c], pos[c])) = pos[c] + 1
        <5>1. /\ size[bound[c]] \in 0..End /\ pos[c] \in 0..End /\ got[c] \in Seq(0..End)
              /\ pos[c] = Len(got[c])
          BY <1>1, <2>1 DEF RunTypes, ClientTypes
        <5>2. /\ Append(got[c], pos[c]) \in Seq(0..End)
              /\ Len(Append(got[c], pos[c])) = Len(got[c]) + 1
          BY <5>1, AppendProperties
        <5>3. pos[c] + 1 \in 0..End
          BY <3>2, <5>1, RunsAssumption DEF End
        <5> QED BY <5>1, <5>2, <5>3
      <4> QED BY <1>1, <3>2, <4>1 DEF ClientTypes
    <3> QED BY <1>5, <3>1, <3>2 DEF Stays
  <2>4. ClientTypes'
    BY <1>1, <1>4, <2>2, <2>3 DEF ClientTypes
  <2>5. \A d \in Clients \ {c} :
          /\ cpc'[d] = cpc[d] /\ queue'[d] = queue[d] /\ pos'[d] = pos[d]
          /\ cpc[d] \in Reading => Ahead(d)
    BY <1>1, <1>5 DEF Stays, ClientTypes, ClientInv
  <2>6. ClientInv'
    BY <1>1, <1>4, <1>5, <2>1, <2>2, <2>5 DEF Stays, ClientInv, Ahead, Reading
  <2> QED BY <1>3, <2>4, <2>6
<1>6. CASE Leaves(c)
  <2>1. PICK how \in {"idle", "ended"} : Close(c, how)
    BY <1>6 DEF Leaves
  <2>2. <<>> \in Seq(0..End) /\ Len(<<>>) = 0 /\ NoRun \in 0..started' /\ 0 \in 0..End
    BY <1>1, <1>4, RunsAssumption DEF RunTypes, NoRun, End
  <2>3. ClientTypes'
    BY <1>1, <1>4, <2>1, <2>2 DEF ClientTypes, Close
  <2>4. ClientInv'
    BY <1>1, <1>4, <2>1 DEF ClientTypes, ClientInv, Close, Ahead, Reading
  <2> QED BY <1>3, <2>3, <2>4
<1> QED BY <1>1, <1>5, <1>6 DEF Moves

LEMMA RunsAreSound == Spec => []IInv
<1>1. Init => IInv
  <2>1. <<>> \in Seq(0..End) /\ Len(<<>>) = 0 /\ MaxEvents \in Nat /\ MaxRuns \in Nat /\ End \in Nat
    BY RunsAssumption DEF End
  <2>2. ASSUME Init
        PROVE  RunTypes /\ ClientTypes /\ RunInv /\ ClientInv
    BY <2>1, <2>2 DEF Init, RunTypes, ClientTypes, RunInv, ClientInv, Statuses, Alive, Writing,
                      Reading, NoRun, Runs
  <2> QED BY <2>2, TypeParts DEF IInv
<1>2. IInv /\ [Next]_vars => IInv'
  BY StartStep, HandlerStep, DrainStep, ClientStep DEF Next
<1> QED BY <1>1, <1>2, PTL DEF Spec

-----------------------------------------------------------------------------
(* Theorems about every execution *)

\* The run objects, drain tasks and responses keep their types, and next_seq
\* counts the events a client was sent (agent_runs.subscribe).
THEOREM RunsTyped == Spec => []TypeOK
<1> QED BY RunsAreSound, PTL DEF IInv

\* However a run ends, nobody is left waiting on an empty queue
\* (_wake_run_subscribers and its callers).
THEOREM NobodyIsForgotten == Spec => []WaitersAreServed
<1>1. IInv => WaitersAreServed
  <2>1. ASSUME IInv, NEW c \in Clients, cpc[c] = "live", queue[c] = <<>>
        PROVE  status[bound[c]] = "running" /\ pc[bound[c]] \in Alive
    <3>1. Ahead(c) /\ Len(queue[c]) = 0
      BY <2>1 DEF IInv, ClientInv, Reading
    <3>2. status[bound[c]] = "running"
      BY <2>1, <3>1 DEF Ahead
    <3>3. bound[c] \in Runs /\ bound[c] <= started
      BY <2>1, BoundIsRun
    <3>4. pc[bound[c]] \in Alive
      BY <2>1, <3>2, <3>3 DEF IInv, RunInv, Alive, Runs, TypeOK
    <3> QED BY <3>2, <3>4
  <2> QED BY <2>1 DEF WaitersAreServed
<1> QED BY <1>1, RunsAreSound, PTL

\* A response that ends by itself has sent the whole buffer of a run that is over
\* (the replay, and the flush after the sentinel, of subscribe).
THEOREM CompleteAtTheEnd == Spec => StreamEndsComplete
<1> DEFINE Complete == \A c \in Clients :
               cpc[c] # "ended" /\ cpc'[c] = "ended"
               => Len(got[c]) = size[bound[c]] /\ status[bound[c]] # "running"
<1>1. ASSUME IInv, Next
      PROVE  Complete
  <2>1. ClientTypes
    BY <1>1, TypeParts DEF IInv
  <2>2. ASSUME NEW d \in Clients, NEW c \in Clients, cpc[c] # "ended", cpc'[c] = "ended",
               Read(d) \/ Disconnect(d)
        PROVE  Len(got[c]) = size[bound[c]] /\ status[bound[c]] # "running"
    <3>1. Stays(d) \/ Leaves(d)
      BY <1>1, <2>2, ClientMoves DEF Moves
    <3>2. ~Stays(d)
      BY <2>1, <2>2 DEF Stays, ClientTypes, Reading
    <3>3. c = d /\ pos[c] = size[bound[c]] /\ status[bound[c]] # "running"
      BY <2>1, <2>2, <3>1, <3>2 DEF Leaves, Close, ClientTypes
    <3> QED BY <2>1, <3>3 DEF ClientTypes
  <2>3. ASSUME NEW c \in Clients, cpc[c] # "ended", cpc'[c] = "ended"
        PROVE  \E d \in Clients : Read(d) \/ Disconnect(d)
    BY <1>1, <2>1, <2>3
       DEF Next, Start, Resume, Bind, Stop, Evict, Publish, Drain, Drains, Begin, Proceed,
           Finish, Fail, Throw, Cancelled, LeaveBarrier, ClientTypes, clientVars
  <2> QED BY <2>2, <2>3
<1>2. IInv /\ [Next]_vars => [Complete]_vars
  BY <1>1
<1> QED BY <1>2, RunsAreSound, PTL DEF Spec, StreamEndsComplete

-----------------------------------------------------------------------------
(* The refinement.  Feeding appends to a log; a response attaches when it is  *)
(* bound, detaches when it is over, and is sent one event at a time between.  *)

LogVars == <<size, bound, got>>

LEMMA FeedAppends ==
    ASSUME TypeOK, NEW r \in Runs, NEW k \in {0, 1, 2}, NEW w, Feed(r, k, w)
    PROVE  size' = [size EXCEPT ![r] = @ + k] /\ (k = 0 => size' = size)
<1>1. size \in [Runs -> 0..End] /\ size' = [size EXCEPT ![r] = @ + k]
  BY DEF TypeOK, Feed
<1>2. k = 0 => size' = size
  BY <1>1
<1> QED BY <1>1, <1>2

LEMMA RunSteps ==
    ASSUME IInv, \/ \E r \in Runs : Drain(r) \/ Publish(r) \/ Evict(r)
                 \/ Stop
    PROVE  Log!Next \/ UNCHANGED LogVars
<1>1. CASE Stop \/ \E r \in Runs : Evict(r)
  BY <1>1 DEF Stop, Evict, clientVars, LogVars
<1>2. ASSUME NEW r \in Runs, Begin(r) \/ Proceed(r) \/ Throw(r) \/ LeaveBarrier(r)
      PROVE  UNCHANGED LogVars
  BY <1>2 DEF Begin, Proceed, Throw, LeaveBarrier, Drains, LogVars
<1>3. ASSUME NEW r \in Runs, Finish(r) \/ Cancelled(r)
      PROVE  UNCHANGED LogVars
  <2>1. Feed(r, 0, TRUE) /\ UNCHANGED <<bound, got>>
    BY <1>3 DEF Finish, Cancelled, Drains
  <2> QED BY <2>1, FeedAppends DEF IInv, LogVars
<1>4. ASSUME NEW r \in Runs, Publish(r)
      PROVE  Log!Next
  <2>1. Feed(r, 1, FALSE) /\ UNCHANGED <<bound, got>>
    BY <1>4 DEF Publish, Drains
  <2>2. size' = [size EXCEPT ![r] = @ + 1]
    BY <2>1 DEF Feed
  <2> QED BY <2>1, <2>2 DEF Log!Next, Log!Append1
<1>5. ASSUME NEW r \in Runs, Fail(r)
      PROVE  Log!Next
  <2>1. Feed(r, 2, TRUE) /\ UNCHANGED <<bound, got>>
    BY <1>5 DEF Fail, Drains
  <2>2. size' = [size EXCEPT ![r] = @ + 2]
    BY <2>1 DEF Feed
  <2> QED BY <2>1, <2>2 DEF Log!Next, Log!Append2
<1> QED BY <1>1, <1>2, <1>3, <1>4, <1>5 DEF Drain

LEMMA ClientSteps ==
    ASSUME IInv, NEW c \in Clients, Start(c) \/ Resume(c) \/ Read(c) \/ Disconnect(c)
    PROVE  Log!Next \/ UNCHANGED LogVars
<1>1. RunTypes /\ ClientTypes /\ ClientInv /\ NoRun = 0 /\ MaxRuns \in Nat
  BY TypeParts, RunsAssumption DEF IInv, NoRun
<1>2. CASE Start(c) \/ Resume(c)
  <2>1. \E r \in Runs : Bind(c, r)
    <3>1. CASE Start(c)
      <4>1. Bind(c, started + 1) /\ started + 1 \in Runs
        BY <1>1, <3>1 DEF Start, RunTypes, Runs
      <4> QED BY <4>1
    <3>2. CASE Resume(c)
      <4>1. Bind(c, current) /\ current \in Runs
        BY <1>1, <3>2 DEF Resume, RunTypes, Runs
      <4> QED BY <4>1
    <3> QED BY <1>2, <3>1, <3>2
  <2>2. size' = size
    <3>1. CASE Start(c) /\ ~UNCHANGED size
      <4>1. current # NoRun /\ Feed(current, 0, TRUE)
        BY <3>1 DEF Start, Displace
      <4>2. current \in Runs
        BY <1>1, <4>1 DEF RunTypes, Runs
      <4> QED BY <4>1, <4>2, FeedAppends DEF IInv
    <3>2. CASE Resume(c)
      BY <3>2 DEF Resume, runVars
    <3> QED BY <1>2, <3>1, <3>2
  <2>3. \E r \in Runs : Log!Attach(c, r)
    BY <1>1, <2>1, <2>2 DEF Bind, Log!Attach, ClientInv
  <2> QED BY <2>3 DEF Log!Next
<1>3. CASE Read(c) \/ Disconnect(c)
  <2>1. size' = size /\ (Stays(c) \/ Leaves(c))
    BY <1>3, ClientMoves DEF Moves, Serves
  <2>2. CASE Stays(c)
    <3>1. CASE UNCHANGED <<pos, got>>
      BY <2>1, <2>2, <3>1 DEF Stays, LogVars
    <3>2. CASE pos[c] < size[bound[c]] /\ got' = [got EXCEPT ![c] = Append(@, pos[c])]
      <4>1. bound[c] # NoRun /\ pos[c] = Len(got[c]) /\ UNCHANGED <<size, bound>>
        BY <1>1, <2>1, <2>2 DEF Stays, ClientInv, ClientTypes, Reading
      <4>2. Log!Deliver(c)
        BY <3>2, <4>1 DEF Log!Deliver
      <4> QED BY <4>2 DEF Log!Next
    <3> QED BY <2>2, <3>1, <3>2 DEF Stays
  <2>3. CASE Leaves(c)
    <3>1. bound[c] # NoRun /\ \E how \in {"idle", "ended"} : Close(c, how)
      BY <1>1, <2>3 DEF Leaves, ClientInv, Reading
    <3>2. Log!Detach(c)
      BY <2>1, <3>1 DEF Close, Log!Detach
    <3> QED BY <3>2 DEF Log!Next
  <2> QED BY <2>1, <2>2, <2>3
<1> QED BY <1>2, <1>3

\* "Replay everything so far, then live": subscribe() is a reader of a log, for
\* every number of runs, events and clients.
THEOREM ReplaysTheLog == Spec => ImplementsReplayLog
<1>1. Init => Log!Init
  BY DEF Init, Log!Init
<1>2. IInv /\ [Next]_vars => [Log!Next]_(Log!vars)
  <2>1. ASSUME IInv, Next
        PROVE  Log!Next \/ UNCHANGED LogVars
    BY <2>1, RunSteps, ClientSteps DEF Next
  <2>2. UNCHANGED vars => UNCHANGED LogVars
    BY DEF vars, runVars, clientVars, LogVars
  <2> QED BY <2>1, <2>2 DEF LogVars, Log!vars
<1> QED BY <1>1, <1>2, RunsAreSound, PTL DEF Spec, ImplementsReplayLog, Log!Spec

-----------------------------------------------------------------------------
(* Chains of runs.  Whatever users do, a run is preceded by the one started   *)
(* just before it, waits for it only when it was told to go, and is itself    *)
(* past every earlier run, but for those behind one that never wrote.         *)

Going == {"new", "waiting"} \cup Writing        \* may still write

\* Between r and every earlier run that may still write stands one that never did.
Cleared(r) ==
    \A q \in Runs : q < r /\ pc[q] \in Going => \E m \in Runs : q < m /\ m < r /\ NeverWrote(m)

ToldToGo(p) == status[p] # "running" /\ (cancel[p] \/ pc[p] \in {"unwinding", "barrier"})

ChainOf(r) ==
    /\ prev[r] \in {NoRun, r - 1}
    /\ r = started /\ (status[r] # "running" \/ current = NoRun) => pc[r] \in {"barrier", "done"}
    /\ pc[r] \in {"unborn", "new", "waiting"} => size[r] = 0 /\ status[r] \in {"running", "stopped"}
    /\ pc[r] = "barrier" => NeverWrote(r)
    /\ pc[r] \in Writing => ~PrevAlive(r)
    /\ pc[r] # "unborn" /\ prev[r] = NoRun => Cleared(r)
    /\ pc[r] \in Writing \cup {"done"} => NeverWrote(r) \/ Cleared(r)
    /\ pc[r] # "unborn" /\ PrevAlive(r) => ToldToGo(prev[r])
ChainInv == current \in {NoRun, started} /\ \A r \in Runs : ChainOf(r)

\* A run that is over, or left _RUNS, hides no earlier one that may still write.
LEMMA PassesOn ==
    ASSUME NEW p \in Runs, NEW r \in Runs, r = p + 1, pc[p] \notin Going,
           NeverWrote(p) \/ Cleared(p)
    PROVE  Cleared(r)
<1> SUFFICES ASSUME NEW q \in Runs, q < r, pc[q] \in Going
             PROVE  \E m \in Runs : q < m /\ m < r /\ NeverWrote(m)
  BY DEF Cleared
<1>1. q < p /\ p < r /\ p \in Nat /\ r \in Nat /\ q \in Nat
  <2>1. q \in Nat /\ p \in Nat /\ r \in Nat /\ q # p
    BY DEF Runs
  <2> QED BY <2>1
<1>2. CASE NeverWrote(p)
  BY <1>1, <1>2
<1>3. CASE Cleared(p)
  <2>1. PICK m \in Runs : q < m /\ m < p /\ NeverWrote(m)
    BY <1>1, <1>3 DEF Cleared
  <2>2. m < r
    BY <1>1, <2>1 DEF Runs
  <2> QED BY <2>1, <2>2
<1> QED BY <1>2, <1>3

LEMMA PredecessorPassed ==
    ASSUME IInv, ChainInv, NEW r \in Runs, pc[r] # "unborn", ~PrevAlive(r)
    PROVE  Cleared(r)
<1>1. CASE prev[r] = NoRun
  BY <1>1 DEF ChainInv, ChainOf
<1>2. CASE prev[r] # NoRun
  <2> DEFINE p == prev[r]
  <2>1. p = r - 1 /\ p \in Runs /\ r = p + 1 /\ p <= started
    BY <1>2, RunsAssumption DEF IInv, RunInv, ChainInv, ChainOf, TypeOK, Runs, NoRun
  <2>2. pc[p] = "done"
    <3>1. pc[p] \notin Alive
      BY <1>2 DEF PrevAlive
    <3> HIDE DEF p
    <3>2. pc[p] \in Alive \cup {"unborn", "done"} /\ ~(p > started)
      <4>1. RunTypes /\ started \in Nat /\ p \in Nat
        BY <2>1, TypeParts, RunsAssumption DEF IInv, RunTypes, Runs
      <4> QED BY <2>1, <4>1 DEF RunTypes
    <3>3. pc[p] # "unborn"
      BY <2>1, <3>2 DEF IInv, RunInv
    <3> QED BY <3>1, <3>2, <3>3 DEF p
  <2>3. pc[p] \notin Going /\ (NeverWrote(p) \/ Cleared(p))
    BY <2>1, <2>2 DEF ChainInv, ChainOf, Going, Writing
  <2> QED BY <2>1, <2>3, PassesOn
<1> QED BY <1>1, <1>2

LEMMA ChainStart ==
    ASSUME IInv, ChainInv, NEW c \in Clients, Start(c)
    PROVE  ChainInv'
<1>0. PICK p : p = current
  OBVIOUS
<1>1. RunTypes /\ MaxRuns \in Nat /\ NoRun = 0 /\ started \in Nat /\ started <= MaxRuns
  BY TypeParts, RunsAssumption DEF IInv, NoRun, RunTypes
<1>10. PICK r \in Runs : r = started + 1
  BY <1>1 DEF Start, Runs
<1> DEFINE replaces == p # NoRun /\ pc[p] \in Alive
<1>2. /\ r \in Runs /\ started' = r /\ current' = r
      /\ prev' = [prev EXCEPT ![r] = IF replaces THEN p ELSE NoRun]
      /\ pc' = [pc EXCEPT ![r] = "new"]
      /\ cancel' = [q \in Runs |-> cancel[q] \/ (replaces /\ q = p)]
  BY <1>0, <1>10 DEF Start
<1>3. /\ pc[r] = "unborn" /\ status[r] = "running" /\ size[r] = 0
      /\ p # NoRun => p = started /\ p \in Runs /\ p # r
  BY <1>0, <1>1, <1>10 DEF ChainInv, ChainOf, RunTypes, Runs, IInv, RunInv
<1>4. size' = size /\ \/ replaces /\ status[p] = "running" /\ status' = [status EXCEPT ![p] = "stopped"]
                      \/ ~(replaces /\ status[p] = "running") /\ status' = status
  <2>1. CASE replaces /\ status[p] = "running"
    <3>1. size' = [size EXCEPT ![p] = @ + 0] /\ status' = [status EXCEPT ![p] = "stopped"]
      BY <1>0, <2>1 DEF Start, Displace, Feed
    <3> QED BY <1>1, <1>3, <2>1, <3>1 DEF RunTypes
  <2>2. CASE ~(replaces /\ status[p] = "running")
    BY <1>0, <2>2 DEF Start
  <2> QED BY <2>1, <2>2
<1>5. /\ pc'[r] = "new" /\ prev'[r] = (IF replaces THEN p ELSE NoRun) /\ status'[r] = "running"
      /\ size'[r] = 0
      /\ \A q \in Runs \ {r} : /\ pc'[q] = pc[q] /\ prev'[q] = prev[q] /\ size'[q] = size[q]
                               /\ cancel[q] => cancel'[q]
                               /\ status'[q] = status[q] \/ (status[q] = "running" /\ status'[q] = "stopped")
      /\ replaces => cancel'[p] /\ status'[p] # "running"
  BY <1>1, <1>2, <1>3, <1>4 DEF RunTypes
<1>6. \A q \in Runs : NeverWrote(q) => NeverWrote(q)'
  BY <1>3, <1>5 DEF NeverWrote
<1>7. ASSUME NEW q \in Runs, q < r, Cleared(q) PROVE Cleared(q)'
  <2>1. \A x \in Runs : x < q => x # r /\ pc'[x] = pc[x]
    BY <1>1, <1>5, <1>7, <1>10 DEF Runs
  <2>2. Going' = Going
    BY DEF Going, Writing
  <2> QED BY <1>6, <1>7, <2>1, <2>2 DEF Cleared
<1>8. ~replaces => Cleared(r)'
  <2>1. CASE started = 0
    BY <1>1, <1>10, <2>1 DEF Cleared, Runs
  <2>2. CASE started # 0 /\ ~replaces
    <3>1. started \in Runs /\ pc[started] # "unborn" /\ r = started + 1 /\ started # r
      BY <1>1, <1>10, <2>2 DEF Runs, IInv, RunInv
    <3>2. pc[started] \in {"barrier", "done"}
      BY <1>0, <1>1, <1>3, <2>2, <3>1 DEF ChainInv, ChainOf, RunTypes
    <3>3. pc[started] \notin Going /\ (NeverWrote(started) \/ Cleared(started))
      BY <3>1, <3>2 DEF ChainInv, ChainOf, Going, Writing
    <3>4. Cleared(r)
      BY <3>1, <3>3, PassesOn
    <3>5. \A x \in Runs : x < r => pc'[x] = pc[x]
      BY <1>1, <1>5, <1>10 DEF Runs
    <3> QED BY <1>6, <3>4, <3>5 DEF Cleared, Going, Writing
  <2> QED BY <2>1, <2>2
<1> HIDE DEF replaces
<1>9. ASSUME NEW q \in Runs PROVE ChainOf(q)'
  <2>1. CASE q = r
    <3>1. prev'[r] \in {NoRun, r - 1} /\ (prev'[r] = NoRun => Cleared(r)')
      BY <1>1, <1>3, <1>5, <1>8, <1>10 DEF replaces
    <3>2. PrevAlive(r)' => ToldToGo(prev[r])'
      BY <1>3, <1>5 DEF PrevAlive, ToldToGo, replaces
    <3>3. r # NoRun /\ "new" \notin Writing \cup {"done"}
      BY <1>1, <1>10 DEF Writing
    <3> QED BY <1>2, <1>5, <2>1, <3>1, <3>2, <3>3 DEF ChainOf
  <2>2. CASE q # r
    <3>1. q < r \/ pc[q] = "unborn"
      BY <1>1, <1>10, <2>2 DEF IInv, RunInv, Runs
    <3>2. ChainOf(q) /\ pc'[q] = pc[q] /\ prev'[q] = prev[q] /\ size'[q] = size[q]
      BY <1>5, <2>2 DEF ChainInv
    <3>3. ASSUME pc[q] # "unborn", prev[q] # NoRun
          PROVE  /\ prev[q] \in Runs \ {r}
                 /\ PrevAlive(q)' <=> PrevAlive(q)
      <4>1. prev[q] = q - 1 /\ q \in 1..started
        BY <1>1, <3>2, <3>3 DEF ChainOf, IInv, RunInv, Runs
      <4>2. prev[q] \in Runs \ {r}
        BY <1>1, <1>10, <3>3, <4>1 DEF Runs
      <4> QED BY <1>5, <3>2, <4>2 DEF PrevAlive, Alive, Writing
    <3>4. pc[q] # "unborn" /\ PrevAlive(q)' => ToldToGo(prev[q])'
      <4>1. ASSUME pc[q] # "unborn", PrevAlive(q)' PROVE ToldToGo(prev[q])'
        <5>1. prev[q] # NoRun
          BY <3>2, <4>1 DEF PrevAlive
        <5>2. ToldToGo(prev[q]) /\ prev[q] \in Runs \ {r}
          BY <3>2, <3>3, <4>1, <5>1 DEF ChainOf
        <5> QED BY <1>5, <3>2, <5>2 DEF ToldToGo
      <4> QED BY <4>1
    <3>5. pc[q] # "unborn" => (PrevAlive(q)' <=> PrevAlive(q))
      BY <3>2, <3>3 DEF PrevAlive
    <3> QED BY <1>2, <1>5, <1>6, <1>7, <2>2, <3>1, <3>2, <3>4, <3>5 DEF ChainOf, ToldToGo, Writing
  <2> QED BY <2>1, <2>2
<1> QED BY <1>2, <1>9 DEF ChainInv

LEMMA ChainDrain ==
    ASSUME IInv, ChainInv, NEW r \in Runs, Drain(r) \/ Publish(r)
    PROVE  ChainInv'
<1>1. RunTypes /\ UNCHANGED <<started, current, prev>>
  BY TypeParts
     DEF IInv, Drain, Begin, Proceed, Publish, Finish, Fail, Throw, Cancelled, LeaveBarrier, Drains
<1>2. /\ \A q \in Runs \ {r} : /\ pc'[q] = pc[q] /\ status'[q] = status[q] /\ size'[q] = size[q]
                               /\ cancel'[q] = cancel[q]
      /\ pc[r] \in Alive /\ pc[r] # "unborn"
      /\ pc'[r] \in {"waiting", "barrier", "done"} \cup Writing
  BY <1>1 DEF Drain, Begin, Proceed, Publish, Finish, Fail, Throw, Cancelled, LeaveBarrier,
              Terminate, Feed, RunTypes, Alive, Writing
<1>3. ChainOf(r) /\ (pc[r] = "new" /\ cancel[r] => status[r] = "stopped")
  BY DEF IInv, RunInv, ChainInv, ChainOf
<1>4. /\ pc'[r] = "waiting" => pc[r] = "new" /\ size'[r] = size[r] /\ status'[r] = status[r]
      /\ pc'[r] = "barrier" => \/ pc[r] = "waiting" /\ status'[r] = "stopped" /\ size'[r] = size[r]
                               \/ pc[r] = "unwinding" /\ PrevAlive(r)
      /\ pc'[r] \in Writing => pc[r] \in Writing \/ (pc[r] \in {"new", "waiting"} /\ ~PrevAlive(r))
      /\ pc'[r] = "done" => \/ pc[r] \in Writing
                            \/ /\ size'[r] = size[r]
                               /\ \/ pc[r] = "new" /\ cancel[r] /\ status'[r] = status[r]
                                  \/ pc[r] = "waiting" /\ status'[r] = "stopped"
                                  \/ pc[r] = "barrier" /\ status'[r] = status[r]
  <2>1. CASE Begin(r) \/ Proceed(r) \/ Throw(r) \/ LeaveBarrier(r)
    BY <1>1, <2>1 DEF Begin, Proceed, Throw, LeaveBarrier, Terminate, RunTypes, Writing
  <2>2. CASE Publish(r) \/ Finish(r) \/ Fail(r)
    BY <1>1, <2>2 DEF Publish, Finish, Fail, Terminate, RunTypes, Writing
  <2>3. CASE Cancelled(r)
    <3>1. size'[r] = size[r] /\ status'[r] = "stopped"
      BY <1>1, <2>3 DEF Cancelled, Feed, RunTypes
    <3>2. /\ pc[r] = "unwinding" \/ pc[r] = "waiting"
          /\ pc'[r] = "done" \/ (pc'[r] = "barrier" /\ PrevAlive(r))
      BY <1>1, <2>3 DEF Cancelled, Terminate, RunTypes
    <3> QED BY <3>1, <3>2 DEF Writing
  <2> QED BY <2>1, <2>2, <2>3 DEF Drain
<1>5. ToldToGo(r) => pc'[r] = "done" \/ ToldToGo(r)'
  BY <1>1, <1>2
     DEF Drain, Begin, Proceed, Publish, Finish, Fail, Throw, Cancelled, LeaveBarrier,
         Terminate, RunTypes, ToldToGo, Alive, Writing
<1>6. status'[r] = "running" \/ status[r] # "running" \/ pc'[r] \in {"barrier", "done"}
  BY <1>1 DEF Drain, Begin, Proceed, Publish, Finish, Fail, Throw, Cancelled, LeaveBarrier,
              Terminate, RunTypes
\* what follows for the others
<1>7. pc'[r] = "barrier" \/ (pc'[r] = "done" /\ pc[r] \notin Writing) => NeverWrote(r)'
  BY <1>3, <1>4 DEF ChainOf, NeverWrote, Writing
<1>8. \A q \in Runs : NeverWrote(q) => NeverWrote(q)'
  BY <1>2, <1>4, <1>7 DEF NeverWrote, Alive, Writing
<1>9. \A q \in Runs : Cleared(q) => Cleared(q)'
  <2>1. \A q \in Runs : pc'[q] \in Going => pc[q] \in Going
    BY <1>2, <1>4 DEF Going, Alive, Writing
  <2> QED BY <1>8, <2>1 DEF Cleared, Going, Writing
<1>10. \A q \in Runs : PrevAlive(q)' /\ pc[q] # "unborn" => PrevAlive(q)
  <2>1. ASSUME NEW q \in Runs, PrevAlive(q)' PROVE PrevAlive(q)
    <3>1. prev[q] # NoRun /\ pc'[prev[q]] \in Alive
      BY <1>1, <2>1 DEF PrevAlive, Alive, Writing
    <3>2. prev[q] \in Runs
      BY <1>1, <3>1, RunsAssumption DEF RunTypes, Runs, NoRun
    <3> QED BY <1>2, <3>1, <3>2 DEF PrevAlive
  <2> QED BY <2>1
<1>11. ASSUME NEW q \in Runs, pc[q] # "unborn", PrevAlive(q)' PROVE ToldToGo(prev[q])'
  <2>1. PrevAlive(q) /\ ToldToGo(prev[q]) /\ prev[q] \in Runs
    BY <1>1, <1>10, <1>11, RunsAssumption DEF ChainInv, ChainOf, PrevAlive, RunTypes, Runs, NoRun
  <2>2. pc'[prev[q]] # "done"
    BY <1>1, <1>11 DEF PrevAlive, Alive, Writing
  <2>3. CASE prev[q] = r
    BY <1>1, <1>5, <2>1, <2>2, <2>3 DEF ToldToGo
  <2>4. CASE prev[q] # r
    BY <1>1, <1>2, <2>1, <2>4 DEF ToldToGo
  <2> QED BY <2>3, <2>4
<1>12. pc'[r] \in Writing \cup {"done"} => NeverWrote(r)' \/ Cleared(r)
  <2>1. CASE pc[r] \in Writing
    BY <1>3, <2>1 DEF ChainOf, NeverWrote, Writing
  <2>2. CASE pc[r] \notin Writing /\ pc'[r] \in Writing
    BY <1>2, <1>4, <2>2, PredecessorPassed
  <2>3. CASE pc[r] \notin Writing /\ pc'[r] = "done"
    BY <1>7, <2>3
  <2> QED BY <2>1, <2>2, <2>3
<1>13. ASSUME NEW q \in Runs PROVE ChainOf(q)'
  <2>1. CASE q = r
    <3>1. r = started => pc'[r] \in {"barrier", "done"} \/ (status'[r] = "running" /\ current # NoRun)
      BY <1>2, <1>3, <1>4, <1>6 DEF ChainOf, Alive, Writing
    <3>2. pc'[r] \in Writing => ~PrevAlive(r)'
      BY <1>2, <1>3, <1>4, <1>10 DEF ChainOf
    <3>3. pc'[r] = "waiting" => size'[r] = 0 /\ status'[r] \in {"running", "stopped"}
      BY <1>3, <1>4 DEF ChainOf
    <3>4. /\ prev'[r] \in {NoRun, r - 1} /\ prev'[r] = prev[r]
          /\ prev[r] = NoRun => Cleared(r)'
      BY <1>1, <1>2, <1>3, <1>9 DEF ChainOf
    <3>5. pc'[r] \notin {"unborn", "new"}
      BY <1>2 DEF Writing
    <3>6. /\ pc'[r] = "barrier" => NeverWrote(r)'
          /\ pc'[r] \in Writing \cup {"done"} => NeverWrote(r)' \/ Cleared(r)'
          /\ PrevAlive(r)' => ToldToGo(prev[r])'
      BY <1>2, <1>7, <1>9, <1>11, <1>12
    <3> QED BY <1>1, <2>1, <3>1, <3>2, <3>3, <3>4, <3>5, <3>6 DEF ChainOf, Writing
  <2>2. CASE q # r
    <3>1. ChainOf(q) /\ pc'[q] = pc[q] /\ status'[q] = status[q] /\ size'[q] = size[q]
      BY <1>2, <2>2 DEF ChainInv
    <3>2. pc[q] # "unborn" => (PrevAlive(q)' => PrevAlive(q)) /\ (PrevAlive(q)' => ToldToGo(prev[q])')
      BY <1>10, <1>11
    <3>3. (NeverWrote(q) => NeverWrote(q)') /\ (Cleared(q) => Cleared(q)')
      BY <1>8, <1>9
    <3>4. pc[q] \in Writing => pc[q] # "unborn"
      BY DEF Writing
    <3> QED BY <1>1, <3>1, <3>2, <3>3, <3>4 DEF ChainOf, Writing
  <2> QED BY <2>1, <2>2
<1> QED BY <1>1, <1>13 DEF ChainInv

\* Readers, timers, resumes and Stop: at most the last run is forgotten, or a
\* cancellation added.
LEMMA ChainRest ==
    ASSUME IInv, ChainInv,
           \/ \E c \in Clients : Resume(c) \/ Read(c) \/ Disconnect(c)
           \/ \E r \in Runs : Evict(r)
           \/ Stop
           \/ UNCHANGED vars
    PROVE  ChainInv'
<1>1. /\ UNCHANGED <<started, status, prev, pc, size>>
      /\ \A q \in Runs : cancel[q] => cancel'[q]
      /\ current' # current => current' = NoRun /\ current \in Runs /\ status[current] # "running"
  <2>1. CASE \E c \in Clients : Read(c) \/ Disconnect(c)
    BY <2>1, ClientMoves DEF Moves, Serves
  <2>2. CASE (\E c \in Clients : Resume(c)) \/ UNCHANGED vars
    BY <2>2 DEF Resume, vars, runVars
  <2>3. CASE \E r \in Runs : Evict(r)
    BY <2>3 DEF Evict
  <2>4. CASE Stop
    BY <2>4, TypeParts DEF Stop, IInv, RunTypes
  <2> QED BY <2>1, <2>2, <2>3, <2>4
<1>2. current' \in {NoRun, started}
  BY <1>1 DEF ChainInv
<1>3. \A q \in Runs : (NeverWrote(q)' <=> NeverWrote(q)) /\ (PrevAlive(q)' <=> PrevAlive(q))
                      /\ (Cleared(q)' <=> Cleared(q))
  BY <1>1 DEF NeverWrote, PrevAlive, Cleared, Going, Writing, Alive
<1>4. ASSUME NEW q \in Runs PROVE ChainOf(q)'
  <2>1. ChainOf(q)
    BY DEF ChainInv
  <2>2. q = started /\ current' = NoRun => current = NoRun \/ status[q] # "running"
    BY <1>1 DEF ChainInv
  <2>3. ASSUME PrevAlive(q), ToldToGo(prev[q]) PROVE ToldToGo(prev[q])'
    <3>1. prev[q] \in Runs
      BY <2>3, TypeParts, RunsAssumption DEF IInv, RunTypes, PrevAlive, Runs, NoRun
    <3> QED BY <1>1, <2>3, <3>1 DEF ToldToGo
  <2> QED BY <1>1, <1>3, <2>1, <2>2, <2>3 DEF ChainOf, Writing
<1> QED BY <1>1, <1>2, <1>4 DEF ChainInv

LEMMA RunsAreChained == Spec => []ChainInv
<1>1. Init => ChainInv
  BY RunsAssumption DEF Init, ChainInv, ChainOf, PrevAlive, NeverWrote, Writing, NoRun, Runs
<1>2. IInv /\ ChainInv /\ [Next]_vars => ChainInv'
  BY ChainStart, ChainDrain, ChainRest DEF Next
<1> QED BY <1>1, <1>2, RunsAreSound, PTL DEF Spec

\* However often users press Stop and start anew, saves of two runs interleave only
\* across a run that was stopped before it published anything: what is left of
\* "sequential instead of interleaved" without any condition.
THEOREM OverlapsAreExplained == Spec => []OverlapsPastStopped
<1>1. ChainInv => OverlapsPastStopped
  <2>1. ASSUME ChainInv, NEW q \in Runs, NEW r \in Runs, q < r, pc[q] \in Writing, pc[r] \in Writing
        PROVE  \E m \in Runs : q < m /\ m < r /\ NeverWrote(m)
    <3>1. ~NeverWrote(r)
      BY <2>1 DEF NeverWrote, Writing
    <3>2. Cleared(r)
      BY <2>1, <3>1 DEF ChainInv, ChainOf
    <3> QED BY <2>1, <3>2 DEF Cleared, Going
  <2> QED BY <2>1 DEF OverlapsPastStopped
<1> QED BY <1>1, RunsAreChained, PTL

\* The wait of _drain for prev_task has an end: its predecessor is an earlier run on
\* its way out, so the chain of waits is finite and nobody waits for a run that goes on.
THEOREM WaitsAreForStopped == Spec => []WaitsForStopped
<1>1. IInv /\ ChainInv => WaitsForStopped
  <2>1. ASSUME IInv, ChainInv, NEW r \in Runs, pc[r] \in {"waiting", "barrier"}, PrevAlive(r)
        PROVE  prev[r] < r /\ ToldToGo(prev[r])
    <3>1. ToldToGo(prev[r]) /\ prev[r] \in {NoRun, r - 1} /\ prev[r] # NoRun
      BY <2>1 DEF ChainInv, ChainOf, PrevAlive
    <3> QED BY <3>1 DEF Runs
  <2> QED BY <2>1 DEF WaitsForStopped, ToldToGo
<1> QED BY <1>1, RunsAreSound, RunsAreChained, PTL

-----------------------------------------------------------------------------
(* The contract of a session.  A run that still counts as running is the one  *)
(* in _RUNS, and the one started last.                                        *)

LiveInv == \A r \in Runs : r <= started /\ status[r] = "running" => r = started /\ r = current

\* A step after which fewer runs count as running.
Settles(r) == /\ UNCHANGED <<started, current>>
              /\ status'[r] # "running" \/ status'[r] = status[r]
              /\ status' = [status EXCEPT ![r] = status'[r]]

LEMMA DrainSettles ==
    ASSUME IInv, NEW r \in Runs, Drain(r) \/ Publish(r)
    PROVE  Settles(r)
<1>1. RunTypes
  BY TypeParts DEF IInv
<1>2. CASE UNCHANGED <<started, current, status>>
  BY <1>1, <1>2 DEF Settles, RunTypes
<1>3. CASE Begin(r) \/ Proceed(r) \/ Throw(r) \/ LeaveBarrier(r) \/ Publish(r)
  BY <1>2, <1>3 DEF Begin, Proceed, Throw, LeaveBarrier, Publish, Drains
<1>4. CASE Finish(r) \/ Fail(r) \/ Cancelled(r)
  <2>1. /\ UNCHANGED <<started, current>>
        /\ \E x \in {"done", "error", "stopped", status[r]} :
              (x # "running" \/ x = status[r]) /\ status' = [status EXCEPT ![r] = x]
    BY <1>4 DEF Finish, Fail, Cancelled, Drains
  <2> QED BY <1>1, <2>1 DEF Settles, RunTypes
<1> QED BY <1>3, <1>4 DEF Drain

LEMMA LiveStep ==
    ASSUME IInv, LiveInv, [Next]_vars
    PROVE  LiveInv'
<1>1. /\ RunTypes /\ RunInv /\ started \in Nat /\ started <= MaxRuns /\ MaxRuns \in Nat
      /\ NoRun \notin Runs
  BY TypeParts, RunsAssumption DEF IInv, RunTypes, NoRun, Runs
<1>2. ASSUME NEW c \in Clients, Start(c) PROVE LiveInv'
  <2>1. PICK r \in Runs : r = started + 1
    BY <1>1, <1>2 DEF Start, Runs
  <2>2. started' = r /\ current' = r
    BY <1>2, <2>1 DEF Start
  <2>3. ASSUME NEW q \in Runs, q <= started', status'[q] = "running"
        PROVE  q = r
    <3>1. SUFFICES ASSUME q # r PROVE FALSE
      OBVIOUS
    <3>2. q <= started
      BY <1>1, <2>1, <2>2, <2>3, <3>1 DEF Runs
    <3>3. status[q] = "running"
      BY <1>1, <1>2, <2>3 DEF Start, Displace, RunTypes
    <3>4. q = current /\ pc[q] # "unborn"
      BY <1>1, <3>2, <3>3 DEF LiveInv, RunInv, Runs
    <3>5. pc[q] \in Alive /\ current # NoRun
      BY <1>1, <3>3, <3>4 DEF RunInv, Alive
    <3>6. status' = [status EXCEPT ![q] = "stopped"]
      BY <1>2, <3>3, <3>4, <3>5 DEF Start, Displace
    <3> QED BY <1>1, <2>3, <3>6 DEF RunTypes
  <2> QED BY <2>2, <2>3 DEF LiveInv
<1>3. ASSUME NEW r \in Runs, Evict(r) PROVE LiveInv'
  BY <1>3, <1>1 DEF Evict, LiveInv
<1>4. ASSUME NEW r \in Runs, Drain(r) \/ Publish(r) PROVE LiveInv'
  <2>1. Settles(r)
    BY <1>4, DrainSettles
  <2> QED BY <1>1, <2>1 DEF Settles, LiveInv, RunTypes
<1>5. ASSUME NEW c \in Clients, Resume(c) \/ Read(c) \/ Disconnect(c)
      PROVE  UNCHANGED <<started, current, status>>
  BY <1>5, ClientMoves DEF Resume, runVars, Moves, Serves
<1>6. CASE Stop \/ UNCHANGED vars
  BY <1>6 DEF Stop, vars, runVars, LiveInv
<1> QED BY <1>2, <1>3, <1>4, <1>5, <1>6 DEF Next, LiveInv

LEMMA ContractStart ==
    ASSUME IInv, LiveInv, NEW c \in Clients, Start(c)
    PROVE  Contract!Next
<1> DEFINE home == [r \in Runs |-> IF r <= started THEN "session" ELSE "none"]
           live == {r \in Runs : r <= started /\ status[r] = "running"}
<1>1. PICK r \in Runs : r = started + 1
  <2>1. started \in Nat /\ MaxRuns \in Nat
    BY TypeParts, RunsAssumption DEF IInv, RunTypes
  <2> QED BY <2>1 DEF Start, Runs
<1>2. /\ started' = r /\ LiveInv'
      /\ status[r] = "running" /\ status'[r] = "running" /\ started \in Nat /\ Runs \subseteq Nat
  <2>1. started' = r /\ RunTypes /\ RunInv /\ started \in Nat
    BY <1>1, TypeParts DEF Start, IInv, RunTypes
  <2>2. LiveInv'
    BY LiveStep DEF Next
  <2>3. status[r] = "running"
    BY <1>1, <2>1 DEF RunInv, Runs
  <2>4. status' = status \/ (current # r /\ status' = [status EXCEPT ![current] = "stopped"])
    <3>1. current # r
      BY <1>1, <2>1 DEF RunTypes
    <3> QED BY <3>1 DEF Start, Displace
  <2>5. status'[r] = "running"
    BY <1>1, <2>1, <2>3, <2>4 DEF RunTypes
  <2> QED BY <2>1, <2>2, <2>3, <2>5 DEF Runs
<1>3. home[r] = "none"
  BY <1>1, <1>2
<1>4. home' = [home EXCEPT ![r] = "session"]
  <2>1. \A q \in Runs : q <= started' <=> q <= started \/ q = r
    BY <1>1, <1>2
  <2> QED BY <2>1, <1>3
<1>5. live' = {r}
  <2>1. \A q \in Runs : q <= started' /\ status'[q] = "running" => q = started'
    BY <1>2 DEF LiveInv
  <2>2. r <= started'
    BY <1>2
  <2> QED BY <1>2, <2>1, <2>2
<1>6. {q \in live : home[q] # "session"} = {}
  OBVIOUS
<1>7. live' = {r} \cup {q \in live : home[q] # "session"}
  BY <1>5, <1>6
<1>8. Contract!Start(r, "session")
  BY <1>3, <1>4, <1>7 DEF Contract!Start
<1> QED BY <1>8 DEF Contract!Next

LEMMA ContractSettles ==
    ASSUME IInv, NEW r \in Runs, Settles(r)
    PROVE  Contract!Next \/ UNCHANGED (Contract!vars)
<1> DEFINE home == [q \in Runs |-> IF q <= started THEN "session" ELSE "none"]
           live == {q \in Runs : q <= started /\ status[q] = "running"}
<1>1. status \in [Runs -> Statuses]
  BY TypeParts DEF IInv, RunTypes, Statuses
<1>2. CASE status'[r] = status[r]
  <2>1. UNCHANGED <<started, status>>
    BY <1>1, <1>2 DEF Settles
  <2> QED BY <2>1 DEF Contract!vars
<1>3. CASE status'[r] # "running" /\ r \notin live
  <2>1. status[r] # "running" \/ ~(r <= started)
    BY <1>3
  <2>2. live' = live /\ home' = home
    BY <1>1, <1>3 DEF Settles
  <2> QED BY <2>2 DEF Contract!vars
<1>4. CASE status'[r] # "running" /\ r \in live
  <2>1. home' = home /\ live' = live \ {r}
    BY <1>1, <1>4 DEF Settles
  <2>2. Contract!EndRun(r)
    BY <1>4, <2>1 DEF Contract!EndRun
  <2> QED BY <2>2 DEF Contract!Next
<1> QED BY <1>2, <1>3, <1>4 DEF Settles

\* "Cancels any in-flight run for the same session first": for any users and clients,
\* the session has at most one run that counts as running, every start ends the last,
\* and no run that is over comes back.
THEOREM KeepsTheContract == Spec => OneRunAtATime
<1>1. Init => LiveInv /\ Contract!Init
  <2>1. Init => \A r \in Runs : ~(r <= started)
    BY DEF Init, Runs
  <2> QED BY <2>1 DEF Init, LiveInv, Contract!Init
<1>2. IInv /\ LiveInv /\ [Next]_vars => LiveInv' /\ [Contract!Next]_(Contract!vars)
  <2> SUFFICES ASSUME IInv, LiveInv, [Next]_vars
               PROVE  Contract!Next \/ UNCHANGED (Contract!vars)
    BY LiveStep
  <2>1. ASSUME UNCHANGED <<started, status>> PROVE UNCHANGED (Contract!vars)
    BY <2>1 DEF Contract!vars
  <2>2. ASSUME NEW c \in Clients, Start(c) PROVE Contract!Next
    BY <2>2, ContractStart
  <2>3. ASSUME NEW r \in Runs, Drain(r) \/ Publish(r) PROVE Contract!Next \/ UNCHANGED (Contract!vars)
    BY <2>3, DrainSettles, ContractSettles
  <2>4. ASSUME \/ \E c \in Clients : Resume(c) \/ Read(c) \/ Disconnect(c)
               \/ \E r \in Runs : Evict(r)
               \/ Stop \/ UNCHANGED vars
        PROVE  UNCHANGED <<started, status>>
    BY <2>4, ClientMoves DEF Resume, runVars, Moves, Serves, Evict, Stop, vars
  <2> QED BY <2>1, <2>2, <2>3, <2>4 DEF Next
<1> QED BY <1>1, <1>2, RunsAreSound, PTL DEF Spec, OneRunAtATime, Contract!Spec

-----------------------------------------------------------------------------
(* Serial runs.  Where nobody presses Stop and no run is replaced before its  *)
(* first instruction, every run waits for all that came before it.            *)

Serial == ~Stops /\ ~Overtakes

Over(r)  == pc[r] = "done"
First(r) == \A q \in Runs : q < r => Over(q)       \* all before r are over

OrderInv ==
    /\ current \in {NoRun, started}
    /\ \A r \in Runs : cancel[r] => r < started /\ pc[r] \notin {"unborn", "new", "barrier"}
    /\ \A r \in Runs : pc[r] \in {"barrier", "unwinding"} => r < started
    /\ \A r \in Runs : r = started /\ (status[r] # "running" \/ current = NoRun) => Over(r)
    /\ \A r \in Runs : prev[r] \in {NoRun, r - 1}
    /\ \A r \in Runs : pc[r] # "unborn" /\ prev[r] = NoRun => First(r)
    /\ \A r \in Runs : pc[r] \in Writing \cup {"done"} => First(r)

\* A run whose predecessor is over is the first that is not.
LEMMA PredecessorOver ==
    ASSUME IInv, OrderInv, NEW r \in Runs, pc[r] # "unborn", ~PrevAlive(r)
    PROVE  First(r)
<1>1. CASE prev[r] = NoRun
  BY <1>1 DEF OrderInv
<1>2. CASE prev[r] # NoRun
  <2>1. prev[r] = r - 1 /\ prev[r] \in Runs /\ r <= started
    BY <1>2, RunsAssumption DEF IInv, RunInv, OrderInv, TypeOK, Runs, NoRun
  <2>2. pc[prev[r]] \notin Alive /\ pc[prev[r]] # "unborn"
    BY <1>2, <2>1 DEF PrevAlive, IInv, RunInv, Runs, TypeOK
  <2>3. Over(prev[r]) /\ First(prev[r])
    BY <2>1, <2>2 DEF IInv, TypeOK, OrderInv, Over
  <2>4. \A q \in Runs : q < r => q < prev[r] \/ q = prev[r]
    BY <2>1 DEF Runs
  <2> QED BY <2>3, <2>4 DEF First
<1> QED BY <1>1, <1>2

LEMMA OrderStart ==
    ASSUME Serial, IInv, OrderInv, NEW c \in Clients, Start(c)
    PROVE  OrderInv'
<1> DEFINE p == current
           r == started + 1
           replaces == p # NoRun /\ pc[p] \in Alive
<1>1. RunTypes /\ MaxRuns \in Nat /\ NoRun = 0 /\ started \in Nat /\ started <= MaxRuns
  BY TypeParts, RunsAssumption DEF IInv, NoRun, RunTypes
<1>2. \A q \in Runs : pc[q] # "new"
  BY Zenon DEF Start, Serial
<1>3. /\ r \in Runs /\ started' = r /\ current' = r
      /\ prev' = [prev EXCEPT ![r] = IF replaces THEN p ELSE NoRun]
      /\ pc' = [pc EXCEPT ![r] = "new"]
      /\ cancel' = [q \in Runs |-> cancel[q] \/ (replaces /\ q = p)]
  BY <1>1 DEF Start, Runs
<1>4. /\ pc[r] = "unborn" /\ status[r] = "running" /\ ~cancel[r]
      /\ p # NoRun => p = started /\ p \in Runs /\ p # r
  BY <1>1, <1>3 DEF OrderInv, RunTypes, Runs, IInv, RunInv
<1>5. status'[r] = "running"
  <2>1. CASE replaces /\ status[p] = "running"
    BY <1>1, <1>3, <1>4, <2>1 DEF Start, Displace, RunTypes
  <2>2. CASE ~(replaces /\ status[p] = "running")
    BY <1>4, <2>2 DEF Start, Displace
  <2> QED BY <2>1, <2>2
<1>6. ~replaces => First(r)
  <2>1. CASE started = 0
    BY <1>1, <2>1 DEF First, Runs
  <2>2. CASE started # 0 /\ ~replaces
    <3>1. started \in Runs /\ pc[started] # "unborn"
      BY <1>1, <2>2 DEF Runs, IInv, RunInv
    <3>2. Over(started)
      BY <1>1, <1>4, <2>2, <3>1 DEF OrderInv, RunTypes, Over
    <3>3. First(started)
      BY <3>1, <3>2 DEF OrderInv, Over
    <3>4. \A q \in Runs : q < r => q < started \/ q = started
      BY <1>1 DEF Runs
    <3> QED BY <3>2, <3>3, <3>4 DEF First
  <2> QED BY <2>1, <2>2
<1>7. /\ pc'[r] = "new" /\ prev'[r] = (IF replaces THEN p ELSE NoRun) /\ ~cancel'[r]
      /\ \A q \in Runs \ {r} : pc'[q] = pc[q] /\ prev'[q] = prev[q]
      /\ \A q \in Runs \ {r} : cancel'[q] => cancel[q] \/ (q = started /\ pc[q] \in Alive)
  BY <1>1, <1>3, <1>4 DEF RunTypes
<1>8. \A q \in Runs : First(q) => First(q)'
  BY <1>4, <1>7 DEF First, Over
<1> HIDE DEF p, replaces
<1>9. ASSUME NEW q \in Runs
      PROVE  /\ cancel'[q] => q < started' /\ pc'[q] \notin {"unborn", "new", "barrier"}
             /\ pc'[q] \in {"barrier", "unwinding"} => q < started'
             /\ q = started' /\ (status'[q] # "running" \/ current' = NoRun) => Over(q)'
             /\ prev'[q] \in {NoRun, q - 1}
             /\ pc'[q] # "unborn" /\ prev'[q] = NoRun => First(q)'
             /\ pc'[q] \in Writing \cup {"done"} => First(q)'
  <2>1. CASE q = r
    <3>1. prev'[r] \in {NoRun, r - 1} /\ (prev'[r] = NoRun => First(r))
      BY <1>1, <1>4, <1>6, <1>7 DEF replaces, p
    <3> QED BY <1>1, <1>3, <1>5, <1>7, <1>8, <2>1, <3>1 DEF Writing
  <2>2. CASE q # r
    <3>1. /\ cancel'[q] => q < started' /\ pc'[q] \notin {"unborn", "new", "barrier"}
          /\ pc'[q] \in {"barrier", "unwinding"} => q < started'
      BY <1>1, <1>2, <1>3, <1>7, <2>2 DEF OrderInv, Alive, Writing, Runs
    <3> QED BY <1>1, <1>3, <1>7, <1>8, <2>2, <3>1 DEF OrderInv
  <2> QED BY <2>1, <2>2
<1> QED BY <1>3, <1>9 DEF OrderInv

LEMMA OrderDrain ==
    ASSUME IInv, OrderInv, NEW r \in Runs, Drain(r) \/ Publish(r)
    PROVE  OrderInv'
<1>1. RunTypes /\ UNCHANGED <<started, current, prev>>
  BY TypeParts
     DEF IInv, Drain, Begin, Proceed, Publish, Finish, Fail, Throw, Cancelled, LeaveBarrier, Drains
<1>2. /\ cancel' \in {cancel, [cancel EXCEPT ![r] = FALSE]}
      /\ \A q \in Runs \ {r} : pc'[q] = pc[q] /\ status'[q] = status[q]
      /\ pc[r] # "unborn" /\ pc[r] # "done"
      /\ status'[r] # "running" => status[r] # "running" \/ pc'[r] \in {"done", "barrier"}
  BY <1>1 DEF Drain, Begin, Proceed, Publish, Finish, Fail, Throw, Cancelled, LeaveBarrier,
              Terminate, RunTypes
<1>3. /\ pc'[r] # "unborn"
      /\ pc'[r] = "barrier" => ~cancel'[r] /\ (pc[r] = "unwinding" \/ cancel[r])
      /\ pc'[r] = "unwinding" => cancel[r] \/ pc[r] = "unwinding"
      /\ pc'[r] = "new" => UNCHANGED cancel /\ pc[r] = "new"
      /\ pc'[r] \in Writing \cup {"done"} => ~PrevAlive(r) \/ pc[r] \in Writing
  BY <1>1 DEF Drain, Begin, Proceed, Publish, Finish, Fail, Throw, Cancelled, LeaveBarrier,
              Terminate, RunTypes, Writing, OrderInv
<1>4. \A q \in Runs : First(q) => First(q)'
  BY <1>2 DEF First, Over
<1>5. pc'[r] \in Writing \cup {"done"} => First(r)
  BY <1>2, <1>3, PredecessorOver DEF OrderInv
<1>6. ASSUME NEW q \in Runs
      PROVE  /\ cancel'[q] => q < started' /\ pc'[q] \notin {"unborn", "new", "barrier"}
             /\ pc'[q] \in {"barrier", "unwinding"} => q < started'
             /\ q = started' /\ (status'[q] # "running" \/ current' = NoRun) => Over(q)'
             /\ prev'[q] \in {NoRun, q - 1}
             /\ pc'[q] # "unborn" /\ prev'[q] = NoRun => First(q)'
             /\ pc'[q] \in Writing \cup {"done"} => First(q)'
  <2>1. CASE q = r
    <3>1. cancel'[r] => cancel[r]
      BY <1>1, <1>2 DEF RunTypes
    <3>2. pc'[r] \in {"barrier", "unwinding"} => r < started
      BY <1>1, <1>3 DEF OrderInv
    <3>3. r = started /\ (status'[r] # "running" \/ current' = NoRun) => Over(r)'
      <4>1. r = started => status[r] = "running" /\ current' # NoRun
        BY <1>1, <1>2 DEF OrderInv, Over
      <4>2. r = started => pc'[r] # "barrier"
        BY <1>1, <3>2 DEF RunTypes
      <4> QED BY <1>2, <4>1, <4>2 DEF Over
    <3>4. cancel'[r] => pc'[r] \notin {"unborn", "new", "barrier"}
      BY <1>1, <1>3, <3>1 DEF OrderInv
    <3>5. r < started \/ ~cancel[r]
      BY DEF OrderInv
    <3> QED BY <1>1, <1>2, <1>4, <1>5, <2>1, <3>1, <3>2, <3>3, <3>4, <3>5 DEF OrderInv
  <2>2. CASE q # r
    <3>1. pc'[q] = pc[q] /\ status'[q] = status[q] /\ cancel'[q] = cancel[q]
      BY <1>1, <1>2, <2>2 DEF RunTypes
    <3> QED BY <1>1, <1>4, <3>1 DEF OrderInv, Over
  <2> QED BY <2>1, <2>2
<1> QED BY <1>1, <1>6 DEF OrderInv

\* Readers, timers and resumes leave the order of the runs alone.
LEMMA OrderRest ==
    ASSUME Serial, IInv, OrderInv,
           \/ \E c \in Clients : Resume(c) \/ Read(c) \/ Disconnect(c)
           \/ \E r \in Runs : Evict(r)
           \/ Stop
           \/ UNCHANGED vars
    PROVE  OrderInv'
<1>1. ~Stop
  BY Zenon DEF Stop, Serial
<1>2. /\ UNCHANGED <<started, status, prev, pc, cancel>>
      /\ current' # current => current' = NoRun /\ current \in Runs /\ status[current] # "running"
  <2>1. CASE \E c \in Clients : Read(c) \/ Disconnect(c)
    BY <2>1, ClientMoves DEF Moves, Serves
  <2>2. CASE (\E c \in Clients : Resume(c)) \/ UNCHANGED vars
    BY <2>2 DEF Resume, vars, runVars
  <2>3. CASE \E r \in Runs : Evict(r)
    BY <2>3 DEF Evict
  <2> QED BY <1>1, <2>1, <2>2, <2>3
<1> QED BY <1>2 DEF OrderInv, First, Over

LEMMA RunsInOrder == ASSUME Serial PROVE Spec => []OrderInv
<1>1. Init => OrderInv
  BY RunsAssumption DEF Init, OrderInv, First, Over, Runs, NoRun, Writing
<1>2. IInv /\ OrderInv /\ [Next]_vars => OrderInv'
  BY OrderStart, OrderDrain, OrderRest DEF Next
<1> QED BY <1>1, <1>2, RunsAreSound, PTL DEF Spec

\* "Keeps the two runs' session saves sequential instead of interleaved": true
\* where nobody presses Stop and every run begins before it is replaced.
THEOREM SavesAreSerial == ASSUME Serial PROVE Spec => []SerialSaves
<1>1. IInv /\ OrderInv => SerialSaves
  <2>1. ASSUME IInv, OrderInv, NEW q \in Runs, NEW r \in Runs, pc[q] \in Writing, pc[r] \in Writing
        PROVE  q = r
    <3>1. First(q) /\ First(r) /\ ~Over(q) /\ ~Over(r)
      BY <2>1 DEF OrderInv, Over, Writing
    <3>2. q < r \/ r < q \/ q = r
      BY DEF Runs
    <3> QED BY <3>1, <3>2 DEF First
  <2> QED BY <2>1 DEF SerialSaves
<1> QED BY <1>1, RunsAreSound, RunsInOrder, PTL

\* is_active keeps compaction and the background monitor off the session as long
\* as a run of it may save: true under the same condition.
THEOREM ActiveWhileWriting == ASSUME Serial PROVE Spec => []WritersAreActive
<1>1. IInv /\ OrderInv => WritersAreActive
  <2>1. ASSUME IInv, OrderInv, NEW r \in Runs, pc[r] \in Writing
        PROVE  current # NoRun /\ status[current] = "running"
    <3>1. r <= started /\ started \in Runs /\ First(r)
      BY <2>1, RunsAssumption DEF IInv, TypeOK, RunInv, OrderInv, Writing, Runs
    <3>2. ~Over(started)
      <4>1. ASSUME Over(started)
            PROVE  FALSE
        <5>1. First(started) /\ ~Over(r)
          BY <2>1, <3>1, <4>1 DEF OrderInv, Over, Writing
        <5>2. r = started
          BY <3>1, <5>1 DEF First, Runs
        <5> QED BY <4>1, <5>1, <5>2
      <4> QED BY <4>1
    <3> QED BY <2>1, <3>1, <3>2 DEF OrderInv
  <2> QED BY <2>1 DEF WritersAreActive
<1> QED BY <1>1, RunsAreSound, RunsInOrder, PTL
=============================================================================
