---------------------------- MODULE SongListProofs ----------------------------
(***************************************************************************)
(* Theorems about SongList for every finite set of songs, every set of     *)
(* requests and every number of songs that are downloaded ahead, proved    *)
(* with TLAPS.                                                             *)
(***************************************************************************)
EXTENDS SongList, FiniteSetTheorems, SumLemmas, TLAPS

-----------------------------------------------------------------------------
(* What the requests compute is made of numbers. *)

LEMMA Constants ==
    /\ Songs \subseteq Nat /\ IsFiniteSet(Songs) /\ Ahead \in Nat \ {0}
    /\ Kinds \subseteq AllKinds /\ NewOrders \subseteq Order
    /\ None \notin Int /\ Absent \notin Order /\ Unknown \notin Row
    /\ Order \subseteq Row /\ None \in Order /\ Absent \in Row /\ Int \subseteq Order
    /\ Nothing \in Rows
BY SongListAssumption DEF Order, Row, Rows, Nothing

LEMMA Counted ==
    ASSUME NEW S, S \subseteq Songs
    PROVE  IsFiniteSet(S) /\ Cardinality(S) \in Nat
BY Constants, FS_Subset, FS_CardinalityType

LEMMA InListSongs == ASSUME NEW l PROVE Queued(l) \subseteq InList(l) /\ InList(l) \subseteq Songs
BY DEF Queued, InList

LEMMA OrdersOfQueued ==
    ASSUME NEW l \in Rows, NEW s \in Queued(l)
    PROVE  s \in Songs /\ l[s] \in Int
BY DEF Queued, InList, Rows, Row, Order

(* A non-empty set of queued songs has one of the highest order. *)
LEMMA HighestExists ==
    ASSUME NEW l \in Rows, NEW T, T \subseteq Queued(l), T # {}
    PROVE  \E m \in T : \A t \in T : l[t] <= l[m]
<1>. DEFINE Highest(U) == \E m \in U : \A t \in U : l[t] <= l[m]
            S == {n \in Nat : \A U \in SUBSET Queued(l) : Cardinality(U) = n + 1 => Highest(U)}
<1>1. \A U \in SUBSET Queued(l) : IsFiniteSet(U) /\ Cardinality(U) \in Nat
  BY Counted, InListSongs
<1>2. 0 \in S
  <2>1. ASSUME NEW U \in SUBSET Queued(l), Cardinality(U) = 0 + 1 PROVE Highest(U)
    <3>1. IsFiniteSet(U) /\ Cardinality(U) = 1
      BY <1>1, <2>1
    <3>2. PICK x : U = {x}
      BY <3>1, FS_Singleton
    <3>3. l[x] \in Int
      BY <3>2, OrdersOfQueued
    <3>. QED  BY <3>2, <3>3
  <2>. QED  BY <2>1
<1>3. ASSUME NEW n \in S PROVE n + 1 \in S
  <2>1. ASSUME NEW U \in SUBSET Queued(l), Cardinality(U) = (n + 1) + 1 PROVE Highest(U)
    <3>1. U # {}
      BY <2>1, FS_EmptySet
    <3>2. PICK x \in U : TRUE
      BY <3>1
    <3>3. Cardinality(U \ {x}) = n + 1
      BY <1>1, <2>1, <3>2, FS_RemoveElement
    <3>4. Highest(U \ {x})
      BY <3>3
    <3>5. PICK m \in U \ {x} : \A t \in U \ {x} : l[t] <= l[m]
      BY <3>4
    <3>6. \A t \in U : l[t] \in Int
      BY OrdersOfQueued
    <3>7. CASE l[x] <= l[m]
      <4>1. \A t \in U : l[t] <= l[m]
        BY <3>5, <3>7
      <4>. QED  BY <4>1
    <3>8. CASE ~(l[x] <= l[m])
      <4>1. \A t \in U : l[t] <= l[x]
        BY <3>2, <3>5, <3>6, <3>8
      <4>. QED  BY <3>2, <4>1
    <3>. QED  BY <3>7, <3>8
  <2>. QED  BY <2>1
<1>4. S = Nat
  <2>1. S \subseteq Nat
    OBVIOUS
  <2>. HIDE DEF S
  <2>. QED  BY <1>2, <1>3, <2>1, InductionOnSet
<1>5. Cardinality(T) \in Nat /\ Cardinality(T) # 0
  BY <1>1, FS_EmptySet
<1>6. Cardinality(T) - 1 \in S /\ Cardinality(T) = (Cardinality(T) - 1) + 1
  BY <1>4, <1>5
<1>. QED  BY <1>6

LEMMA MaxOrderNumber ==
    ASSUME NEW l \in Rows
    PROVE  MaxOrder(l) \in Int
<1>1. CASE Queued(l) = {}
  BY <1>1 DEF MaxOrder
<1>2. CASE Queued(l) # {}
  <2>. DEFINE Orders == {l[s] : s \in Queued(l)}
  <2>1. \E m \in Orders : \A s \in Queued(l) : l[s] <= m
    BY <1>2, HighestExists
  <2>2. MaxOrder(l) \in Orders
    BY <1>2, <2>1 DEF MaxOrder
  <2>. QED  BY <2>2, OrdersOfQueued
<1>. QED  BY <1>1, <1>2

LEMMA AddedRows ==
    ASSUME NEW l \in Rows, \A s \in Songs : l[s] # Unknown,
           NEW new, new \subseteq Songs, NEW atEnd \in BOOLEAN
    PROVE  Added(l, new, atEnd) \in [Songs -> Row]
<1>1. MaxOrder(l) \in Int /\ Cardinality(new) \in Nat
  BY MaxOrderNumber, Counted
<1>2. \A s \in Songs : Place(new, s) \in Nat
  BY Counted DEF Place
<1>3. ASSUME NEW s \in Songs PROVE Added(l, new, atEnd)[s] \in Row
  <2>1. CASE s \in new
    BY <1>1, <1>2, <2>1 DEF Added, Row, Order
  <2>2. CASE s \notin new /\ ~atEnd /\ s \in Queued(l)
    BY <1>1, <2>2, OrdersOfQueued DEF Added, Row, Order
  <2>3. CASE s \notin new /\ ~(~atEnd /\ s \in Queued(l))
    BY <2>3 DEF Added, Rows
  <2>. QED  BY <2>1, <2>2, <2>3
<1>. QED  BY <1>3 DEF Added

LEMMA RemovedRows ==
    ASSUME NEW l, NEW gone
    PROVE  /\ Removed(l, gone) \in Rows
           /\ \A s \in Songs : Removed(l, gone)[s] # None
<1>1. ASSUME NEW s \in Songs
      PROVE  Removed(l, gone)[s] \in Nat \cup {Absent, Unknown}
  <2>. DEFINE before(t) == l[t] < l[s] \/ (l[t] = l[s] /\ t <= s)
              rank == Cardinality({t \in Queued(l) : before(t)})
  <2>1. rank \in Nat
    BY InListSongs, Counted
  <2>2. Removed(l, gone)[s] \in {Absent, Unknown, rank}
    BY DEF Removed
  <2>. QED  BY <2>1, <2>2
<1>2. Removed(l, gone) = [s \in Songs |-> Removed(l, gone)[s]]
  BY DEF Removed
<1>3. Nat \cup {Absent, Unknown} \subseteq Row \cup {Unknown} /\ None \notin Nat \cup {Absent, Unknown}
  BY Constants DEF Row, Order
<1>. QED  BY <1>1, <1>2, <1>3 DEF Rows

(* A shuffle numbers its rows 1 .. n, each number once. *)
LEMMA ShuffleNumbers ==
    ASSUME NEW S, S \subseteq Songs, NEW f \in Shuffles(S)
    PROVE  f \in [S -> Nat] /\ {f[s] : s \in S} = 1 .. Cardinality(S)
<1>. DEFINE n == Cardinality(S)
<1>1. IsFiniteSet(S) /\ n \in Nat
  BY Counted
<1>2. f \in [S -> 1 .. n] /\ \A s, t \in S : s # t => f[s] # f[t]
  BY DEF Shuffles
<1>. HIDE DEF n
<1>3. f \in Injection(S, 1 .. n)
  BY <1>2 DEF Injection, IsInjective
<1>4. IsFiniteSet(1 .. n) /\ Cardinality(1 .. n) = n
  BY <1>1, FS_Interval
<1>5. f \in Surjection(S, 1 .. n)
  BY <1>3, <1>4, FS_Injection DEF n
<1>6. \A i \in 1 .. n : \E s \in S : f[s] = i
  BY <1>5 DEF Surjection
<1>7. {f[s] : s \in S} = 1 .. n
  BY <1>2, <1>6
<1>. QED  BY <1>1, <1>2, <1>7 DEF n

(* The head of a queue is made of songs of the list. *)
LEMMA QueueSongs ==
    ASSUME NEW l, NEW q \in Queues(l)
    PROVE  /\ q \in Seq(Songs) /\ q \in Seq(Queued(l))
           /\ Len(q) \in Nat /\ \A i \in 1 .. Len(q) : q[i] \in Queued(l)
           /\ FirstSongs(q) \subseteq InList(l) /\ FirstSongs(q) \subseteq Songs
           /\ q # <<>> => q[1] \in Songs
<1>. DEFINE n == Cardinality(Queued(l))
<1>1. n \in Nat
  BY InListSongs, Counted
<1>2. q \in [1 .. n -> Queued(l)]
  BY DEF Queues
<1>3. Queued(l) \subseteq InList(l) /\ InList(l) \subseteq Songs
  BY InListSongs
<1>. HIDE DEF n
<1>4. q \in Seq(Queued(l)) /\ Len(q) = n
  BY <1>1, <1>2
<1>5. \A i \in 1 .. Len(q) : q[i] \in Queued(l)
  BY <1>2, <1>4
<1>6. q \in Seq(Songs)
  BY <1>3, <1>4
<1>7. FirstSongs(q) \subseteq Queued(l)
  BY <1>1, <1>4, <1>5, Constants DEF FirstSongs
<1>8. q # <<>> => 1 \in 1 .. Len(q)
  BY <1>4
<1>. QED  BY <1>1, <1>3, <1>4, <1>5, <1>6, <1>7, <1>8

-----------------------------------------------------------------------------
(* Types: what is stored, and what the requests hold. *)
ListType == list \in [Songs -> Row]

MediaType == asked \in SUBSET Songs /\ todo \in SUBSET Songs /\ ready \in SUBSET Songs

RoomType ==
    /\ status \in {"WAITING", "RUNNING"} /\ index \in Nat \cup {None}
    /\ playing \in Songs \cup {None}
    /\ gpc \in {"idle", "play", "commit", "done"} /\ game \in Seq(Songs)

JobType == pc \in [Requests -> Labels] /\ job \in [Requests -> Job]

SessionType ==
    /\ known \in [Requests -> Rows] /\ mine \in [Requests -> Rows] /\ wrote \in [Requests -> Rows]
    /\ first \in [Requests -> SUBSET Songs] /\ tokens \in [Requests -> SUBSET Songs]

(* A running game has an index, and a game that starts has songs. *)
GameHasSongs ==
    /\ status = "RUNNING" => index # None
    /\ gpc = "play" => game # <<>>

TypeInv == ListType /\ MediaType /\ RoomType /\ JobType /\ SessionType /\ GameHasSongs

LEMMA TypeParts == TypeOK <=> ListType /\ MediaType /\ RoomType /\ JobType /\ SessionType
BY Zenon DEF TypeOK, ListType, MediaType, RoomType, JobType, SessionType

LEMMA Job0Typed ==
    /\ Job0 \in Job
    /\ \A k \in AllKinds : [Job0 EXCEPT !.kind = k] \in Job
BY Constants DEF Job0, Job, AllKinds

LEMMA ListRows ==
    ASSUME ListType
    PROVE  list \in Rows /\ \A s \in Songs : list[s] # Unknown /\ list[s] \in Row
BY Constants DEF ListType, Rows

LEMMA Views ==
    ASSUME ListType, SessionType, NEW r \in Requests
    PROVE  /\ View(r) \in [Songs -> Row]
           /\ \A s \in Songs : View(r)[s] = IF wrote[r][s] # Unknown THEN wrote[r][s] ELSE list[s]
BY DEF ListType, SessionType, View, Rows

LEMMA Overlays ==
    ASSUME NEW f \in Rows, NEW goal \in Rows, NEW S
    PROVE  Overlay(f, goal, S) \in Rows
BY DEF Overlay, Rows

(* A request ends, with its response or with its preload given up. *)
Leaves(r) == Return(r) \/ Leave(r, "dropped")

LEMMA Returned ==
    ASSUME JobType, SessionType, NEW r \in Requests, Leaves(r)
    PROVE  /\ JobType' /\ SessionType'
           /\ pc'[r] \in {"done", "dropped"} /\ job'[r].kind = job[r].kind
           /\ Return(r) => pc'[r] = "done"
           /\ wrote'[r] = Nothing /\ mine'[r] = Nothing /\ known'[r] = Nothing
           /\ first'[r] = {} /\ tokens'[r] = {}
           /\ \A q \in Requests : q # r =>
                /\ pc'[q] = pc[q] /\ job'[q] = job[q] /\ first'[q] = first[q] /\ tokens'[q] = tokens[q]
                /\ known'[q] = known[q] /\ mine'[q] = mine[q] /\ wrote'[q] = wrote[q]
           /\ gpc' = gpc /\ game' = game
<1>0. PICK l \in {"done", "dropped"} : Leave(r, l) /\ (Return(r) => l = "done")
  <2>1. CASE Return(r)
    BY <2>1 DEF Return
  <2>2. CASE Leave(r, "dropped") /\ ~Return(r)
    BY <2>2
  <2>. QED  BY <2>1, <2>2 DEF Leaves
<1>1. job[r] \in Job /\ job[r].kind \in AllKinds
  BY DEF JobType, Job
<1>2. [Job0 EXCEPT !.kind = job[r].kind] \in Job
  BY <1>1, Job0Typed
<1>3. job' = [job EXCEPT ![r] = [Job0 EXCEPT !.kind = job[r].kind]]
  BY <1>0 DEF Leave
<1>4. job'[r].kind = job[r].kind
  BY <1>3 DEF JobType, Job0
<1>5. job' \in [Requests -> Job]
  BY <1>2, <1>3 DEF JobType
<1>6. pc' = [pc EXCEPT ![r] = l] /\ l \in Labels
  BY <1>0 DEF Leave, Goto, Labels
<1>7. JobType'
  BY <1>5, <1>6 DEF JobType
<1>8. SessionType'
  BY <1>0, Constants DEF SessionType, Leave
<1>9. pc'[r] = l /\ \A q \in Requests : q # r => pc'[q] = pc[q]
  BY <1>6 DEF JobType
<1>10. \A q \in Requests : q # r => job'[q] = job[q]
  BY <1>3 DEF JobType
<1>11. gpc' = gpc /\ game' = game
  BY <1>0 DEF Leave, start
<1>12. /\ wrote'[r] = Nothing /\ mine'[r] = Nothing /\ known'[r] = Nothing
       /\ first'[r] = {} /\ tokens'[r] = {}
       /\ \A q \in Requests : q # r =>
            /\ first'[q] = first[q] /\ tokens'[q] = tokens[q]
            /\ known'[q] = known[q] /\ mine'[q] = mine[q] /\ wrote'[q] = wrote[q]
  BY <1>0 DEF SessionType, Leave
<1>. QED  BY <1>0, <1>4, <1>7, <1>8, <1>9, <1>10, <1>11, <1>12

LEMMA Stepped ==
    ASSUME JobType, NEW r \in Requests, NEW l, NEW m \in Labels, Step(r, l, m)
    PROVE  /\ JobType' /\ pc[r] = l /\ pc'[r] = m
           /\ \A q \in Requests : q # r => pc'[q] = pc[q]
           /\ job' = job /\ gpc' = gpc /\ game' = game
BY DEF Step, Goto, JobType, start

LEMMA RowsLoaded ==
    ASSUME JobType, NEW r \in Requests, NEW m \in Labels, Loaded(r, m)
    PROVE  /\ JobType' /\ pc[r] = "load" /\ pc'[r] = m /\ job'[r].kind = job[r].kind
           /\ \A q \in Requests : q # r => pc'[q] = pc[q] /\ job'[q] = job[q]
           /\ gpc' = gpc /\ game' = game
<1>1. job' = [job EXCEPT ![r] = [job[r] EXCEPT !.ids = {}, !.orders = Nothing]]
  BY DEF Loaded, JobType
<1>2. job[r] \in Job
  BY DEF JobType
<1>3. [job[r] EXCEPT !.ids = {}, !.orders = Nothing] \in Job
  BY <1>2, Constants DEF Job
<1>4. job' \in [Requests -> Job] /\ job'[r].kind = job[r].kind
  BY <1>1, <1>2, <1>3 DEF JobType, Job
<1>5. pc' = [pc EXCEPT ![r] = m] /\ pc[r] = "load" /\ gpc' = gpc /\ game' = game
  BY DEF Loaded, Goto, start
<1>6. \A q \in Requests : q # r => job'[q] = job[q]
  BY <1>1 DEF JobType
<1>. QED  BY <1>4, <1>5, <1>6 DEF JobType

LEMMA Held ==
    ASSUME SessionType, NEW r \in Requests, NEW k \in Rows, NEW m \in Rows, NEW w \in Rows,
           Hold(r, k, m, w)
    PROVE  /\ SessionType' /\ known'[r] = k /\ mine'[r] = m /\ wrote'[r] = w
           /\ \A q \in Requests : q # r =>
                known'[q] = known[q] /\ mine'[q] = mine[q] /\ wrote'[q] = wrote[q]
           /\ first' = first /\ tokens' = tokens
BY DEF Hold, SessionType

(* A request that arrives: its body is what the client may send. *)
LEMMA Asked ==
    ASSUME JobType, RoomType, NEW r \in Requests, Ask(r)
    PROVE  /\ JobType' /\ pc[r] = "idle" /\ pc'[r] \in {"load", "relist"}
           /\ \A q \in Requests : q # r => pc'[q] = pc[q] /\ job'[q] = job[q]
           /\ job'[r].kind = "shuffle" <=> pc'[r] = "relist"
           /\ None \notin NewOrders => \A s \in Songs : job'[r].orders[s] # None
           /\ UNCHANGED <<list, status, index, playing, media, known, mine, wrote, first, tokens, gpc, game>>
<1>1. PICK k \in Kinds, ids \in SUBSET Songs :
        /\ \E o \in IF k = "batch" THEN [ids -> NewOrders] ELSE {Nothing} :
             job' = [job EXCEPT ![r] =
                [kind |-> k, ids |-> ids, index |-> index, reset |-> FALSE,
                 orders |-> [s \in Songs |-> IF k = "batch" /\ s \in ids THEN o[s] ELSE Unknown]]]
        /\ Goto(r, IF k = "shuffle" THEN "relist" ELSE "load")
  BY Zenon DEF Ask
<1>2. PICK o \in IF k = "batch" THEN [ids -> NewOrders] ELSE {Nothing} :
             job' = [job EXCEPT ![r] =
                [kind |-> k, ids |-> ids, index |-> index, reset |-> FALSE,
                 orders |-> [s \in Songs |-> IF k = "batch" /\ s \in ids THEN o[s] ELSE Unknown]]]
  BY <1>1
<1>. DEFINE orders == [s \in Songs |-> IF k = "batch" /\ s \in ids THEN o[s] ELSE Unknown]
            new == [kind |-> k, ids |-> ids, index |-> index, reset |-> FALSE, orders |-> orders]
<1>3. \A s \in Songs : orders[s] \in NewOrders \cup {Unknown}
  BY <1>2
<1>4. orders \in Rows
  BY <1>3, Constants DEF Rows
<1>5. \A s \in Songs : None \notin NewOrders => orders[s] # None
  BY <1>3, Constants
<1>. HIDE DEF orders
<1>6. new \in Job
  BY <1>4, Constants DEF Job, RoomType
<1>7. job' = [job EXCEPT ![r] = new]
  BY <1>2 DEF orders
<1>8. job'[r] = new /\ job' \in [Requests -> Job] /\ \A q \in Requests : q # r => job'[q] = job[q]
  BY <1>6, <1>7 DEF JobType
<1>9. /\ pc' = [pc EXCEPT ![r] = IF k = "shuffle" THEN "relist" ELSE "load"]
      /\ {"load", "relist"} \subseteq Labels
  BY <1>1 DEF Goto, Labels
<1>10. /\ pc' \in [Requests -> Labels]
       /\ pc'[r] = IF k = "shuffle" THEN "relist" ELSE "load"
       /\ \A q \in Requests : q # r => pc'[q] = pc[q]
  BY <1>9 DEF JobType
<1>11. pc[r] = "idle" /\ UNCHANGED <<list, status, index, playing, media, known, mine, wrote, first, tokens, gpc, game>>
  BY DEF Ask, room, sessions, start
<1>. QED  BY <1>5, <1>8, <1>10, <1>11 DEF JobType

(* A request that loads its rows returns at once, or goes on with rows of the list. *)
LEMMA LoadedRows ==
    ASSUME ListType, JobType, SessionType, NEW r \in Requests,
           LoadAdd(r) \/ LoadRemove(r) \/ LoadBatch(r) \/ LoadClear(r)
    PROVE  /\ pc[r] = "load"
           /\ \/ Return(r)
              \/ \E m \in {"flush", "save"}, k, goal \in Rows :
                    /\ Loaded(r, m) /\ Hold(r, k, goal, Nothing)
                    /\ m = "save" => /\ job[r].kind \in {"batch", "clear"}
                                     /\ goal = job[r].orders \/ \A s \in Songs : goal[s] # None
           /\ UNCHANGED <<list, room, media>>
<1>. DEFINE Result == \/ Return(r)
                      \/ \E m \in {"flush", "save"}, k, goal \in Rows :
                            /\ Loaded(r, m) /\ Hold(r, k, goal, Nothing)
                            /\ m = "save" => /\ job[r].kind \in {"batch", "clear"}
                                             /\ goal = job[r].orders \/ \A s \in Songs : goal[s] # None
<1>1. list \in Rows /\ \A s \in Songs : list[s] # Unknown
  BY ListRows
<1>2. job[r] \in Job /\ job[r].ids \subseteq Songs /\ job[r].orders \in Rows
  BY DEF JobType, Job
<1>3. ASSUME LoadAdd(r) PROVE Result
  <2>. DEFINE new == {s \in job[r].ids : list[s] = Absent}
              atEnd == job[r].kind = "append"
  <2>1. new \subseteq Songs /\ atEnd \in BOOLEAN
    BY <1>2
  <2>2. \/ Return(r)
        \/ Loaded(r, "flush") /\ Hold(r, list, Added(list, new, atEnd), Nothing)
    BY <1>3 DEF LoadAdd
  <2>. HIDE DEF new, atEnd
  <2>3. Added(list, new, atEnd) \in Rows
    BY <1>1, <2>1, AddedRows DEF Rows
  <2>. QED  BY <1>1, <2>2, <2>3
<1>4. ASSUME LoadRemove(r) PROVE Result
  <2>. DEFINE gone == job[r].ids \cap InList(list)
              goal == Removed(list, gone)
              k == [s \in Songs |-> IF goal[s] = Unknown THEN Unknown ELSE list[s]]
  <2>1. \/ Return(r)
        \/ Loaded(r, "flush") /\ Hold(r, k, goal, Nothing)
    BY <1>4 DEF LoadRemove
  <2>2. goal \in Rows
    BY RemovedRows
  <2>. HIDE DEF goal
  <2>3. k \in Rows
    BY <1>1 DEF Rows
  <2>. QED  BY <2>1, <2>2, <2>3
<1>5. ASSUME LoadBatch(r) PROVE Result
  <2>. DEFINE k == [s \in Songs |-> IF s \in job[r].ids THEN list[s] ELSE Unknown]
  <2>1. \/ Return(r)
        \/ Loaded(r, "save") /\ Hold(r, k, job[r].orders, Nothing) /\ job[r].kind = "batch"
    BY <1>5 DEF LoadBatch
  <2>2. k \in Rows
    BY <1>1 DEF Rows
  <2>. QED  BY <1>2, <2>1, <2>2
<1>6. ASSUME LoadClear(r) PROVE Result
  <2>. DEFINE goal == [s \in Songs |-> IF list[s] = Absent THEN Unknown ELSE Absent]
  <2>1. \/ Return(r)
        \/ Loaded(r, "save") /\ Hold(r, list, goal, Nothing) /\ job[r].kind = "clear"
    BY <1>6 DEF LoadClear
  <2>2. goal \in Rows /\ \A s \in Songs : goal[s] # None
    BY Constants DEF Rows
  <2>. QED  BY <1>1, <2>1, <2>2
<1>7. pc[r] = "load" /\ UNCHANGED <<list, room, media>>
  BY DEF LoadAdd, LoadRemove, LoadBatch, LoadClear
<1>. QED  BY <1>3, <1>4, <1>5, <1>6, <1>7

(* The flush: what was written is what the session knows. *)
LEMMA Flushed ==
    ASSUME ListType, JobType, SessionType, NEW r \in Requests, Flush(r)
    PROVE  /\ pc[r] = "flush"
           /\ \/ Return(r)
              \/ \E k, w \in Rows :
                    /\ Step(r, "flush", "relist") /\ Hold(r, k, mine[r], w)
                    /\ \A s \in Songs : w[s] # Unknown => k[s] = w[s]
           /\ UNCHANGED <<list, room, media>>
<1>. DEFINE S == Dirty(r, mine[r])
            k == Overlay(known[r], mine[r], S)
            w == Overlay(Nothing, mine[r], S)
<1>1. known[r] \in Rows /\ mine[r] \in Rows /\ Nothing \in Rows
  BY Constants DEF SessionType
<1>2. k \in Rows /\ w \in Rows
  BY <1>1, Overlays
<1>3. \A s \in Songs : w[s] # Unknown => k[s] = w[s]
  BY DEF Overlay, Nothing
<1>4. /\ pc[r] = "flush"
      /\ \/ Return(r)
         \/ Step(r, "flush", "relist") /\ Hold(r, k, mine[r], w)
      /\ UNCHANGED <<list, room, media>>
  BY DEF Flush
<1>. QED  BY <1>2, <1>3, <1>4

(* The shuffle: every row of the list the session sees gets a number. *)
LEMMA Relisted ==
    ASSUME ListType, JobType, SessionType, NEW r \in Requests, Relist(r)
    PROVE  /\ Step(r, "relist", "save")
           /\ \E k, goal \in Rows :
                /\ Hold(r, k, goal, wrote[r])
                /\ \A s \in Songs : known[r][s] \notin {Unknown, Absent} => k[s] = known[r][s]
                /\ \A s \in Songs : goal[s] # Unknown => goal[s] \in Nat /\ s \in InList(View(r))
                /\ \A s \in InList(View(r)) : goal[s] # Unknown
                /\ {goal[s] : s \in {t \in Songs : goal[t] # Unknown}}
                        = 1 .. Cardinality({t \in Songs : goal[t] # Unknown})
           /\ UNCHANGED <<list, room, media>>
<1>. DEFINE rows == InList(View(r))
            k == [s \in Songs |-> IF known[r][s] \in {Unknown, Absent} /\ s \in rows
                                  THEN View(r)[s] ELSE known[r][s]]
<1>1. PICK f \in Shuffles(rows) :
        Hold(r, k, [s \in Songs |-> IF s \in rows THEN f[s] ELSE Unknown], wrote[r])
  BY DEF Relist
<1>. DEFINE goal == [s \in Songs |-> IF s \in rows THEN f[s] ELSE Unknown]
<1>2. rows \subseteq Songs
  BY InListSongs
<1>3. f \in [rows -> Nat] /\ {f[s] : s \in rows} = 1 .. Cardinality(rows)
  BY <1>2, ShuffleNumbers
<1>4. View(r) \in [Songs -> Row] /\ known[r] \in Rows
  BY Views DEF SessionType
<1>. HIDE DEF rows
<1>5. k \in Rows
  BY <1>4 DEF Rows
<1>6. \A s \in Songs : /\ s \in rows => goal[s] = f[s] /\ goal[s] \in Nat /\ goal[s] # Unknown
                       /\ s \notin rows => goal[s] = Unknown
  BY <1>3, Constants DEF Row, Order
<1>7. goal \in Rows
  BY <1>3, Constants DEF Rows, Row, Order
<1>8. \A s \in Songs : known[r][s] \notin {Unknown, Absent} => k[s] = known[r][s]
  OBVIOUS
<1>. HIDE DEF goal, k
<1>9. {t \in Songs : goal[t] # Unknown} = rows
  BY <1>2, <1>6
<1>10. {goal[s] : s \in rows} = {f[s] : s \in rows}
  BY <1>2, <1>6
<1>11. Step(r, "relist", "save") /\ UNCHANGED <<list, room, media>>
  BY DEF Relist
<1>12. Hold(r, k, goal, wrote[r])
  BY <1>1 DEF k, goal
<1>. QED  BY <1>2, <1>3, <1>5, <1>6, <1>7, <1>8, <1>9, <1>10, <1>11, <1>12 DEF rows

(* The commit: a row of the list is what was written last. *)
LEMMA Saved ==
    ASSUME ListType, JobType, SessionType, NEW r \in Requests, Save(r)
    PROVE  /\ pc[r] = "save"
           /\ \/ Return(r) /\ UNCHANGED list
              \/ /\ Step(r, "save", AfterSave(job[r].kind))
                 /\ Hold(r, Nothing, Nothing, Nothing)
                 /\ list' \in [Songs -> Row]
                 /\ \A s \in Songs :
                      list'[s] = IF mine[r][s] # Unknown /\ mine[r][s] # known[r][s]
                                 THEN mine[r][s] ELSE View(r)[s]
           /\ UNCHANGED <<room, media>>
<1>. DEFINE S == Dirty(r, mine[r])
<1>1. /\ pc[r] = "save"
      /\ \/ Return(r) /\ UNCHANGED list
         \/ /\ Step(r, "save", AfterSave(job[r].kind))
            /\ Hold(r, Nothing, Nothing, Nothing)
            /\ list' = Overlay(View(r), mine[r], S)
      /\ UNCHANGED <<room, media>>
  BY DEF Save
<1>2. ASSUME list' = Overlay(View(r), mine[r], S)
      PROVE  /\ list' \in [Songs -> Row]
             /\ \A s \in Songs :
                      list'[s] = IF mine[r][s] # Unknown /\ mine[r][s] # known[r][s]
                                 THEN mine[r][s] ELSE View(r)[s]
  <2>1. View(r) \in [Songs -> Row] /\ mine[r] \in Rows
    BY Views DEF SessionType
  <2>2. \A s \in Songs : s \in S <=> mine[r][s] # Unknown /\ mine[r][s] # known[r][s]
    BY DEF Dirty
  <2>. HIDE DEF S
  <2>. QED  BY <1>2, <2>1, <2>2 DEF Overlay, Rows
<1>. QED  BY <1>1, <1>2

LEMMA TypeInvInit ==
    ASSUME Init
    PROVE  TypeInv
<1>1. ListType
  <2>1. PICK l \in [Songs -> 1 .. Cardinality(Songs) \cup {Absent}] : list = l
    BY DEF Init
  <2>2. Cardinality(Songs) \in Nat
    BY Constants, Counted
  <2>3. 1 .. Cardinality(Songs) \cup {Absent} \subseteq Row
    BY <2>2 DEF Row, Order
  <2>. QED  BY <2>1, <2>3 DEF ListType
<1>2. MediaType
  BY QueueSongs DEF Init, MediaType
<1>3. RoomType /\ GameHasSongs
  BY DEF Init, RoomType, GameHasSongs
<1>4. JobType
  BY Job0Typed DEF Init, JobType, Labels
<1>5. SessionType
  BY Constants DEF Init, SessionType
<1>. QED  BY <1>1, <1>2, <1>3, <1>4, <1>5 DEF TypeInv

(* What most steps leave alone keeps its type. *)
LEMMA RoomKept ==
    ASSUME RoomType, GameHasSongs, UNCHANGED <<status, index, playing, gpc, game>>
    PROVE  RoomType' /\ GameHasSongs'
BY DEF RoomType, GameHasSongs

LEMMA MediaKept == ASSUME MediaType, UNCHANGED media PROVE MediaType'
BY DEF MediaType, media

LEMMA Broken ==
    ASSUME NEW r, BreakDeadlock(r)
    PROVE  /\ Leaves(r) /\ UNCHANGED <<list, room, media>> /\ Wants(r) # {}
           /\ pc[r] = "preloadAsk" => Leave(r, "dropped")
           /\ pc[r] # "preloadAsk" => Return(r)
BY DEF BreakDeadlock, InCircle, Leaves, Return

LEMMA EditingTyped ==
    ASSUME TypeInv, NEW r \in Requests,
           \/ LoadAdd(r) \/ LoadRemove(r) \/ LoadBatch(r) \/ LoadClear(r)
           \/ Flush(r) \/ Relist(r) \/ Save(r) \/ BreakDeadlock(r)
    PROVE  TypeInv'
<1>. USE DEF TypeInv
<1>1. ASSUME Leaves(r), UNCHANGED list, UNCHANGED <<room, media>> PROVE TypeInv'
  BY <1>1, Returned, RoomKept, MediaKept DEF ListType, room
<1>2. ASSUME NEW k \in Rows, NEW goal \in Rows, NEW w \in Rows, Hold(r, k, goal, w),
             JobType', gpc' = gpc, game' = game, ListType', UNCHANGED <<room, media>>
      PROVE  TypeInv'
  BY <1>2, Held, RoomKept, MediaKept DEF room
<1>3. ASSUME LoadAdd(r) \/ LoadRemove(r) \/ LoadBatch(r) \/ LoadClear(r) PROVE TypeInv'
  <2>1. UNCHANGED <<list, room, media>>
    BY <1>3, LoadedRows
  <2>2. ASSUME NEW m \in {"flush", "save"}, NEW k \in Rows, NEW goal \in Rows,
               Loaded(r, m), Hold(r, k, goal, Nothing)
        PROVE  TypeInv'
    <3>1. m \in Labels
      BY DEF Labels
    <3>2. JobType' /\ gpc' = gpc /\ game' = game
      BY <2>2, <3>1, RowsLoaded
    <3>. QED  BY <1>2, <2>1, <2>2, <3>2, Constants DEF ListType
  <2>3. \/ Return(r)
        \/ \E m \in {"flush", "save"}, k, goal \in Rows : Loaded(r, m) /\ Hold(r, k, goal, Nothing)
    BY <1>3, LoadedRows
  <2>. QED  BY <1>1, <2>1, <2>2, <2>3 DEF Leaves
<1>4. ASSUME Flush(r) PROVE TypeInv'
  <2>1. UNCHANGED <<list, room, media>>
    BY <1>4, Flushed
  <2>2. ASSUME NEW k \in Rows, NEW w \in Rows, Step(r, "flush", "relist"), Hold(r, k, mine[r], w)
        PROVE  TypeInv'
    <3>1. JobType' /\ gpc' = gpc /\ game' = game
      BY <2>2, Stepped DEF Labels
    <3>2. mine[r] \in Rows
      BY DEF SessionType
    <3>. QED  BY <1>2, <2>1, <2>2, <3>1, <3>2 DEF ListType
  <2>3. \/ Return(r)
        \/ \E k, w \in Rows : Step(r, "flush", "relist") /\ Hold(r, k, mine[r], w)
    BY <1>4, Flushed
  <2>. QED  BY <1>1, <2>1, <2>2, <2>3 DEF Leaves
<1>5. ASSUME Relist(r) PROVE TypeInv'
  <2>1. Step(r, "relist", "save") /\ UNCHANGED <<list, room, media>>
    BY <1>5, Relisted
  <2>2. PICK k, goal \in Rows : Hold(r, k, goal, wrote[r])
    BY <1>5, Relisted
  <2>3. JobType' /\ gpc' = gpc /\ game' = game
    BY <2>1, Stepped DEF Labels
  <2>4. wrote[r] \in Rows
    BY DEF SessionType
  <2>. QED  BY <1>2, <2>1, <2>2, <2>3, <2>4 DEF ListType
<1>6. ASSUME Save(r) PROVE TypeInv'
  <2>1. UNCHANGED <<room, media>>
    BY <1>6, Saved
  <2>2. ASSUME Step(r, "save", AfterSave(job[r].kind)), Hold(r, Nothing, Nothing, Nothing),
               list' \in [Songs -> Row]
        PROVE  TypeInv'
    <3>1. AfterSave(job[r].kind) \in Labels
      BY DEF AfterSave, Labels
    <3>2. JobType' /\ gpc' = gpc /\ game' = game
      BY <2>2, <3>1, Stepped
    <3>. QED  BY <1>2, <2>1, <2>2, <3>2, Constants DEF ListType
  <2>3. \/ Return(r) /\ UNCHANGED list
        \/ /\ Step(r, "save", AfterSave(job[r].kind)) /\ Hold(r, Nothing, Nothing, Nothing)
           /\ list' \in [Songs -> Row]
    BY <1>6, Saved
  <2>. QED  BY <1>1, <2>1, <2>2, <2>3 DEF Leaves
<1>7. ASSUME BreakDeadlock(r) PROVE TypeInv'
  BY <1>1, <1>7, Broken
<1>. QED  BY <1>3, <1>4, <1>5, <1>6, <1>7

(* The index is changed in the session of a request, beside the job it was asked. *)
LEMMA Refreshed ==
    ASSUME TypeInv, NEW r \in Requests, RefreshSet(r)
    PROVE  /\ JobType' /\ SessionType' /\ pc[r] = "refreshSet" /\ pc'[r] = "preload"
           /\ job'[r].kind = job[r].kind /\ tokens'[r] \subseteq InList(list)
           /\ \A q \in Requests : q # r =>
                pc'[q] = pc[q] /\ job'[q] = job[q] /\ tokens'[q] = tokens[q]
           /\ playing' \in Songs \cup {None}
           /\ UNCHANGED <<list, status, index, media, known, mine, wrote, first, gpc, game>>
<1>. USE DEF TypeInv
<1>. DEFINE b == first[r] # {} /\ job[r].index # 0
<1>1. pc' = [pc EXCEPT ![r] = "preload"] /\ pc[r] = "refreshSet" /\ "preload" \in Labels
  BY DEF RefreshSet, Goto, Labels
<1>2. job' = [job EXCEPT ![r] = [job[r] EXCEPT !.reset = b]]
  BY DEF RefreshSet, JobType
<1>3. job[r] \in Job /\ b \in BOOLEAN
  BY DEF JobType
<1>. HIDE DEF b
<1>4. [job[r] EXCEPT !.reset = b] \in Job /\ [job[r] EXCEPT !.reset = b].kind = job[r].kind
  BY <1>3 DEF Job
<1>5. /\ job' \in [Requests -> Job] /\ job'[r].kind = job[r].kind
      /\ \A q \in Requests : q # r => job'[q] = job[q]
  BY <1>2, <1>4 DEF JobType
<1>6. /\ pc' \in [Requests -> Labels] /\ pc'[r] = "preload"
      /\ \A q \in Requests : q # r => pc'[q] = pc[q]
  BY <1>1 DEF JobType
<1>7. first[r] \subseteq Songs
  BY DEF SessionType
<1>8. PICK T \in SUBSET (first[r] \cap InList(list)) : tokens' = [tokens EXCEPT ![r] = T]
  BY DEF RefreshSet
<1>9. /\ tokens' \in [Requests -> SUBSET Songs] /\ tokens'[r] \subseteq InList(list)
      /\ \A q \in Requests : q # r => tokens'[q] = tokens[q]
  BY <1>7, <1>8 DEF SessionType
<1>10. playing' \in Songs \cup {None}
  BY <1>7 DEF RefreshSet
<1>11. UNCHANGED <<list, status, index, media, known, mine, wrote, first, gpc, game>>
  BY DEF RefreshSet, start
<1>12. SessionType'
  BY <1>9, <1>11 DEF SessionType
<1>. QED  BY <1>1, <1>5, <1>6, <1>9, <1>10, <1>11, <1>12 DEF JobType

(* The head of the queue is read, and some of its rows may get a new token. *)
LEMMA HeadRead ==
    ASSUME TypeInv, NEW r \in Requests, PreloadRead(r)
    PROVE  /\ JobType' /\ SessionType' /\ pc[r] = "preload"
           /\ \E q \in Queues(list) :
                /\ first'[r] = FirstSongs(q)
                /\ pc'[r] = IF FirstSongs(q) = {} THEN "end" ELSE "preloadAsk"
           /\ \E T \in SUBSET InList(list) : tokens'[r] = tokens[r] \cup T
           /\ \A q \in Requests : q # r =>
                pc'[q] = pc[q] /\ first'[q] = first[q] /\ tokens'[q] = tokens[q]
           /\ UNCHANGED <<list, room, media, job, known, mine, wrote, gpc, game>>
<1>. USE DEF TypeInv
<1>1. PICK q \in Queues(list) :
        /\ Step(r, "preload", IF FirstSongs(q) = {} THEN "end" ELSE "preloadAsk")
        /\ first' = [first EXCEPT ![r] = FirstSongs(q)]
        /\ \E T \in SUBSET FirstSongs(q) : tokens' = [tokens EXCEPT ![r] = @ \cup T]
  BY DEF PreloadRead
<1>2. PICK T \in SUBSET FirstSongs(q) : tokens' = [tokens EXCEPT ![r] = @ \cup T]
  BY <1>1
<1>3. FirstSongs(q) \subseteq InList(list) /\ FirstSongs(q) \subseteq Songs
  BY QueueSongs
<1>. DEFINE l == IF FirstSongs(q) = {} THEN "end" ELSE "preloadAsk"
<1>4. l \in Labels
  BY DEF Labels
<1>5. Step(r, "preload", l)
  BY <1>1
<1>. HIDE DEF l
<1>6. /\ JobType' /\ pc[r] = "preload" /\ pc'[r] = l /\ job' = job /\ gpc' = gpc /\ game' = game
      /\ \A p \in Requests : p # r => pc'[p] = pc[p]
  BY <1>4, <1>5, Stepped
<1>7. UNCHANGED <<list, room, media, known, mine, wrote>>
  BY DEF PreloadRead
<1>8. /\ SessionType' /\ first'[r] = FirstSongs(q) /\ tokens'[r] = tokens[r] \cup T
      /\ \A p \in Requests : p # r => first'[p] = first[p] /\ tokens'[p] = tokens[p]
  BY <1>1, <1>2, <1>3, <1>7 DEF SessionType
<1>. QED  BY <1>2, <1>3, <1>6, <1>7, <1>8 DEF l

(* The tokens are flushed and the songs handed over, or nothing is. *)
LEMMA HandedOver ==
    ASSUME TypeInv, NEW r \in Requests, PreloadAsk(r)
    PROVE  /\ pc[r] = "preloadAsk" /\ UNCHANGED <<list, room, ready>>
           /\ \/ Return(r) /\ ~(tokens[r] \subseteq InList(list)) /\ UNCHANGED <<asked, todo>>
              \/ /\ JobType' /\ SessionType' /\ pc'[r] = "end"
                 /\ asked' = asked \cup first[r] /\ todo' = todo \cup first[r]
                 /\ \A q \in Requests : q # r =>
                      pc'[q] = pc[q] /\ wrote'[q] = wrote[q] /\ tokens'[q] = tokens[q]
                 /\ UNCHANGED <<job, known, mine, first, gpc, game>>
<1>. USE DEF TypeInv
<1>. DEFINE w == [s \in Songs |-> IF s \in tokens[r] THEN list[s] ELSE Unknown]
<1>1. w \in Rows
  BY DEF ListType, Rows
<1>2. ASSUME Step(r, "preloadAsk", "end"), wrote' = [wrote EXCEPT ![r] = w],
             tokens' = [tokens EXCEPT ![r] = {}], UNCHANGED <<known, mine, first>>
      PROVE  /\ JobType' /\ SessionType' /\ pc'[r] = "end"
             /\ \A q \in Requests : q # r =>
                  pc'[q] = pc[q] /\ wrote'[q] = wrote[q] /\ tokens'[q] = tokens[q]
             /\ UNCHANGED <<job, known, mine, first, gpc, game>>
  <2>. HIDE DEF w
  <2>1. /\ JobType' /\ pc'[r] = "end" /\ job' = job /\ gpc' = gpc /\ game' = game
        /\ \A q \in Requests : q # r => pc'[q] = pc[q]
    BY <1>2, Stepped DEF Labels
  <2>2. SessionType' /\ \A q \in Requests : q # r => wrote'[q] = wrote[q] /\ tokens'[q] = tokens[q]
    BY <1>1, <1>2 DEF SessionType
  <2>. QED  BY <1>2, <2>1, <2>2
<1>3. pc[r] = "preloadAsk" /\ UNCHANGED <<list, room, ready>>
  BY DEF PreloadAsk
<1>4. \/ Return(r) /\ ~(tokens[r] \subseteq InList(list)) /\ UNCHANGED <<asked, todo>>
      \/ /\ Step(r, "preloadAsk", "end") /\ wrote' = [wrote EXCEPT ![r] = w]
         /\ asked' = asked \cup first[r] /\ todo' = todo \cup first[r]
         /\ tokens' = [tokens EXCEPT ![r] = {}] /\ UNCHANGED <<known, mine, first>>
  BY DEF PreloadAsk
<1>. HIDE DEF w
<1>. QED  BY <1>2, <1>3, <1>4

LEMMA PreloadingTyped ==
    ASSUME TypeInv, NEW r \in Requests,
           RefreshRead(r) \/ RefreshSet(r) \/ PreloadRead(r) \/ PreloadAsk(r) \/ End(r)
    PROVE  TypeInv'
<1>. USE DEF TypeInv
<1>1. CASE RefreshRead(r)
  <2>1. Step(r, "refresh", "refreshSet") /\ UNCHANGED <<list, room, media, known, mine, wrote, tokens>>
    BY <1>1 DEF RefreshRead
  <2>2. JobType' /\ gpc' = gpc /\ game' = game
    BY <2>1, Stepped DEF Labels
  <2>3. PICK q \in Queues(list) : first' = [first EXCEPT ![r] = IF q = <<>> THEN {} ELSE {q[1]}]
    BY <1>1 DEF RefreshRead
  <2>4. (IF q = <<>> THEN {} ELSE {q[1]}) \subseteq Songs
    BY QueueSongs
  <2>5. SessionType'
    BY <2>1, <2>3, <2>4 DEF SessionType
  <2>. QED  BY <2>1, <2>2, <2>5, RoomKept, MediaKept DEF ListType, room
<1>2. CASE RefreshSet(r)
  <2>1. /\ JobType' /\ SessionType' /\ playing' \in Songs \cup {None}
        /\ UNCHANGED <<list, status, index, media, gpc, game>>
    BY <1>2, Refreshed
  <2>2. RoomType' /\ GameHasSongs' /\ ListType'
    BY <2>1 DEF RoomType, GameHasSongs, ListType
  <2>. QED  BY <2>1, <2>2, MediaKept
<1>3. CASE PreloadRead(r)
  <2>1. JobType' /\ SessionType' /\ UNCHANGED <<list, room, media, gpc, game>>
    BY <1>3, HeadRead
  <2>. QED  BY <2>1, RoomKept, MediaKept DEF ListType, room
<1>4. CASE PreloadAsk(r)
  <2>1. UNCHANGED <<list, room, ready>>
    BY <1>4, HandedOver
  <2>2. CASE JobType' /\ SessionType' /\ gpc' = gpc /\ game' = game
             /\ asked' = asked \cup first[r] /\ todo' = todo \cup first[r]
    <3>1. MediaType' /\ ListType'
      BY <2>1, <2>2 DEF MediaType, SessionType, ListType
    <3>. QED  BY <2>1, <2>2, <3>1, RoomKept DEF room
  <2>3. CASE Return(r) /\ UNCHANGED <<asked, todo>>
    BY <2>1, <2>3, Returned, RoomKept, MediaKept DEF Leaves, ListType, room, media
  <2>. QED  BY <1>4, <2>2, <2>3, HandedOver
<1>5. CASE End(r)
  <2>1. Return(r) /\ UNCHANGED <<list, status, playing, media>> /\ index' \in {0, index}
    BY <1>5 DEF End
  <2>2. JobType' /\ SessionType' /\ gpc' = gpc /\ game' = game
    BY <2>1, Returned DEF Leaves
  <2>3. RoomType' /\ GameHasSongs'
    BY <2>1, <2>2, Constants DEF RoomType, GameHasSongs
  <2>. QED  BY <2>1, <2>2, <2>3, MediaKept DEF ListType
<1>. QED  BY <1>1, <1>2, <1>3, <1>4, <1>5

LEMMA StartingTyped ==
    ASSUME TypeInv,
           (\E s \in Songs : Download(s)) \/ StartRead \/ StartPlay \/ StartCommit \/ Skip
    PROVE  TypeInv'
<1>. USE DEF TypeInv
<1>0. ASSUME UNCHANGED <<pc, job>> PROVE JobType'
  BY <1>0 DEF JobType
<1>1. ASSUME UNCHANGED sessions PROVE SessionType'
  BY <1>1 DEF SessionType, sessions
<1>2. CASE \E s \in Songs : Download(s)
  <2>1. PICK s \in Songs : Download(s)
    BY <1>2
  <2>2. MediaType'
    BY <2>1 DEF Download, MediaType
  <2>. QED  BY <1>0, <1>1, <2>1, <2>2, RoomKept DEF Download, ListType, room, start
<1>3. CASE StartRead
  <2>1. PICK q \in Queues(list) : q # <<>> /\ game' = q
    BY <1>3 DEF StartRead
  <2>2. game' \in Seq(Songs) /\ game' # <<>>
    BY <2>1, QueueSongs
  <2>3. RoomType' /\ GameHasSongs'
    BY <1>3, <2>2 DEF StartRead, RoomType, GameHasSongs, room
  <2>. QED  BY <1>0, <1>1, <1>3, <2>3, MediaKept DEF StartRead, ListType
<1>4. CASE StartPlay
  <2>1. game[1] \in Songs
    BY <1>4 DEF StartPlay, RoomType, GameHasSongs
  <2>2. RoomType' /\ GameHasSongs'
    BY <1>4, <2>1 DEF StartPlay, RoomType, GameHasSongs
  <2>. QED  BY <1>0, <1>1, <1>4, <2>2, MediaKept DEF StartPlay, ListType
<1>5. CASE StartCommit
  <2>1. RoomType' /\ GameHasSongs'
    BY <1>5, Constants DEF StartCommit, RoomType, GameHasSongs
  <2>. QED  BY <1>0, <1>1, <1>5, <2>1, MediaKept DEF StartCommit, ListType
<1>6. CASE Skip
  <2>1. index \in Nat /\ index' = index + 1 /\ index + 1 # None
    BY <1>6, Constants DEF Skip, RoomType, GameHasSongs
  <2>2. PICK q \in Queues(list) : index + 1 < Len(q) /\ playing' = q[index + 2]
    BY <1>6 DEF Skip
  <2>3. playing' \in Songs
    BY <2>1, <2>2, QueueSongs, InListSongs
  <2>4. RoomType' /\ GameHasSongs'
    BY <1>6, <2>1, <2>3 DEF Skip, RoomType, GameHasSongs, start
  <2>. QED  BY <1>0, <1>1, <1>6, <2>4, MediaKept DEF Skip, ListType
<1>. QED  BY <1>2, <1>3, <1>4, <1>5, <1>6

LEMMA TypeInvNext ==
    ASSUME TypeInv, [Next]_vars
    PROVE  TypeInv'
<1>1. ASSUME UNCHANGED vars PROVE TypeInv'
  BY <1>1 DEF vars, room, media, sessions, start, TypeInv, ListType, MediaType, RoomType, JobType,
              SessionType, GameHasSongs
<1>2. ASSUME NEW r \in Requests, Ask(r) PROVE TypeInv'
  BY <1>2, Asked, RoomKept, MediaKept DEF TypeInv, ListType, SessionType
<1>3. ASSUME NEW r \in Requests, Work(r) PROVE TypeInv'
  BY <1>3, EditingTyped, PreloadingTyped DEF Work
<1>. QED  BY <1>1, <1>2, <1>3, StartingTyped DEF Next, AllAnswered

(* The variables keep their types: songs of the room only, numbers where a queue is *)
(* sorted by them, and an index while a game runs.                                  *)
THEOREM SongsTyped == Spec => []TypeOK
<1>1. Init => TypeInv
  BY TypeInvInit
<1>2. TypeInv /\ [Next]_vars => TypeInv'
  BY TypeInvNext
<1>3. TypeInv => TypeOK
  BY TypeParts DEF TypeInv
<1>. QED  BY <1>1, <1>2, <1>3, PTL DEF Spec

-----------------------------------------------------------------------------
(* Every song of the room is queued.  Additions to an empty list write NULL; what *)
(* follows says why no commit leaves it there.                                    *)

(* Nobody sends NULL. *)
Sent(r) == pc[r] = "load" /\ None \notin NewOrders => \A s \in Songs : job[r].orders[s] # None

(* Only a request that is about to shuffle, or to commit, has flushed something ... *)
Unwritten(r) == pc[r] \notin {"relist", "save", "end"} => wrote[r] = Nothing

(* ... and its session knows what it has flushed. *)
Believed(r) == pc[r] = "relist" => \A s \in Songs : wrote[r][s] # Unknown => known[r][s] = wrote[r][s]

(* At the commit, a row that was flushed as NULL has a number. *)
AtCommit(r) ==
    pc[r] = "save" => \A s \in Songs :
        /\ None \notin NewOrders => mine[r][s] # None
        /\ wrote[r][s] = None => known[r][s] = None /\ mine[r][s] \notin {Unknown, None}

HeldWell(r) == Sent(r) /\ Unwritten(r) /\ Believed(r) /\ AtCommit(r)

QueuedInv == EverySongQueued /\ \A r \in Requests : HeldWell(r)

LEMMA QueuedMeaning ==
    ASSUME ListType
    PROVE  EverySongQueued <=> (None \notin NewOrders => \A s \in Songs : list[s] # None)
BY Constants DEF EverySongQueued, InList

LEMMA QueuedInit == Init => QueuedInv
<1>. SUFFICES ASSUME Init PROVE QueuedInv
  OBVIOUS
<1>1. EverySongQueued
  <2>1. \A s \in Songs : list[s] \in 1 .. Cardinality(Songs) \cup {Absent}
    BY DEF Init
  <2>2. Cardinality(Songs) \in Nat
    BY Constants, Counted
  <2>3. None \notin 1 .. Cardinality(Songs) \cup {Absent}
    BY <2>2, Constants
  <2>. QED  BY <2>1, <2>3 DEF EverySongQueued, InList
<1>2. \A r \in Requests : HeldWell(r)
  BY DEF Init, HeldWell, Sent, Unwritten, Believed, AtCommit
<1>. QED  BY <1>1, <1>2 DEF QueuedInv

(* A request that did nothing is where it was. *)
LEMMA HeldStays ==
    ASSUME NEW r, HeldWell(r), UNCHANGED <<known[r], mine[r], wrote[r]>>,
           pc'[r] = pc[r] /\ job'[r] = job[r]
    PROVE  HeldWell(r)'
BY DEF HeldWell, Sent, Unwritten, Believed, AtCommit

(* A request with nothing in its session, or with tokens it has flushed. *)
LEMMA HeldNothing ==
    ASSUME NEW r, wrote'[r] = Nothing \/ pc'[r] = "end", pc'[r] \notin {"load", "relist", "save"}
    PROVE  HeldWell(r)'
BY DEF HeldWell, Sent, Unwritten, Believed, AtCommit

(* One request acts and the list stays. *)
LEMMA QueuedByOne ==
    ASSUME QueuedInv, NEW r \in Requests, UNCHANGED list, HeldWell(r)',
           \A q \in Requests : q # r => /\ pc'[q] = pc[q] /\ job'[q] = job[q] /\ known'[q] = known[q]
                                        /\ mine'[q] = mine[q] /\ wrote'[q] = wrote[q]
    PROVE  QueuedInv'
<1>1. \A q \in Requests : q # r => HeldWell(q)'
  BY HeldStays DEF QueuedInv
<1>2. EverySongQueued'
  BY DEF QueuedInv, EverySongQueued, InList
<1>. QED  BY <1>1, <1>2 DEF QueuedInv

LEMMA QueuedReturned ==
    ASSUME TypeInv, QueuedInv, NEW r \in Requests, Leaves(r), UNCHANGED list
    PROVE  QueuedInv'
BY Returned, HeldNothing, QueuedByOne DEF TypeInv

LEMMA QueuedAsk ==
    ASSUME TypeInv, QueuedInv, NEW r \in Requests, Ask(r)
    PROVE  QueuedInv'
<1>1. HeldWell(r)'
  <2>1. /\ pc[r] = "idle" /\ pc'[r] \in {"load", "relist"} /\ wrote'[r] = wrote[r]
        /\ None \notin NewOrders => \A s \in Songs : job'[r].orders[s] # None
    BY Asked DEF TypeInv
  <2>2. wrote'[r] = Nothing
    BY <2>1 DEF QueuedInv, HeldWell, Unwritten
  <2>. QED  BY <2>1, <2>2 DEF HeldWell, Sent, Unwritten, Believed, AtCommit, Nothing
<1>. QED  BY <1>1, Asked, QueuedByOne DEF TypeInv

LEMMA QueuedLoad ==
    ASSUME TypeInv, QueuedInv, NEW r \in Requests,
           LoadAdd(r) \/ LoadRemove(r) \/ LoadBatch(r) \/ LoadClear(r)
    PROVE  QueuedInv'
<1>. USE DEF TypeInv
<1>1. UNCHANGED list /\ pc[r] = "load"
  BY LoadedRows
<1>2. ASSUME NEW m \in {"flush", "save"}, NEW k \in Rows, NEW goal \in Rows,
             Loaded(r, m), Hold(r, k, goal, Nothing),
             m = "save" => goal = job[r].orders \/ \A s \in Songs : goal[s] # None
      PROVE  QueuedInv'
  <2>1. /\ pc'[r] = m
        /\ \A q \in Requests : q # r => pc'[q] = pc[q] /\ job'[q] = job[q]
    BY <1>2, RowsLoaded DEF Labels
  <2>2. /\ mine'[r] = goal /\ wrote'[r] = Nothing
        /\ \A q \in Requests : q # r =>
              known'[q] = known[q] /\ mine'[q] = mine[q] /\ wrote'[q] = wrote[q]
    BY <1>2, Held, Constants
  <2>3. \A s \in Songs : wrote'[r][s] # None
    BY <2>2, Constants DEF Nothing
  <2>4. m = "save" /\ None \notin NewOrders => \A s \in Songs : goal[s] # None
    BY <1>1, <1>2 DEF QueuedInv, HeldWell, Sent
  <2>5. HeldWell(r)'
    BY <2>1, <2>2, <2>3, <2>4 DEF HeldWell, Sent, Unwritten, Believed, AtCommit
  <2>. QED  BY <1>1, <2>1, <2>2, <2>5, QueuedByOne
<1>3. \/ Return(r)
      \/ \E m \in {"flush", "save"}, k, goal \in Rows :
            /\ Loaded(r, m) /\ Hold(r, k, goal, Nothing)
            /\ m = "save" => goal = job[r].orders \/ \A s \in Songs : goal[s] # None
  BY LoadedRows
<1>. QED  BY <1>1, <1>2, <1>3, QueuedReturned DEF Leaves

LEMMA QueuedFlush ==
    ASSUME TypeInv, QueuedInv, NEW r \in Requests, Flush(r)
    PROVE  QueuedInv'
<1>. USE DEF TypeInv
<1>1. UNCHANGED list
  BY Flushed
<1>2. ASSUME NEW k \in Rows, NEW w \in Rows, Step(r, "flush", "relist"), Hold(r, k, mine[r], w),
             \A s \in Songs : w[s] # Unknown => k[s] = w[s]
      PROVE  QueuedInv'
  <2>1. pc'[r] = "relist" /\ job' = job /\ \A q \in Requests : q # r => pc'[q] = pc[q]
    BY <1>2, Stepped DEF Labels
  <2>2. mine[r] \in Rows
    BY DEF SessionType
  <2>3. /\ known'[r] = k /\ wrote'[r] = w
        /\ \A q \in Requests : q # r =>
              known'[q] = known[q] /\ mine'[q] = mine[q] /\ wrote'[q] = wrote[q]
    BY <1>2, <2>2, Held
  <2>4. HeldWell(r)'
    BY <1>2, <2>1, <2>3 DEF HeldWell, Sent, Unwritten, Believed, AtCommit
  <2>. QED  BY <1>1, <2>1, <2>3, <2>4, QueuedByOne
<1>3. \/ Return(r)
      \/ \E k, w \in Rows : /\ Step(r, "flush", "relist") /\ Hold(r, k, mine[r], w)
                            /\ \A s \in Songs : w[s] # Unknown => k[s] = w[s]
  BY Flushed
<1>. QED  BY <1>1, <1>2, <1>3, QueuedReturned DEF Leaves

(* The rows that are shuffled include the own ones that were flushed as NULL. *)
LEMMA QueuedRelist ==
    ASSUME TypeInv, QueuedInv, NEW r \in Requests, Relist(r)
    PROVE  QueuedInv'
<1>. USE DEF TypeInv
<1>1. Step(r, "relist", "save") /\ UNCHANGED list
  BY Relisted
<1>2. PICK k, goal \in Rows :
        /\ Hold(r, k, goal, wrote[r])
        /\ \A s \in Songs : known[r][s] \notin {Unknown, Absent} => k[s] = known[r][s]
        /\ \A s \in Songs : goal[s] # Unknown => goal[s] \in Nat
        /\ \A s \in InList(View(r)) : goal[s] # Unknown
  BY Relisted
<1>3. pc[r] = "relist" /\ pc'[r] = "save" /\ job' = job /\ \A q \in Requests : q # r => pc'[q] = pc[q]
  BY <1>1, Stepped DEF Labels
<1>4. /\ known'[r] = k /\ mine'[r] = goal /\ wrote'[r] = wrote[r]
      /\ \A q \in Requests : q # r =>
            known'[q] = known[q] /\ mine'[q] = mine[q] /\ wrote'[q] = wrote[q]
  <2>1. wrote[r] \in Rows
    BY DEF SessionType
  <2>. QED  BY <1>2, <2>1, Held
<1>5. \A s \in Songs : goal[s] # None
  BY <1>2, Constants
<1>6. ASSUME NEW s \in Songs, wrote[r][s] = None PROVE k[s] = None /\ goal[s] # Unknown
  <2>1. None # Unknown /\ None # Absent
    BY Constants
  <2>2. known[r][s] = None
    BY <1>3, <1>6, <2>1 DEF QueuedInv, HeldWell, Believed
  <2>3. s \in InList(View(r))
    BY <1>6, <2>1, Views DEF InList
  <2>. QED  BY <1>2, <2>1, <2>2, <2>3
<1>7. HeldWell(r)'
  BY <1>3, <1>4, <1>5, <1>6 DEF HeldWell, Sent, Unwritten, Believed, AtCommit
<1>. QED  BY <1>1, <1>3, <1>4, <1>7, QueuedByOne

LEMMA QueuedSave ==
    ASSUME TypeInv, QueuedInv, NEW r \in Requests, Save(r)
    PROVE  QueuedInv'
<1>. USE DEF TypeInv
<1>1. ASSUME Step(r, "save", AfterSave(job[r].kind)), Hold(r, Nothing, Nothing, Nothing),
             list' \in [Songs -> Row],
             \A s \in Songs : list'[s] = IF mine[r][s] # Unknown /\ mine[r][s] # known[r][s]
                                         THEN mine[r][s] ELSE View(r)[s]
      PROVE  QueuedInv'
  <2>1. AfterSave(job[r].kind) \in Labels \ {"load", "relist", "save"}
    BY DEF AfterSave, Labels
  <2>2. /\ pc[r] = "save" /\ pc'[r] \notin {"load", "relist", "save"} /\ job' = job
        /\ \A q \in Requests : q # r => pc'[q] = pc[q]
    BY <1>1, <2>1, Stepped
  <2>3. /\ wrote'[r] = Nothing
        /\ \A q \in Requests : q # r =>
              known'[q] = known[q] /\ mine'[q] = mine[q] /\ wrote'[q] = wrote[q]
    BY <1>1, Held, Constants
  <2>4. \A q \in Requests : HeldWell(q)'
    BY <2>2, <2>3, HeldNothing, HeldStays DEF QueuedInv
  <2>5. ASSUME None \notin NewOrders, NEW s \in Songs PROVE list'[s] # None
    <3>1. mine[r][s] # None /\ (wrote[r][s] = None => known[r][s] = None /\ mine[r][s] # Unknown)
      BY <2>2, <2>5 DEF QueuedInv, HeldWell, AtCommit
    <3>2. list[s] # None
      BY <2>5, QueuedMeaning DEF QueuedInv
    <3>3. View(r)[s] = IF wrote[r][s] # Unknown THEN wrote[r][s] ELSE list[s]
      BY Views
    <3>. QED  BY <1>1, <3>1, <3>2, <3>3
  <2>6. EverySongQueued'
    BY <2>5 DEF EverySongQueued, InList
  <2>. QED  BY <2>4, <2>6 DEF QueuedInv
<1>2. \/ Return(r) /\ UNCHANGED list
      \/ /\ Step(r, "save", AfterSave(job[r].kind))
         /\ Hold(r, Nothing, Nothing, Nothing)
         /\ list' \in [Songs -> Row]
         /\ \A s \in Songs : list'[s] = IF mine[r][s] # Unknown /\ mine[r][s] # known[r][s]
                                        THEN mine[r][s] ELSE View(r)[s]
  BY Saved
<1>. QED  BY <1>1, <1>2, QueuedReturned DEF Leaves

(* What a request does after its commit. *)
LEMMA Preloading ==
    ASSUME TypeInv, NEW r \in Requests,
           RefreshRead(r) \/ RefreshSet(r) \/ PreloadRead(r) \/ PreloadAsk(r) \/ End(r)
    PROVE  /\ UNCHANGED list
           /\ \/ Return(r)
              \/ /\ pc[r] \in {"refresh", "refreshSet", "preload", "preloadAsk"}
                 /\ pc'[r] \in {"refreshSet", "preload", "preloadAsk", "end"}
                 /\ wrote'[r] = wrote[r] \/ pc'[r] = "end"
                 /\ \A q \in Requests : q # r =>
                      /\ pc'[q] = pc[q] /\ job'[q] = job[q] /\ wrote'[q] = wrote[q]
                      /\ first'[q] = first[q] /\ tokens'[q] = tokens[q]
                 /\ job'[r].kind = job[r].kind
                 /\ UNCHANGED <<known, mine>>
<1>. USE DEF TypeInv
<1>1. CASE RefreshRead(r)
  <2>1. Step(r, "refresh", "refreshSet") /\ UNCHANGED <<list, known, mine, wrote, tokens>>
    BY <1>1 DEF RefreshRead
  <2>2. \E S : first' = [first EXCEPT ![r] = S]
    BY <1>1 DEF RefreshRead
  <2>3. \A q \in Requests : q # r => first'[q] = first[q]
    BY <2>2 DEF SessionType
  <2>. QED  BY <2>1, <2>3, Stepped DEF Labels
<1>2. CASE RefreshSet(r)
  BY <1>2, Refreshed
<1>3. CASE PreloadRead(r)
  BY <1>3, HeadRead
<1>4. CASE PreloadAsk(r)
  BY <1>4, HandedOver
<1>5. CASE End(r)
  BY <1>5 DEF End
<1>. QED  BY <1>1, <1>2, <1>3, <1>4, <1>5

LEMMA QueuedNext ==
    ASSUME TypeInv, QueuedInv, [Next]_vars
    PROVE  QueuedInv'
<1>1. ASSUME UNCHANGED <<list, pc, job, known, mine, wrote>> PROVE QueuedInv'
  BY <1>1 DEF QueuedInv, EverySongQueued, InList, HeldWell, Sent, Unwritten, Believed, AtCommit
<1>2. ASSUME NEW r \in Requests, Work(r) PROVE QueuedInv'
  <2>1. CASE BreakDeadlock(r)
    BY <2>1, Broken, QueuedReturned
  <2>2. CASE RefreshRead(r) \/ RefreshSet(r) \/ PreloadRead(r) \/ PreloadAsk(r) \/ End(r)
    <3>1. UNCHANGED list
      BY <2>2, Preloading
    <3>2. ASSUME /\ pc[r] \in {"refresh", "refreshSet", "preload", "preloadAsk"}
                 /\ pc'[r] \in {"refreshSet", "preload", "preloadAsk", "end"}
                 /\ wrote'[r] = wrote[r] \/ pc'[r] = "end"
                 /\ \A q \in Requests : q # r =>
                      pc'[q] = pc[q] /\ job'[q] = job[q] /\ wrote'[q] = wrote[q]
                 /\ UNCHANGED <<known, mine>>
          PROVE  QueuedInv'
      <4>1. wrote[r] = Nothing
        BY <3>2 DEF QueuedInv, HeldWell, Unwritten
      <4>2. HeldWell(r)'
        BY <3>2, <4>1, HeldNothing
      <4>. QED  BY <3>1, <3>2, <4>2, QueuedByOne
    <3>. QED  BY <2>2, <3>1, <3>2, Preloading, QueuedReturned DEF Leaves
  <2>. QED  BY <1>2, <2>1, <2>2, QueuedLoad, QueuedFlush, QueuedRelist, QueuedSave DEF Work
<1>3. ASSUME (\E s \in Songs : Download(s)) \/ StartRead \/ StartPlay \/ StartCommit \/ Skip
      PROVE  UNCHANGED <<list, pc, job, known, mine, wrote>>
  BY <1>3 DEF Download, StartRead, StartPlay, StartCommit, Skip, sessions
<1>4. ASSUME UNCHANGED vars PROVE UNCHANGED <<list, pc, job, known, mine, wrote>>
  BY <1>4 DEF vars, sessions
<1>. QED  BY <1>1, <1>2, <1>3, <1>4, QueuedAsk DEF Next, AllAnswered

(* As long as no client sends NULL, no commit of any interleaving leaves a song of *)
(* the room without a number: an addition to an empty list flushes NULL, but the   *)
(* shuffle of the same transaction reads its own rows again and numbers them all   *)
(* (room_song_related.py:66-152).                                                  *)
THEOREM SongsQueued == Spec => []EverySongQueued
<1>1. Init => TypeInv /\ QueuedInv
  BY TypeInvInit, QueuedInit
<1>2. TypeInv /\ QueuedInv /\ [Next]_vars => (TypeInv /\ QueuedInv)'
  BY TypeInvNext, QueuedNext
<1>3. QueuedInv => EverySongQueued
  BY DEF QueuedInv
<1>. QED  BY <1>1, <1>2, <1>3, PTL DEF Spec

-----------------------------------------------------------------------------
(* A request moves by its own steps only. *)
LEMMA MovesAlone ==
    ASSUME TypeInv, [Next]_vars, NEW q \in Requests, ~Ask(q), ~Work(q)
    PROVE  UNCHANGED <<pc[q], job[q], mine[q], first[q], tokens[q]>>
<1>. USE DEF TypeInv
<1>1. ASSUME UNCHANGED <<pc, job, mine, first, tokens>> PROVE UNCHANGED <<pc[q], job[q], mine[q], first[q], tokens[q]>>
  BY <1>1
<1>2. ASSUME NEW r \in Requests \ {q}, Ask(r) PROVE UNCHANGED <<pc[q], job[q], mine[q], first[q], tokens[q]>>
  BY <1>2, Asked
<1>3. ASSUME NEW r \in Requests \ {q}, Leaves(r) PROVE UNCHANGED <<pc[q], job[q], mine[q], first[q], tokens[q]>>
  BY <1>3, Returned
<1>4. ASSUME NEW r \in Requests \ {q}, Hold(r, known'[r], mine'[r], wrote'[r])
      PROVE  UNCHANGED <<mine[q], first[q], tokens[q]>>
  BY <1>4 DEF Hold, SessionType
<1>5. ASSUME NEW r \in Requests \ {q}, NEW k \in Rows, NEW goal \in Rows, NEW w \in Rows, Hold(r, k, goal, w)
      PROVE  UNCHANGED <<mine[q], first[q], tokens[q]>>
  BY <1>5, Held
<1>6. ASSUME NEW r \in Requests \ {q}, LoadAdd(r) \/ LoadRemove(r) \/ LoadBatch(r) \/ LoadClear(r)
      PROVE  UNCHANGED <<pc[q], job[q], mine[q], first[q], tokens[q]>>
  <2>1. ASSUME NEW m \in {"flush", "save"}, NEW k \in Rows, NEW goal \in Rows,
               Loaded(r, m), Hold(r, k, goal, Nothing)
        PROVE  UNCHANGED <<pc[q], job[q], mine[q], first[q], tokens[q]>>
    BY <1>5, <2>1, RowsLoaded, Constants DEF Labels
  <2>2. \/ Return(r)
        \/ \E m \in {"flush", "save"}, k, goal \in Rows : Loaded(r, m) /\ Hold(r, k, goal, Nothing)
    BY <1>6, LoadedRows
  <2>. QED  BY <1>3, <2>1, <2>2 DEF Leaves
<1>7. ASSUME NEW r \in Requests \ {q}, Flush(r) PROVE UNCHANGED <<pc[q], job[q], mine[q], first[q], tokens[q]>>
  <2>1. mine[r] \in Rows
    BY DEF SessionType
  <2>2. \/ Return(r)
        \/ \E k, w \in Rows : Step(r, "flush", "relist") /\ Hold(r, k, mine[r], w)
    BY <1>7, Flushed
  <2>3. ASSUME NEW k \in Rows, NEW w \in Rows, Step(r, "flush", "relist"), Hold(r, k, mine[r], w)
        PROVE  UNCHANGED <<pc[q], job[q], mine[q], first[q], tokens[q]>>
    BY <1>5, <2>1, <2>3, Stepped DEF Labels
  <2>. QED  BY <1>3, <2>2, <2>3 DEF Leaves
<1>8. ASSUME NEW r \in Requests \ {q}, Relist(r) PROVE UNCHANGED <<pc[q], job[q], mine[q], first[q], tokens[q]>>
  <2>1. wrote[r] \in Rows
    BY DEF SessionType
  <2>2. Step(r, "relist", "save") /\ \E k, goal \in Rows : Hold(r, k, goal, wrote[r])
    BY <1>8, Relisted
  <2>. QED  BY <1>5, <2>1, <2>2, Stepped DEF Labels
<1>9. ASSUME NEW r \in Requests \ {q}, Save(r) PROVE UNCHANGED <<pc[q], job[q], mine[q], first[q], tokens[q]>>
  <2>1. AfterSave(job[r].kind) \in Labels
    BY DEF AfterSave, Labels
  <2>2. \/ Return(r)
        \/ Step(r, "save", AfterSave(job[r].kind)) /\ Hold(r, Nothing, Nothing, Nothing)
    BY <1>9, Saved
  <2>. QED  BY <1>3, <1>5, <2>1, <2>2, Stepped, Constants DEF Leaves
<1>10. ASSUME NEW r \in Requests \ {q},
              RefreshRead(r) \/ RefreshSet(r) \/ PreloadRead(r) \/ PreloadAsk(r) \/ End(r)
       PROVE  UNCHANGED <<pc[q], job[q], mine[q], first[q], tokens[q]>>
  BY <1>3, <1>10, Preloading DEF Leaves
<1>11. ASSUME NEW r \in Requests \ {q}, Work(r) PROVE UNCHANGED <<pc[q], job[q], mine[q], first[q], tokens[q]>>
  BY <1>3, <1>6, <1>7, <1>8, <1>9, <1>10, <1>11, Broken DEF Work
<1>12. ASSUME (\E s \in Songs : Download(s)) \/ StartRead \/ StartPlay \/ StartCommit \/ Skip \/ UNCHANGED vars
       PROVE  UNCHANGED <<pc, job, mine, first, tokens>>
  BY <1>12 DEF Download, StartRead, StartPlay, StartCommit, Skip, sessions, vars
<1>. QED  BY <1>1, <1>2, <1>11, <1>12 DEF Next, AllAnswered

-----------------------------------------------------------------------------
(* A request that numbers the list holds the numbers 1 .. n when it commits. *)
Numbered(l) ==
    {l[s] : s \in {t \in Songs : l[t] # Unknown}} = 1 .. Cardinality({t \in Songs : l[t] # Unknown})

NumbersHeld ==
    \A r \in Requests : pc[r] = "save" /\ job[r].kind \notin {"batch", "clear"} => Numbered(mine[r])

LEMMA NumbersNext ==
    ASSUME TypeInv, NumbersHeld, [Next]_vars
    PROVE  NumbersHeld'
<1>. USE DEF TypeInv
<1>. SUFFICES ASSUME NEW r \in Requests, pc'[r] = "save", job'[r].kind \notin {"batch", "clear"}
              PROVE  Numbered(mine'[r])
  BY DEF NumbersHeld, Numbered
<1>1. CASE ~Ask(r) /\ ~Work(r)
  BY <1>1, MovesAlone DEF NumbersHeld
<1>2. CASE Ask(r)
  BY <1>2, Asked
<1>3. CASE LoadAdd(r) \/ LoadRemove(r) \/ LoadBatch(r) \/ LoadClear(r)
  <2>1. ASSUME NEW m \in {"flush", "save"}, Loaded(r, m), m = "save" => job[r].kind \in {"batch", "clear"}
        PROVE  FALSE
    BY <2>1, RowsLoaded DEF Labels
  <2>2. \/ Return(r)
        \/ \E m \in {"flush", "save"} : Loaded(r, m) /\ (m = "save" => job[r].kind \in {"batch", "clear"})
    BY <1>3, LoadedRows
  <2>. QED  BY <2>1, <2>2, Returned DEF Leaves
<1>4. CASE Flush(r)
  BY <1>4, Flushed, Stepped, Returned DEF Labels, Leaves
<1>5. CASE Relist(r)
  <2>1. PICK k, goal \in Rows :
          Hold(r, k, goal, wrote[r])
          /\ {goal[s] : s \in {t \in Songs : goal[t] # Unknown}}
                 = 1 .. Cardinality({t \in Songs : goal[t] # Unknown})
    BY <1>5, Relisted
  <2>2. mine'[r] = goal
    BY <2>1, Held DEF SessionType
  <2>. QED  BY <2>1, <2>2 DEF Numbered
<1>6. CASE Save(r)
  <2>1. AfterSave(job[r].kind) \in Labels \ {"save"}
    BY DEF AfterSave, Labels
  <2>. QED  BY <1>6, <2>1, Saved, Stepped, Returned DEF Leaves
<1>7. CASE BreakDeadlock(r)
  BY <1>7, Broken, Returned
<1>8. CASE RefreshRead(r) \/ RefreshSet(r) \/ PreloadRead(r) \/ PreloadAsk(r) \/ End(r)
  BY <1>8, Preloading, Returned DEF Leaves
<1>. QED  BY <1>1, <1>2, <1>3, <1>4, <1>5, <1>6, <1>7, <1>8 DEF Work

(* Only a commit takes a request from there to what follows a commit. *)
LEMMA CommitIsSave ==
    ASSUME TypeInv, [Next]_vars, NEW r \in Requests, pc[r] = "save", pc'[r] \in {"preload", "refresh"}
    PROVE  Save(r)
<1>. USE DEF TypeInv
<1>1. Ask(r) \/ Work(r)
  BY MovesAlone
<1>2. ~Ask(r)
  BY Asked
<1>3. ~(LoadAdd(r) \/ LoadRemove(r) \/ LoadBatch(r) \/ LoadClear(r))
  BY LoadedRows
<1>4. ~Flush(r) /\ ~Relist(r)
  BY Flushed, Relisted, Stepped DEF Labels
<1>5. ~BreakDeadlock(r)
  BY Broken, Returned
<1>6. ~(RefreshRead(r) \/ RefreshSet(r) \/ PreloadRead(r) \/ PreloadAsk(r) \/ End(r))
  BY Preloading, Returned DEF Leaves
<1>. QED  BY <1>1, <1>2, <1>3, <1>4, <1>5, <1>6 DEF Work

LEMMA UndisturbedNext ==
    ASSUME TypeInv, NumbersHeld, [Next]_vars, NEW r \in Requests,
           Renumbers(r), pc'[r] \in {"preload", "refresh"}
    PROVE  {list'[s] : s \in InList(list')} = 1 .. Cardinality(InList(list'))
<1>. USE DEF TypeInv
<1>. DEFINE rows == {t \in Songs : mine[r][t] # Unknown}
<1>1. Save(r) /\ Numbered(mine[r])
  BY CommitIsSave DEF Renumbers, NumbersHeld
<1>2. \A s \in Songs : list'[s] = IF mine[r][s] # Unknown /\ mine[r][s] # known[r][s]
                                  THEN mine[r][s] ELSE View(r)[s]
  BY <1>1, Saved, Returned DEF Leaves
<1>3. \A s \in Songs : View(r)[s] = IF mine[r][s] = Unknown THEN Absent ELSE known[r][s]
  BY DEF Renumbers
<1>4. \A s \in Songs : list'[s] = IF mine[r][s] = Unknown THEN Absent ELSE mine[r][s]
  BY <1>2, <1>3
<1>5. Cardinality(rows) \in Nat /\ \A s \in rows : mine[r][s] \in 1 .. Cardinality(rows)
  BY <1>1, Counted DEF Numbered
<1>6. \A s \in rows : mine[r][s] \notin {Absent, Unknown}
  <2>. HIDE DEF rows
  <2>1. \A s \in rows : mine[r][s] \in Int
    BY <1>5
  <2>. QED  BY <2>1, Constants DEF Row, Order
<1>7. InList(list') = rows
  BY <1>4, <1>6 DEF InList
<1>8. {list'[s] : s \in rows} = {mine[r][s] : s \in rows}
  BY <1>4
<1>. QED  BY <1>1, <1>7, <1>8 DEF Numbered

(* Whatever the list looked like before, a request that numbers it and is not disturbed *)
(* leaves the numbers 1 .. n, each once (room_song_related.py:66-82).                   *)
THEOREM NumbersEachOnce == Spec => UndisturbedOrder
<1>1. Init => TypeInv /\ NumbersHeld
  BY TypeInvInit DEF Init, NumbersHeld
<1>2. TypeInv /\ NumbersHeld /\ [Next]_vars => (TypeInv /\ NumbersHeld)'
  BY TypeInvNext, NumbersNext
<1>3. TypeInv /\ NumbersHeld /\ [Next]_vars =>
        [\A r \in Requests :
            Renumbers(r) /\ pc'[r] \in {"preload", "refresh"} =>
                {list'[s] : s \in InList(list')} = 1 .. Cardinality(InList(list'))]_vars
  BY UndisturbedNext
<1>. QED  BY <1>1, <1>2, <1>3, PTL DEF Spec, UndisturbedOrder

-----------------------------------------------------------------------------
(* A token is renewed by the preload, or by the refresh before it. *)
TokensLater ==
    \A r \in Requests : pc[r] \notin {"preload", "preloadAsk", "end"} => tokens[r] = {}

LEMMA TokensNext ==
    ASSUME TypeInv, TokensLater, [Next]_vars
    PROVE  TokensLater'
<1>. USE DEF TypeInv
<1>. SUFFICES ASSUME NEW r \in Requests, pc'[r] \notin {"preload", "preloadAsk", "end"}
              PROVE  tokens'[r] = {}
  BY DEF TokensLater
<1>1. CASE ~Ask(r) /\ ~Work(r)
  BY <1>1, MovesAlone DEF TokensLater
<1>2. CASE Ask(r)
  BY <1>2, Asked DEF TokensLater
<1>3. CASE Leaves(r)
  BY <1>3, Returned
<1>4. ASSUME pc[r] \in {"load", "flush", "relist", "save"}, tokens' = tokens PROVE tokens'[r] = {}
  BY <1>4 DEF TokensLater
<1>5. CASE LoadAdd(r) \/ LoadRemove(r) \/ LoadBatch(r) \/ LoadClear(r)
  <2>1. pc[r] = "load" /\ (Return(r) \/ \E k, goal, w \in Rows : Hold(r, k, goal, w))
    BY <1>5, LoadedRows, Constants
  <2>. QED  BY <1>3, <1>4, <2>1 DEF Hold, Leaves
<1>6. CASE Flush(r)
  <2>1. pc[r] = "flush" /\ (Return(r) \/ \E k, w \in Rows : Hold(r, k, mine[r], w))
    BY <1>6, Flushed
  <2>. QED  BY <1>3, <1>4, <2>1 DEF Hold, Leaves
<1>7. CASE Relist(r)
  <2>1. Step(r, "relist", "save") /\ \E k, goal \in Rows : Hold(r, k, goal, wrote[r])
    BY <1>7, Relisted
  <2>. QED  BY <1>4, <2>1 DEF Hold, Step
<1>8. CASE Save(r)
  <2>1. pc[r] = "save" /\ (Return(r) \/ Hold(r, Nothing, Nothing, Nothing))
    BY <1>8, Saved
  <2>. QED  BY <1>3, <1>4, <2>1 DEF Hold, Leaves
<1>9. CASE BreakDeadlock(r)
  BY <1>3, <1>9, Broken
<1>10. CASE RefreshRead(r)
  <2>1. Step(r, "refresh", "refreshSet") /\ tokens' = tokens
    BY <1>10 DEF RefreshRead
  <2>. QED  BY <2>1 DEF Step, TokensLater
<1>11. CASE RefreshSet(r)
  BY <1>11, Refreshed
<1>12. CASE PreloadRead(r)
  BY <1>12, HeadRead
<1>13. CASE PreloadAsk(r)
  BY <1>3, <1>13, HandedOver DEF Leaves
<1>14. CASE End(r)
  BY <1>3, <1>14 DEF End, Leaves
<1>. QED  BY <1>1, <1>2, <1>5, <1>6, <1>7, <1>8, <1>9, <1>10, <1>11, <1>12, <1>13, <1>14 DEF Work

(* The first songs of the list are asked for, or will be: by a request that reads *)
(* the queue after it, or that has read the queue as it is and can flush the rows *)
(* it has to.  A list that somebody cleared is left out, and a preload that was   *)
(* given up in a deadlock, as in the property.                                    *)
AskedFor == \E q \in Queues(list) : FirstSongs(q) \subseteq asked

WillRead(r) ==
    \/ pc[r] \in {"refresh", "refreshSet"}
    \/ pc[r] = "preload" /\ tokens[r] \subseteq InList(list)

HasRead(r) ==
    /\ pc[r] = "preloadAsk" /\ tokens[r] \subseteq InList(list)
    /\ \E q \in Queues(list) : first[r] = FirstSongs(q)

HasCleared(r) == pc[r] \in {"end", "done"} /\ job[r].kind = "clear"

HasDropped(r) == pc[r] = "dropped"

Responsible(r) == WillRead(r) \/ HasRead(r) \/ HasCleared(r) \/ HasDropped(r)

AskedInv == TokensLater /\ (AskedFor \/ \E r \in Requests : Responsible(r))

(* Only a commit changes the list, and nothing that was asked for is forgotten. *)
LEMMA ListChanges ==
    ASSUME TypeInv, [Next]_vars
    PROVE  /\ asked \subseteq asked'
           /\ \/ list' = list
              \/ \E r \in Requests : Step(r, "save", AfterSave(job[r].kind)) /\ tokens' = tokens
<1>. USE DEF TypeInv
<1>1. ASSUME NEW r \in Requests, Ask(r) PROVE list' = list /\ asked' = asked
  BY <1>1, Asked DEF media
<1>2. ASSUME NEW r \in Requests, LoadAdd(r) \/ LoadRemove(r) \/ LoadBatch(r) \/ LoadClear(r)
      PROVE  list' = list /\ asked' = asked
  BY <1>2, LoadedRows DEF media
<1>3. ASSUME NEW r \in Requests, Flush(r) \/ Relist(r) \/ BreakDeadlock(r)
      PROVE  list' = list /\ asked' = asked
  BY <1>3, Flushed, Relisted, Broken DEF media
<1>4. ASSUME NEW r \in Requests, Save(r)
      PROVE  /\ asked' = asked
             /\ list' = list \/ (Step(r, "save", AfterSave(job[r].kind)) /\ tokens' = tokens)
  BY <1>4, Saved DEF media, Hold
<1>5. ASSUME NEW r \in Requests,
             RefreshRead(r) \/ RefreshSet(r) \/ PreloadRead(r) \/ PreloadAsk(r) \/ End(r)
      PROVE  list' = list /\ asked \subseteq asked'
  BY <1>5 DEF RefreshRead, RefreshSet, PreloadRead, PreloadAsk, End, media
<1>6. ASSUME (\E s \in Songs : Download(s)) \/ StartRead \/ StartPlay \/ StartCommit \/ Skip \/ UNCHANGED vars
      PROVE  list' = list /\ asked' = asked
  BY <1>6 DEF Download, StartRead, StartPlay, StartCommit, Skip, vars, media
<1>7. ASSUME NEW r \in Requests, Work(r)
      PROVE  /\ asked \subseteq asked'
             /\ list' = list \/ (Step(r, "save", AfterSave(job[r].kind)) /\ tokens' = tokens)
  BY <1>2, <1>3, <1>4, <1>5, <1>7 DEF Work
<1>. QED  BY <1>1, <1>6, <1>7 DEF Next, AllAnswered

(* A request that is to read the queue, or has read it, goes on to ask for its songs, *)
(* or the database gives up its preload.                                              *)
LEMMA ReaderGoesOn ==
    ASSUME TypeInv, [Next]_vars, list' = list, NEW r \in Requests, Responsible(r)
    PROVE  AskedFor' \/ Responsible(r)'
<1>. USE DEF TypeInv
<1>0. Queues(list') = Queues(list) /\ InList(list') = InList(list)
  BY DEF Queues, Queued, InList
<1>1. CASE ~Ask(r) /\ ~Work(r)
  BY <1>0, <1>1, MovesAlone DEF Responsible, WillRead, HasRead, HasCleared, HasDropped
<1>2. pc[r] \in {"refresh", "refreshSet", "preload", "preloadAsk", "end", "done", "dropped"}
  BY DEF Responsible, WillRead, HasRead, HasCleared, HasDropped
<1>3. ~Ask(r)
  BY <1>2, Asked
<1>4. ~(LoadAdd(r) \/ LoadRemove(r) \/ LoadBatch(r) \/ LoadClear(r))
  BY <1>2, LoadedRows
<1>5. ~Flush(r) /\ ~Relist(r) /\ ~Save(r)
  BY <1>2, Flushed, Relisted, Saved, Stepped DEF Labels
<1>6. CASE BreakDeadlock(r)
  <2>1. pc[r] \in {"preloadAsk", "end"}
    BY <1>2, <1>6, Broken DEF Wants
  <2>2. CASE pc[r] = "preloadAsk"
    <3>1. pc'[r] = "dropped"
      BY <1>6, <2>2, Broken DEF Leave, Goto, JobType
    <3>. QED  BY <3>1 DEF Responsible, HasDropped
  <2>3. CASE pc[r] = "end"
    <3>1. job[r].kind = "clear"
      BY <2>3 DEF Responsible, WillRead, HasRead, HasCleared, HasDropped
    <3>2. pc'[r] = "done" /\ job'[r].kind = "clear"
      BY <1>6, <2>3, <3>1, Broken, Returned
    <3>. QED  BY <3>2 DEF Responsible, HasCleared
  <2>. QED  BY <2>1, <2>2, <2>3
<1>7. CASE RefreshRead(r)
  <2>1. pc'[r] = "refreshSet"
    BY <1>7, Stepped DEF RefreshRead, Labels
  <2>. QED  BY <2>1 DEF Responsible, WillRead
<1>8. CASE RefreshSet(r)
  BY <1>0, <1>8, Refreshed DEF Responsible, WillRead
<1>9. CASE PreloadRead(r)
  <2>1. pc[r] = "preload" /\ tokens[r] \subseteq InList(list)
    BY <1>9, HeadRead DEF Responsible, WillRead, HasRead, HasCleared, HasDropped
  <2>2. PICK q \in Queues(list) :
          /\ first'[r] = FirstSongs(q)
          /\ pc'[r] = IF FirstSongs(q) = {} THEN "end" ELSE "preloadAsk"
    BY <1>9, HeadRead
  <2>3. tokens'[r] \subseteq InList(list)
    BY <1>9, <2>1, HeadRead
  <2>4. CASE FirstSongs(q) = {}
    BY <1>0, <2>4 DEF AskedFor
  <2>5. CASE FirstSongs(q) # {}
    BY <1>0, <2>2, <2>3, <2>5 DEF Responsible, HasRead
  <2>. QED  BY <2>4, <2>5
<1>10. CASE PreloadAsk(r)
  <2>1. pc[r] = "preloadAsk"
    BY <1>10, HandedOver
  <2>2. tokens[r] \subseteq InList(list) /\ \E q \in Queues(list) : first[r] = FirstSongs(q)
    BY <2>1 DEF Responsible, WillRead, HasRead, HasCleared, HasDropped
  <2>3. asked' = asked \cup first[r]
    BY <1>10, <2>2, HandedOver
  <2>. QED  BY <1>0, <2>2, <2>3 DEF AskedFor
<1>11. CASE End(r)
  <2>1. pc[r] = "end" /\ Return(r)
    BY <1>11 DEF End
  <2>2. job[r].kind = "clear"
    BY <2>1 DEF Responsible, WillRead, HasRead, HasCleared, HasDropped
  <2>3. pc'[r] = "done" /\ job'[r].kind = "clear"
    BY <2>1, <2>2, Returned DEF Leaves
  <2>. QED  BY <2>3 DEF Responsible, HasCleared
<1>. QED  BY <1>1, <1>3, <1>4, <1>5, <1>6, <1>7, <1>8, <1>9, <1>10, <1>11 DEF Work

LEMMA AskedNext ==
    ASSUME TypeInv, AskedInv, [Next]_vars
    PROVE  AskedInv'
<1>. USE DEF TypeInv
<1>0. TokensLater /\ TokensLater'
  BY TokensNext DEF AskedInv
<1>1. CASE list' = list
  <2>1. Queues(list') = Queues(list) /\ asked \subseteq asked'
    BY <1>1, ListChanges DEF Queues, Queued, InList
  <2>2. CASE AskedFor
    BY <1>0, <2>1, <2>2 DEF AskedFor, AskedInv
  <2>3. CASE \E r \in Requests : Responsible(r)
    BY <1>0, <1>1, <2>3, ReaderGoesOn DEF AskedInv
  <2>. QED  BY <2>2, <2>3 DEF AskedInv
<1>2. CASE \E r \in Requests : Step(r, "save", AfterSave(job[r].kind)) /\ tokens' = tokens
  <2>1. PICK r \in Requests : Step(r, "save", AfterSave(job[r].kind)) /\ tokens' = tokens
    BY <1>2
  <2>2. AfterSave(job[r].kind) \in Labels
    BY DEF AfterSave, Labels
  <2>3. pc[r] = "save" /\ pc'[r] = AfterSave(job[r].kind) /\ job' = job
    BY <2>1, <2>2, Stepped
  <2>4. tokens'[r] = {}
    BY <1>0, <2>1, <2>3 DEF TokensLater
  <2>5. WillRead(r)' \/ HasCleared(r)'
    BY <2>3, <2>4 DEF AfterSave, WillRead, HasCleared
  <2>. QED  BY <1>0, <2>5 DEF AskedInv, Responsible
<1>. QED  BY <1>1, <1>2, ListChanges

(* When nobody edits a list that nobody cleared, the songs a game would begin with are *)
(* with the worker, in whatever order the requests committed, read the queue and       *)
(* flushed their tokens: the last one to commit reads the queue after its commit, and  *)
(* the rows it flushes are there.  A preload that the database gave up to end a        *)
(* deadlock is left out (room_song_related.py:66-152, router/room_songs.py:63-90,      *)
(* audio_preload_and_token.py:177-249).                                                *)
THEOREM FirstSongsGoOut == Spec => []FirstSongsAsked
<1>1. Init => TypeInv /\ AskedInv
  BY TypeInvInit DEF Init, AskedInv, AskedFor, TokensLater
<1>2. TypeInv /\ AskedInv /\ [Next]_vars => (TypeInv /\ AskedInv)'
  BY TypeInvNext, AskedNext
<1>3. AskedInv => FirstSongsAsked
  BY DEF AskedInv, FirstSongsAsked, Quiet, Ended, Cleared, Dropped, AskedFor, Responsible, WillRead,
         HasRead, HasCleared, HasDropped
<1>. QED  BY <1>1, <1>2, <1>3, PTL DEF Spec
=============================================================================
