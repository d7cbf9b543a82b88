------------------------------- MODULE SongList -------------------------------
(***************************************************************************)
(* The songs of a room before the game: the requests of router/room_songs  *)
(* that add, remove, reorder, clear and shuffle rows of room_songs, the    *)
(* preload they trigger, and GAME_START, which reads the list they edit.   *)
(*                                                                         *)
(* A request works on a session of its own.  It keeps the first value it   *)
(* loaded of a row (identity map, no refresh), a flush writes the rows     *)
(* whose value differs from that, and the rows it wrote stay locked until  *)
(* the commit.  An UPDATE of a row that is gone and an INSERT of a row     *)
(* that is there fail, and the request ends with status 500.  The preload  *)
(* is a second transaction of the same session, which renews the tokens of *)
(* the first songs; its errors are swallowed.                              *)
(*                                                                         *)
(* The songs exist, have a platform id, and the requests come from the     *)
(* owner: the others are refused before they read the list.                *)
(***************************************************************************)
EXTENDS Integers, Sequences, FiniteSets

CONSTANTS
    Songs,          \* ids of songs
    Requests,       \* requests that are in flight together
    Kinds,          \* what they ask for
    NewOrders,      \* orders a client may send in a batch update
    Ahead,          \* songs that are downloaded ahead of the game: 3
    None,           \* NULL: the song is not queued
    Absent,         \* no such row
    Unknown,        \* the session has not loaded, or not written, the row
    WithGame        \* whether GAME_START may arrive

AllKinds == {"append", "insert", "remove", "batch", "clear", "shuffle"}

ASSUME SongListAssumption ==
    /\ Songs \subseteq Nat /\ IsFiniteSet(Songs) /\ IsFiniteSet(Requests)
    /\ Kinds \subseteq AllKinds
    /\ NewOrders \subseteq Int \cup {None}
    /\ Ahead \in Nat \ {0}
    /\ None \notin Int /\ Absent \notin Int \cup {None}
    /\ Unknown \notin Int \cup {None, Absent}
    /\ WithGame \in BOOLEAN

VARIABLES
    list,       \* room_songs, committed: song -> song_order
    status,     \* rooms.status
    index,      \* rooms.current_song_index
    playing,    \* song of the playback hash
    asked,      \* songs that were handed to the worker
    todo,       \* songs with a download in its queue, or under way
    ready,      \* songs whose task row says success
    pc, job,    \* per request: where it is, what it was asked, the index it loaded
    known,      \* per request: the row as its session believes it is stored
    mine,       \* per request: the row as its session will write it
    wrote,      \* per request: what it has flushed and not committed
    first,      \* per request: songs it read from the head of the queue
    tokens,     \* per request: rows with a new token that is not flushed
    gpc, game   \* GAME_START: where it is, the queue it read

room == <<status, index, playing>>
media == <<asked, todo, ready>>
sessions == <<known, mine, wrote, first, tokens>>
start == <<gpc, game>>
vars == <<list, room, media, pc, job, sessions, start>>

Order == Int \cup {None}
Row == Order \cup {Absent}
Rows == [Songs -> Row \cup {Unknown}]

Labels ==
    {"idle", "load", "flush", "relist", "save", "refresh", "refreshSet", "preload", "preloadAsk",
     "end", "done", "dropped"}

(* Answered; "dropped": the database gave up the preload of the request. *)
Ended == {"done", "dropped"}

Job ==
    [kind : AllKinds, ids : SUBSET Songs, orders : Rows, index : Nat \cup {None}, reset : BOOLEAN]

Nothing == [s \in Songs |-> Unknown]
Job0 == [kind |-> "clear", ids |-> {}, orders |-> Nothing, index |-> None, reset |-> FALSE]

InList(l) == {s \in Songs : l[s] \notin {Absent, Unknown}}
Queued(l) == {s \in InList(l) : l[s] # None}

(* get_room_song_queue: by order, rows of equal order either way round. *)
Queues(l) ==
    LET n == Cardinality(Queued(l)) IN
    {q \in [1 .. n -> Queued(l)] : \A i, j \in 1 .. n : i < j => q[i] # q[j] /\ l[q[i]] <= l[q[j]]}

FirstSongs(q) == {q[i] : i \in 1 .. (IF Len(q) < Ahead THEN Len(q) ELSE Ahead)}

(* Fault: the numbers begin with 0. *)
ShufflesFromZero(S) ==
    {f \in [S -> 0 .. Cardinality(S) - 1] : \A s, t \in S : s # t => f[s] # f[t]}

(* random.shuffle, then 1, 2, 3 ... *)
Shuffles(S) ==
    {f \in [S -> 1 .. Cardinality(S)] : \A s, t \in S : s # t => f[s] # f[t]}

-----------------------------------------------------------------------------
(* What the requests make of the rows they loaded. *)

Place(S, s) == Cardinality({t \in S : t <= s})

MaxOrder(l) ==
    IF Queued(l) = {} THEN 0 ELSE CHOOSE m \in {l[s] : s \in Queued(l)} : \A s \in Queued(l) : l[s] <= m

(* add_songs_to_room before it shuffles: numbers behind the last one, or the *)
(* first ones with the others shifted; NULL while nothing is queued.         *)
Added(l, new, atEnd) ==
    [s \in Songs |->
        IF s \in new
        THEN IF Queued(l) = {} THEN None
             ELSE (IF atEnd THEN MaxOrder(l) ELSE 0) + Place(new, s)
        ELSE IF ~atEnd /\ s \in Queued(l) THEN l[s] + Cardinality(new)
        ELSE l[s]]

(* remove_songs_from_room before it shuffles: if a removed song was queued, all *)
(* queued rows are numbered again.                                              *)
Removed(l, gone) ==
    LET before(s, t) == l[t] < l[s] \/ (l[t] = l[s] /\ t <= s)
        renumber == gone \cap Queued(l) # {}
    IN [s \in Songs |->
        IF s \in gone THEN Absent
        ELSE IF ~renumber THEN Unknown
        ELSE IF s \in Queued(l) THEN Cardinality({t \in Queued(l) : before(s, t)})
        ELSE Unknown]

-----------------------------------------------------------------------------
(* The unit of work. *)

(* The rows a flush of r writes: the object differs from what the session knows. *)
Dirty(r, goal) == {s \in Songs : goal[s] # Unknown /\ goal[s] # known[r][s]}

View(r) == [s \in Songs |-> IF wrote[r][s] # Unknown THEN wrote[r][s] ELSE list[s]]

(* Fault: the shuffle works in a session of its own. *)
BlockedByOwn(r, S) == \E q \in Requests : \E s \in S : wrote[q][s] # Unknown

(* A row that another session wrote stays locked until that commits. *)
Blocked(r, S) == \E q \in Requests \ {r} : \E s \in S : wrote[q][s] # Unknown

(* The row of the room, whose index a shuffle sets, is written by the same flush. *)
RoomHeld(q) == pc[q] = "end" /\ job[q].reset /\ first[q] # {}

RoomLocked(r) == \E q \in Requests \ {r} : RoomHeld(q)

(* INSERT of a row that is there, UPDATE of a row that is gone; a DELETE that *)
(* finds nothing only warns.                                                  *)
Fails(r, goal) ==
    \E s \in Dirty(r, goal) :
        \/ known[r][s] = Absent /\ View(r)[s] # Absent
        \/ known[r][s] # Absent /\ goal[s] # Absent /\ View(r)[s] = Absent

Overlay(f, goal, S) == [s \in Songs |-> IF s \in S THEN goal[s] ELSE f[s]]

(* A room whose list earlier requests have left in some order, two songs with the *)
(* same number included.                                                          *)
Init ==
    /\ list \in {l \in [Songs -> 1 .. Cardinality(Songs) \cup {Absent}] :
                    \A s \in InList(l) : l[s] <= Cardinality(InList(l))}
    /\ status = "WAITING" /\ index = None /\ playing = None
    /\ asked \in {FirstSongs(q) : q \in Queues(list)} /\ todo = asked /\ ready = {}
    /\ pc = [r \in Requests |-> "idle"]
    /\ job = [r \in Requests |-> Job0]
    /\ known = [r \in Requests |-> Nothing]
    /\ mine = [r \in Requests |-> Nothing]
    /\ wrote = [r \in Requests |-> Nothing]
    /\ first = [r \in Requests |-> {}]
    /\ tokens = [r \in Requests |-> {}]
    /\ gpc = "idle" /\ game = <<>>

Goto(r, l) == pc' = [pc EXCEPT ![r] = l]

Step(r, from, to) == pc[r] = from /\ Goto(r, to) /\ UNCHANGED <<job, start>>

(* The rows are loaded; the body of the request is not read again. *)
Loaded(r, to) ==
    /\ pc[r] = "load" /\ Goto(r, to)
    /\ job' = [job EXCEPT ![r].ids = {}, ![r].orders = Nothing]
    /\ UNCHANGED start

Hold(r, k, m, w) ==
    /\ known' = [known EXCEPT ![r] = k]
    /\ mine' = [mine EXCEPT ![r] = m]
    /\ wrote' = [wrote EXCEPT ![r] = w]
    /\ UNCHANGED <<first, tokens>>

(* The response is sent; the session is closed and its locks are gone. *)
Leave(r, l) ==
    /\ Goto(r, l)
    /\ job' = [job EXCEPT ![r] = [Job0 EXCEPT !.kind = job[r].kind]]
    /\ known' = [known EXCEPT ![r] = Nothing]
    /\ mine' = [mine EXCEPT ![r] = Nothing]
    /\ wrote' = [wrote EXCEPT ![r] = Nothing]
    /\ first' = [first EXCEPT ![r] = {}]
    /\ tokens' = [tokens EXCEPT ![r] = {}]
    /\ UNCHANGED start

Return(r) == Leave(r, "done")

-----------------------------------------------------------------------------
(* A request of the owner passes _require_room_waiting. *)
Ask(r) ==
    /\ pc[r] = "idle" /\ status = "WAITING"
    /\ \E k \in Kinds, ids \in SUBSET Songs :
        /\ ids = {} <=> k \in {"clear", "shuffle"}
        /\ \E o \in IF k = "batch" THEN [ids -> NewOrders] ELSE {Nothing} :
             job' = [job EXCEPT ![r] =
                [kind |-> k, ids |-> ids, index |-> index, reset |-> FALSE,
                 orders |-> [s \in Songs |-> IF k = "batch" /\ s \in ids THEN o[s] ELSE Unknown]]]
        /\ Goto(r, IF k = "shuffle" THEN "relist" ELSE "load")
    /\ UNCHANGED <<list, room, media, sessions, start>>

LoadAdd(r) ==
    LET new == {s \in job[r].ids : list[s] = Absent} IN
    /\ pc[r] = "load" /\ job[r].kind \in {"append", "insert"}
    /\ \/ new = {} /\ Return(r)
       \/ /\ new # {}
          /\ Loaded(r, "flush")
          /\ Hold(r, list, Added(list, new, job[r].kind = "append"), Nothing)
    /\ UNCHANGED <<list, room, media>>

LoadRemove(r) ==
    LET gone == job[r].ids \cap InList(list)
        goal == Removed(list, gone)
    IN
    /\ pc[r] = "load" /\ job[r].kind = "remove"
    /\ \/ gone = {} /\ Return(r)
       \/ /\ gone # {}
          /\ Loaded(r, "flush")
          /\ Hold(r, [s \in Songs |-> IF goal[s] = Unknown THEN Unknown ELSE list[s]], goal, Nothing)
    /\ UNCHANGED <<list, room, media>>

(* A song of the batch that is not in the room refuses the whole batch. *)
LoadBatch(r) ==
    /\ pc[r] = "load" /\ job[r].kind = "batch"
    /\ \/ ~(job[r].ids \subseteq InList(list)) /\ Return(r)
       \/ /\ job[r].ids \subseteq InList(list)
          /\ Loaded(r, "save")
          /\ Hold(r, [s \in Songs |-> IF s \in job[r].ids THEN list[s] ELSE Unknown], job[r].orders, Nothing)
    /\ UNCHANGED <<list, room, media>>

LoadClear(r) ==
    /\ pc[r] = "load" /\ job[r].kind = "clear"
    /\ \/ InList(list) = {} /\ Return(r)
       \/ /\ InList(list) # {}
          /\ Loaded(r, "save")
          /\ Hold(r, list, [s \in Songs |-> IF list[s] = Absent THEN Unknown ELSE Absent], Nothing)
    /\ UNCHANGED <<list, room, media>>

(* The flush of add and remove before the shuffle, which is not committed. *)
Flush(r) ==
    LET S == Dirty(r, mine[r]) IN
    /\ pc[r] = "flush" /\ ~Blocked(r, S)
    /\ \/ Fails(r, mine[r]) /\ Return(r)
       \/ /\ ~Fails(r, mine[r])
          /\ Step(r, "flush", "relist")
          /\ Hold(r, Overlay(known[r], mine[r], S), mine[r], Overlay(Nothing, mine[r], S))
    /\ UNCHANGED <<list, room, media>>

(* Fault: only rows that have an order are shuffled. *)
RelistQueued(r) ==
    LET rows == Queued(View(r))
        k == [s \in Songs |-> IF known[r][s] \in {Unknown, Absent} /\ s \in rows THEN View(r)[s] ELSE known[r][s]]
    IN
    /\ Step(r, "relist", "save")
    /\ \E f \in Shuffles(rows) :
        Hold(r, k, [s \in Songs |-> IF s \in rows THEN f[s] ELSE Unknown], wrote[r])
    /\ UNCHANGED <<list, room, media>>

(* shuffle_room_songs reads the rows again: new ones are loaded, those the *)
(* session knows keep the value it knows.                                  *)
Relist(r) ==
    LET rows == InList(View(r))
        k == [s \in Songs |-> IF known[r][s] \in {Unknown, Absent} /\ s \in rows THEN View(r)[s] ELSE known[r][s]]
    IN
    /\ Step(r, "relist", "save")
    /\ \E f \in Shuffles(rows) :
        Hold(r, k, [s \in Songs |-> IF s \in rows THEN f[s] ELSE Unknown], wrote[r])
    /\ UNCHANGED <<list, room, media>>

(* Fault: a removal triggers no preload. *)
AfterSaveSilent(k) ==
    CASE k = "shuffle" -> "refresh" [] k \in {"clear", "remove"} -> "end" [] OTHER -> "preload"

AfterSave(k) ==
    CASE k = "shuffle" -> "refresh" [] k = "clear" -> "end" [] OTHER -> "preload"

(* The flush of what is left, and the commit. *)
Save(r) ==
    LET S == Dirty(r, mine[r])
        stored == Overlay(View(r), mine[r], S)
    IN
    /\ pc[r] = "save" /\ ~Blocked(r, S)
    /\ \/ Fails(r, mine[r]) /\ Return(r) /\ UNCHANGED list
       \/ /\ ~Fails(r, mine[r])
          /\ list' = stored
          /\ Step(r, "save", AfterSave(job[r].kind))
          /\ Hold(r, Nothing, Nothing, Nothing)
    /\ UNCHANGED <<room, media>>

(* The rows that the next flush of a request writes ... *)
Wants(r) ==
    CASE pc[r] \in {"flush", "save"} -> Dirty(r, mine[r])
      [] pc[r] \in {"preloadAsk", "end"} -> tokens[r]
      [] OTHER -> {}

(* ... one after the other: UPDATEs by key, then INSERTs, then DELETEs. *)
Stage(r, s) ==
    CASE pc[r] \in {"preloadAsk", "end"} -> 1
      [] known[r][s] = Absent -> 2
      [] mine[r][s] = Absent -> 3
      [] OTHER -> 1

Precedes(r, s, t) ==
    Stage(r, s) < Stage(r, t) \/ (Stage(r, s) = Stage(r, t) /\ (s < t \/ (Stage(r, s) = 2 /\ s # t)))

(* When r comes to row t, it may have locked row s. *)
Has(r, s, t) == wrote[r][s] # Unknown \/ (s \in Wants(r) /\ Precedes(r, s, t))

(* r is one of some requests that wait for each other in a circle. *)
InCircle(r) ==
    Wants(r) # {} /\ \E n \in 2 .. Cardinality(Requests) :
        \E c \in [0 .. n - 1 -> {q \in Requests : Wants(q) # {}}], t \in [0 .. n - 1 -> Songs] :
            /\ c[0] = r /\ \A i, j \in 0 .. n - 1 : i < j => c[i] # c[j]
            /\ \A i \in 0 .. n - 1 :
                /\ t[i] \in Wants(c[i]) /\ wrote[c[i]][t[i]] = Unknown
                /\ Has(c[(i + 1) % n], t[i], t[(i + 1) % n])

(* The database ends one of them.  In the preload the error is swallowed, with *)
(* nothing enqueued; the session is unusable and the request fails later on.   *)
BreakDeadlock(r) ==
    /\ InCircle(r)
    /\ Leave(r, IF pc[r] = "preloadAsk" THEN "dropped" ELSE "done")
    /\ UNCHANGED <<list, room, media>>

-----------------------------------------------------------------------------
(* Fault: an empty queue begins with NULL. *)
RefreshReadNull(r) ==
    /\ Step(r, "refresh", "refreshSet")
    /\ \E q \in Queues(list) :
        first' = [first EXCEPT ![r] = {IF q = <<>> THEN None ELSE q[1]}]
    /\ UNCHANGED <<list, room, media, known, mine, wrote, tokens>>

(* _refresh_default_playback_initial_song, of the shuffle request: the head of *)
(* the queue is read, and after several awaits the playback is set to it.      *)
RefreshRead(r) ==
    /\ Step(r, "refresh", "refreshSet")
    /\ \E q \in Queues(list) :
        first' = [first EXCEPT ![r] = IF q = <<>> THEN {} ELSE {q[1]}]
    /\ UNCHANGED <<list, room, media, known, mine, wrote, tokens>>

(* The index is changed in the session, over the one it loaded, and the token of *)
(* the song may be renewed; both are written later, by the flush of the preload.  *)
RefreshSet(r) ==
    /\ pc[r] = "refreshSet" /\ Goto(r, "preload")
    /\ \/ first[r] = {} /\ playing' = None
       \/ \E s \in first[r] : playing' = s
    /\ \E T \in SUBSET (first[r] \cap InList(list)) : tokens' = [tokens EXCEPT ![r] = T]
    /\ job' = [job EXCEPT ![r].reset = first[r] # {} /\ job[r].index # 0]
    /\ UNCHANGED <<list, status, index, media, known, mine, wrote, first, start>>

(* Fault: start_index counts from 1. *)
PreloadReadNext(r) ==
    /\ pc[r] = "preload"
    /\ \E q \in Queues(list) :
        LET S == IF Len(q) < 2 THEN {} ELSE FirstSongs(Tail(q)) IN
        /\ Step(r, "preload", IF S = {} THEN "end" ELSE "preloadAsk")
        /\ first' = [first EXCEPT ![r] = S]
        /\ \E T \in SUBSET S : tokens' = [tokens EXCEPT ![r] = @ \cup T]
    /\ UNCHANGED <<list, room, media, known, mine, wrote>>

(* prepare_preload_songs reads the queue, and renews tokens that have expired or *)
(* that Redis does not know; of an empty queue nothing is flushed ...            *)
PreloadRead(r) ==
    /\ pc[r] = "preload"
    /\ \E q \in Queues(list) :
        LET S == FirstSongs(q) IN
        /\ Step(r, "preload", IF S = {} THEN "end" ELSE "preloadAsk")
        /\ first' = [first EXCEPT ![r] = S]
        /\ \E T \in SUBSET S : tokens' = [tokens EXCEPT ![r] = @ \cup T]
    /\ UNCHANGED <<list, room, media, known, mine, wrote>>

(* ... it flushes them, waiting for the rows that others have written, and keeps *)
(* the rows locked until the request has been handled.  The songs are enqueued,  *)
(* unless a row is gone by then: the error is swallowed, and the request fails.   *)
PreloadAsk(r) ==
    /\ pc[r] = "preloadAsk" /\ ~Blocked(r, tokens[r]) /\ ~(job[r].reset /\ RoomLocked(r))
    /\ \/ /\ tokens[r] \subseteq InList(list)
          /\ Step(r, "preloadAsk", "end")
          /\ asked' = asked \cup first[r] /\ todo' = todo \cup first[r]
          /\ wrote' = [wrote EXCEPT ![r] = [s \in Songs |-> IF s \in tokens[r] THEN list[s] ELSE Unknown]]
          /\ tokens' = [tokens EXCEPT ![r] = {}]
          /\ UNCHANGED <<known, mine, first>>
       \/ /\ ~(tokens[r] \subseteq InList(list)) /\ Return(r)
          /\ UNCHANGED <<asked, todo>>
    /\ UNCHANGED <<list, room, ready>>

(* get_db commits, after a flush of what is left: the index that the refresh set *)
(* to 0, if it was another one in the row the request loaded at its beginning,   *)
(* and a token, if the preload found no songs.                                   *)
End(r) ==
    /\ pc[r] = "end" /\ ~Blocked(r, tokens[r]) /\ ~(job[r].reset /\ RoomLocked(r))
    /\ index' = IF job[r].reset /\ tokens[r] \subseteq InList(list) THEN 0 ELSE index
    /\ Return(r)
    /\ UNCHANGED <<list, status, playing, media>>

-----------------------------------------------------------------------------
(* The worker, of which Downloads models the steps: a job ends with success or *)
(* otherwise, and is not run again.                                            *)
Download(s) ==
    /\ WithGame /\ s \in todo /\ todo' = todo \ {s}
    /\ ready' \in {ready \cup {s}, ready \ {s}}
    /\ UNCHANGED <<list, room, asked, pc, job, sessions, start>>

(* GAME_START reads the queue and checks that its head is downloaded; it sets  *)
(* the playback and then commits the status (GameRoom has the steps between).  *)
StartRead ==
    /\ WithGame /\ gpc = "idle" /\ status = "WAITING"
    /\ \E q \in Queues(list) : q # <<>> /\ FirstSongs(q) \subseteq ready /\ game' = q
    /\ gpc' = "play"
    /\ UNCHANGED <<list, room, media, pc, job, sessions>>

StartPlay ==
    /\ gpc = "play" /\ gpc' = "commit"
    /\ playing' = game[1]
    /\ UNCHANGED <<list, status, index, media, pc, job, sessions, game>>

StartCommit ==
    /\ gpc = "commit" /\ gpc' = "done" /\ ~\E r \in Requests : RoomHeld(r)
    /\ status' = "RUNNING" /\ index' = 0
    /\ UNCHANGED <<list, playing, media, pc, job, sessions, game>>

(* SKIP_ROUND of the running game. *)
Skip ==
    /\ status = "RUNNING" /\ ~\E r \in Requests : RoomHeld(r)
    /\ \E q \in Queues(list) :
        /\ index + 1 < Len(q)
        /\ playing' = q[index + 2]
    /\ index' = index + 1
    /\ UNCHANGED <<list, status, media, pc, job, sessions, start>>

Work(r) ==
    \/ LoadAdd(r) \/ LoadRemove(r) \/ LoadBatch(r) \/ LoadClear(r)
    \/ Flush(r) \/ Relist(r) \/ Save(r) \/ BreakDeadlock(r)
    \/ RefreshRead(r) \/ RefreshSet(r) \/ PreloadRead(r) \/ PreloadAsk(r) \/ End(r)

(* The clients have sent all the requests this instance allows. *)
AllAnswered == (\A r \in Requests : pc[r] \in Ended) /\ UNCHANGED vars

Next ==
    \/ \E r \in Requests : Ask(r) \/ Work(r)
    \/ \E s \in Songs : Download(s)
    \/ StartRead \/ StartPlay \/ StartCommit \/ Skip
    \/ AllAnswered

Spec == Init /\ [][Next]_vars

FairSpec ==
    /\ Spec
    /\ \A r \in Requests : WF_vars(Work(r))
    /\ \A s \in Songs : WF_vars(Download(s))

-----------------------------------------------------------------------------
TypeOK ==
    /\ list \in [Songs -> Row]
    /\ status \in {"WAITING", "RUNNING"} /\ index \in Nat \cup {None}
    /\ playing \in Songs \cup {None}
    /\ asked \in SUBSET Songs /\ todo \in SUBSET Songs /\ ready \in SUBSET Songs
    /\ pc \in [Requests -> Labels] /\ job \in [Requests -> Job]
    /\ known \in [Requests -> Rows] /\ mine \in [Requests -> Rows] /\ wrote \in [Requests -> Rows]
    /\ first \in [Requests -> SUBSET Songs] /\ tokens \in [Requests -> SUBSET Songs]
    /\ gpc \in {"idle", "play", "commit", "done"} /\ game \in Seq(Songs)

(* A song of the room is never left without a number: get_room_song_queue would *)
(* not list it, and no round would play it.  Additions write NULL into an empty *)
(* list and rely on the shuffle that follows in the same transaction, while     *)
(* other requests commit in between (room_song_related.py:66-152).              *)
EverySongQueued ==
    None \notin NewOrders => \A s \in InList(list) : list[s] # None

(* A request that numbers the list, and finds at its commit the rows it loaded *)
(* and nothing else, leaves the numbers 1 .. n, each once, whatever the list   *)
(* looked like before (room_song_related.py:66-82).                            *)
Renumbers(r) ==
    /\ pc[r] = "save" /\ job[r].kind \in {"append", "insert", "remove", "shuffle"}
    /\ \A s \in Songs : View(r)[s] = IF mine[r][s] = Unknown THEN Absent ELSE known[r][s]

UndisturbedOrder ==
    [][\A r \in Requests :
        Renumbers(r) /\ pc'[r] \in {"preload", "refresh"} =>
            {list'[s] : s \in InList(list')} = 1 .. Cardinality(InList(list'))]_vars

Quiet == \A r \in Requests : pc[r] \in {"idle"} \cup Ended

Cleared == \E r \in Requests : pc[r] = "done" /\ job[r].kind = "clear"

Dropped == \E r \in Requests : pc[r] = "dropped"

(* When nobody edits the list, the songs a game would begin with were handed to  *)
(* the worker: the request that commits last reads the queue after its commit,   *)
(* waits for the rows it has to flush, and fails only if a later one takes them. *)
(* Two things are left out.  clear_all_room_songs asks for nothing, and a song   *)
(* added meanwhile survives it (router/room_songs.py:63-90, 311-337); and the    *)
(* database may have given up a preload to end a deadlock, which is swallowed    *)
(* (db/crud/audio_preload_and_token.py:238, router/room_songs.py:89).            *)
FirstSongsAsked ==
    Quiet /\ ~Cleared /\ ~Dropped => \E q \in Queues(list) : FirstSongs(q) \subseteq asked

(* ... and so the check of GAME_START comes to a result: of its first songs every *)
(* one has its download behind it, and none is refused but one that failed.       *)
GameCanStart ==
    (\A r \in Requests : pc[r] \in Ended) /\ ~Cleared /\ ~Dropped
        ~> \E q \in Queues(list) : FirstSongs(q) \subseteq asked \ todo

(* Every request is answered: sessions wait for the rows others have flushed, for *)
(* their edits and for their preload, in circles possibly.                        *)
RequestsEnd ==
    \A r \in Requests : pc[r] # "idle" ~> pc[r] \in Ended
=============================================================================
