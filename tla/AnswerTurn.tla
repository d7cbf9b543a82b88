----------------------------- MODULE AnswerTurn -----------------------------
(***************************************************************************)
(* The answering phase of one room: handle_attempt_answer,                 *)
(* handle_submit_answer, handle_skip_round, handle_clear_answer_queue,     *)
(* handle_kick_user and the owner's round-state requests, over the room's  *)
(* Redis keys and its database row.                                        *)
(*                                                                         *)
(* The server is one asyncio thread.  A connection runs one handler at a   *)
(* time, and handlers of different connections interleave at every await,  *)
(* so a handler is a pc with local variables and each awaited Redis        *)
(* command, Lua script or database session is one step.                    *)
(***************************************************************************)
EXTENDS Naturals, FiniteSets, RoomRules

CONSTANTS
    Players,        \* user ids of the room, one connection each
    Owner,          \* the player who owns the room
    None,           \* an absent Redis key
    Songs,          \* length of the song queue
    Ranks,          \* sorted-set scores an attempt may get (offset_ts is the client's)
    Requests,       \* the websocket events clients send in this instance
    Polite,         \* do clients submit only after a YOUR_TURN that names them?
    AnswerCap,      \* answers of one player for one round are counted up to this bound
    Inflight        \* bound: handlers running at the same time

AllRequests ==
    {"ATTEMPT_ANSWER", "SUBMIT_ANSWER", "SKIP_ROUND", "CLEAR_ANSWER_QUEUE",
     "KICK_USER", "JUDGING", "ROUND_END", "PLAY", "PAUSE"}

ASSUME TurnAssumption ==
    /\ Players \subseteq Nat /\ Ranks \subseteq Nat
    /\ Owner \in Players
    /\ None \notin Players
    /\ Songs \in Nat \ {0}
    /\ AnswerCap \in Nat \ {0} /\ Inflight \in Nat
    /\ Requests \subseteq AllRequests
    /\ Polite \in BOOLEAN

VARIABLES
    \* database
    roundState,     \* rooms.round_state, committed
    songIndex,      \* rooms.current_song_index, committed
    answers,        \* rows of player_answers per player and round_index
    kicked,         \* users whose row was deleted
    \* Redis
    queue,          \* sorted set answer_queue
    index,          \* hash answer_queue:player_index
    tail,           \* answer_queue:tail_player
    answerer,       \* answer_queue:answerer
    deadline,       \* answer:deadline
    playback,       \* playback hash
    \* what the clients were last told
    turnShown,      \* user of the last YOUR_TURN
    roundShown,     \* round_index of the last ROUND_START
    \* handlers: program counter and local variables
    pc, target, view, heard, late, goal

db == <<roundState, songIndex, answers, kicked>>
keys == <<queue, index, tail, answerer, deadline, playback>>
shown == <<turnShown, roundShown>>
locals == <<target, view, heard, late, goal>>
vars == <<db, keys, shown, pc, locals>>

Rounds == 0 .. Songs - 1

(* A member of the sorted set: the serialised AnswerQueueItem and its score. *)
Entry == [player: Players, rank: Ranks, answering: BOOLEAN]

(* The playback hash; "none" when there is none and none can be restored, as the    *)
(* room is not committed as RUNNING yet.  Its fields then have their defaults.      *)
Playback == [state: {"playing", "paused", "none"}, song: Rounds]

Deadlines == {"none", "running", "expired"}

Labels ==
    {"idle",
     \* the end of handle_game_start
     "startPlayback",
     \* handle_attempt_answer
     "reserve", "enqueue", "readPlayback", "readQueue", "readTail", "elect", "pause",
     \* sync_answer_queue_is_answering and announcing the turn
     "sync", "syncItem", "syncAdd", "syncIndex", "setDeadline", "yourTurn",
     \* handle_submit_answer
     "checkTurn", "checkDeadline", "save", "pickNext", "pass", "dropDeadline",
     "release", "setTail", "resume", "play",
     \* handle_round_state_transition
     "moveRound", "commitRound",
     \* handle_skip_round
     "skipQueue", "skipAnswerer", "skipDeadline", "skipDeadlineAgain",
     "skipPlayback", "roundStart", "skipCommit",
     \* handle_kick_user, PLAY and PAUSE
     "kickFind", "kickRemove", "kickIndex", "kickTail", "kickDelete", "setPlayback"}

Quiet0 == [state |-> "paused", song |-> 0]

-----------------------------------------------------------------------------
(* Order of the sorted set: by score, then by the bytes of the member, whose *)
(* first field is the player id and whose last is is_answering.              *)
Before(e, f) ==
    \/ e.rank < f.rank
    \/ e.rank = f.rank /\ e.player < f.player
    \/ e.rank = f.rank /\ e.player = f.player /\ ~e.answering /\ f.answering

First(S) == {e \in S : \A f \in S \ {e} : Before(e, f)}

PlaceOf(S, p) == First({e \in S : e.player = p})

(* The player of the member that follows p's first member: {} when p has no *)
(* member or its member is the last.                                        *)
Successor(S, p) ==
    {e.player : e \in First({f \in S : \E e \in PlaceOf(S, p) : Before(e, f)})}

(* Whom handle_attempt_answer tries to seat, from the queue and the tail it read. *)
NextAnswerer(S, t, p) ==
    IF t # None /\ PlaceOf(S, t) = {} THEN {p}
    ELSE IF t # None /\ Successor(S, t) # {} THEN Successor(S, t)
    ELSE {e.player : e \in First(S)}

(* Where handle_round_state_transition returns to. *)
AfterMove(g) ==
    CASE g = "ANSWERING" -> "sync"
      [] g = "PLAYING_AUDIO" -> "roundStart"
      [] OTHER -> "idle"

(* Where the synchronisation of the flags returns to: a seated player is given a *)
(* deadline, an ended answering phase records the boundary.                      *)
AfterSync(t) == IF t = None THEN "setTail" ELSE "setDeadline"

-----------------------------------------------------------------------------
(* GAME_START has committed PLAYING_AUDIO, and the owner's handler has yet to write *)
(* the playback: there is none, or the one that a test audio left.                  *)
Init ==
    /\ roundState = "PLAYING_AUDIO" /\ songIndex = 0
    /\ answers = [p \in Players |-> [r \in Rounds |-> 0]]
    /\ kicked = {}
    /\ queue = {} /\ index = [p \in Players |-> None] /\ tail = None
    /\ answerer = None /\ deadline = "none"
    /\ playback \in [state: {"playing", "paused", "none"}, song: {0}]
    /\ turnShown = None /\ roundShown = 0
    /\ pc = [p \in Players |-> IF p = Owner THEN "startPlayback" ELSE "idle"]
    /\ target = [p \in Players |-> None]
    /\ view = [p \in Players |-> {}]
    /\ heard = [p \in Players |-> Quiet0]
    /\ late = {}
    /\ goal = [p \in Players |-> "PENDING"]

(* A request is read from p's socket only when the previous handler returned. *)
Receive(p, event) ==
    /\ event \in Requests
    /\ p \notin kicked
    /\ pc[p] = "idle"
    /\ Cardinality({q \in Players : pc[q] # "idle"}) < Inflight

Goto(p, l) == pc' = [pc EXCEPT ![p] = l]

Step(p, from, to) == pc[p] = from /\ Goto(p, to)

(* The handler returns; its local variables are gone. *)
Return(p) ==
    /\ Goto(p, "idle")
    /\ target' = [target EXCEPT ![p] = None]
    /\ view' = [view EXCEPT ![p] = {}]
    /\ heard' = [heard EXCEPT ![p] = Quiet0]
    /\ late' = late \ {p}
    /\ goal' = [goal EXCEPT ![p] = "PENDING"]

(* The last step of GAME_START: the playback is set to the first song. *)
StartPlayback ==
    /\ pc[Owner] = "startPlayback"
    /\ playback' = [state |-> "playing", song |-> 0]
    /\ Return(Owner)
    /\ UNCHANGED <<db, queue, index, tail, answerer, deadline, shown>>

-----------------------------------------------------------------------------
(* ATTEMPT_ANSWER.  The round state is read in a session of its own; a refusal *)
(* only answers the client.                                                    *)
Attempt(p) ==
    /\ Receive(p, "ATTEMPT_ANSWER")
    /\ roundState \in OpenStates
    /\ Goto(p, "reserve")
    /\ UNCHANGED <<db, keys, shown, locals>>

(* HSETNX on the player index: the reservation refuses a second attempt. *)
Reserve(p) ==
    /\ pc[p] = "reserve"
    /\ \/ /\ index[p] = None
          /\ \E r \in Ranks :
                LET e == [player |-> p, rank |-> r, answering |-> FALSE] IN
                /\ index' = [index EXCEPT ![p] = e]
                /\ view' = [view EXCEPT ![p] = {e}]
          /\ Goto(p, "enqueue")
          /\ UNCHANGED <<target, heard, late, goal>>
       \/ index[p] # None /\ Return(p) /\ UNCHANGED index
    /\ UNCHANGED <<db, queue, tail, answerer, deadline, playback, shown>>

(* ZADD of the member built from the request. *)
Enqueue(p) ==
    /\ Step(p, "enqueue", "readPlayback")
    /\ queue' = queue \cup view[p]
    /\ view' = [view EXCEPT ![p] = {}]
    /\ UNCHANGED <<db, index, tail, answerer, deadline, playback, shown,
                   target, heard, late, goal>>

(* The playback state from which the paused one is later built.  Without one the  *)
(* client is told that it failed to join, and the handler returns: the place that *)
(* was reserved and taken is kept.                                                *)
ReadPlayback(p) ==
    /\ pc[p] = "readPlayback"
    /\ \/ /\ playback.state # "none" /\ Goto(p, "readQueue")
          /\ heard' = [heard EXCEPT ![p] = playback]
          /\ UNCHANGED <<target, view, late, goal>>
       \/ playback.state = "none" /\ Return(p)
    /\ UNCHANGED <<db, keys, shown>>

ReadQueue(p) ==
    /\ pc[p] = "readQueue"
    /\ \/ /\ queue # {} /\ Goto(p, "readTail")
          /\ view' = [view EXCEPT ![p] = queue]
          /\ UNCHANGED <<target, heard, late, goal>>
       \/ queue = {} /\ Return(p)
    /\ UNCHANGED <<db, keys, shown>>

ReadTail(p) ==
    /\ Step(p, "readTail", "elect")
    /\ \E n \in NextAnswerer(view[p], tail, p) : target' = [target EXCEPT ![p] = n]
    /\ view' = [view EXCEPT ![p] = {}]
    /\ UNCHANGED <<db, keys, shown, heard, late, goal>>

(* Fault: the answerer is set without asking whether there is one. *)
ElectUnchecked(p) ==
    /\ Step(p, "elect", IF heard[p].state = "playing" THEN "pause" ELSE "sync")
    /\ answerer' = target[p]
    /\ UNCHANGED <<db, queue, index, tail, deadline, playback, shown, locals>>

(* Fault: only an attempt that found the music playing seats someone. *)
ElectWhilePlaying(p) ==
    /\ pc[p] = "elect"
    /\ \/ /\ answerer = None /\ heard[p].state = "playing"
          /\ answerer' = target[p]
          /\ Goto(p, "pause")
          /\ UNCHANGED locals
       \/ (answerer # None \/ heard[p].state # "playing") /\ Return(p) /\ UNCHANGED answerer
    /\ UNCHANGED <<db, queue, index, tail, deadline, playback, shown>>

(* try_set_first_answerer: succeeds only on an empty answerer key. *)
Elect(p) ==
    /\ pc[p] = "elect"
    /\ \/ /\ answerer = None
          /\ answerer' = target[p]
          /\ Goto(p, IF heard[p].state = "playing" THEN "pause" ELSE "sync")
          /\ UNCHANGED locals
       \/ answerer # None /\ Return(p) /\ UNCHANGED answerer
    /\ UNCHANGED <<db, queue, index, tail, deadline, playback, shown>>

(* The stored playback becomes the one read before, paused. *)
Pause(p) ==
    /\ Step(p, "pause", "moveRound")
    /\ playback' = [heard[p] EXCEPT !.state = "paused"]
    /\ heard' = [heard EXCEPT ![p] = Quiet0]
    /\ goal' = [goal EXCEPT ![p] = "ANSWERING"]
    /\ UNCHANGED <<db, queue, index, tail, answerer, deadline, shown, target, view, late>>

-----------------------------------------------------------------------------
(* handle_round_state_transition, in a session of its own: the rules are applied *)
(* to the state read; the write follows at the commit, after the broadcast.      *)
MoveRound(p) ==
    /\ pc[p] = "moveRound"
    /\ \/ /\ RoundAllows(roundState, goal[p])
          /\ Goto(p, "commitRound") /\ UNCHANGED locals
       \/ /\ ~RoundAllows(roundState, goal[p])
          /\ \/ AfterMove(goal[p]) = "idle" /\ Return(p)
             \/ AfterMove(goal[p]) # "idle" /\ Goto(p, AfterMove(goal[p])) /\ UNCHANGED locals
    /\ UNCHANGED <<db, keys, shown>>

CommitRound(p) ==
    /\ pc[p] = "commitRound"
    /\ roundState' = goal[p]
    /\ \/ AfterMove(goal[p]) = "idle" /\ Return(p)
       \/ AfterMove(goal[p]) # "idle" /\ Goto(p, AfterMove(goal[p])) /\ UNCHANGED locals
    /\ UNCHANGED <<songIndex, answers, kicked, keys, shown>>

-----------------------------------------------------------------------------
(* sync_answer_queue_is_answering: over the members of one ZRANGE, each member *)
(* whose flag is wrong is removed, added again and indexed, in three commands; *)
(* a member whose flag is right is indexed.                                    *)
SyncRead(p) ==
    /\ Step(p, "sync", IF queue = {} THEN AfterSync(target[p]) ELSE "syncItem")
    /\ view' = [view EXCEPT ![p] = queue]
    /\ UNCHANGED <<db, keys, shown, target, heard, late, goal>>

Flip(e) == [e EXCEPT !.answering = ~e.answering]

NextItem(p, e) ==
    /\ view' = [view EXCEPT ![p] = view[p] \ {e}]
    /\ Goto(p, IF view[p] = {e} THEN AfterSync(target[p]) ELSE "syncItem")

SyncItem(p) ==
    /\ pc[p] = "syncItem"
    /\ \E e \in First(view[p]) :
          \/ /\ e.answering = (e.player = target[p])
             /\ index' = [index EXCEPT ![e.player] = e]
             /\ NextItem(p, e)
             /\ UNCHANGED queue
          \/ /\ e.answering # (e.player = target[p])
             /\ queue' = queue \ {e}
             /\ Goto(p, "syncAdd")
             /\ UNCHANGED <<index, view>>
    /\ UNCHANGED <<db, tail, answerer, deadline, playback, shown, target, heard, late, goal>>

(* Fault: the member is added only if the index still holds what was removed. *)
SyncAddIfIndexed(p) ==
    /\ Step(p, "syncAdd", "syncIndex")
    /\ \E e \in First(view[p]) :
          queue' = IF index[e.player] = e THEN queue \cup {Flip(e)} ELSE queue
    /\ UNCHANGED <<db, index, tail, answerer, deadline, playback, shown, locals>>

SyncAdd(p) ==
    /\ Step(p, "syncAdd", "syncIndex")
    /\ \E e \in First(view[p]) : queue' = queue \cup {Flip(e)}
    /\ UNCHANGED <<db, index, tail, answerer, deadline, playback, shown, locals>>

SyncIndex(p) ==
    /\ pc[p] = "syncIndex"
    /\ \E e \in First(view[p]) :
          /\ index' = [index EXCEPT ![e.player] = Flip(e)]
          /\ NextItem(p, e)
    /\ UNCHANGED <<db, queue, tail, answerer, deadline, playback, shown,
                   target, heard, late, goal>>

SetDeadline(p) ==
    /\ Step(p, "setDeadline", "yourTurn")
    /\ deadline' = "running"
    /\ UNCHANGED <<db, queue, index, tail, answerer, playback, shown, locals>>

YourTurn(p) ==
    /\ pc[p] = "yourTurn"
    /\ turnShown' = target[p]
    /\ Return(p)
    /\ UNCHANGED <<db, keys, roundShown>>

(* Wall-clock time goes past the stored deadline.  No server task watches it. *)
DeadlinePasses ==
    /\ deadline = "running"
    /\ deadline' = "expired"
    /\ UNCHANGED <<db, queue, index, tail, answerer, playback, shown, pc, locals>>

-----------------------------------------------------------------------------
(* SUBMIT_ANSWER: the round state, then the answerer, then the deadline are read. *)
Submit(p) ==
    /\ Receive(p, "SUBMIT_ANSWER")
    /\ Polite => turnShown = p
    /\ roundState \in OpenStates
    /\ Goto(p, "checkTurn")
    /\ UNCHANGED <<db, keys, shown, locals>>

CheckTurn(p) ==
    /\ Step(p, "checkTurn", IF answerer = p THEN "checkDeadline" ELSE "idle")
    /\ UNCHANGED <<db, keys, shown, locals>>

CheckDeadline(p) ==
    /\ pc[p] = "checkDeadline"
    /\ \/ deadline # "expired" /\ Goto(p, "save") /\ UNCHANGED late
       \/ deadline = "expired" /\ Goto(p, "pickNext") /\ late' = late \cup {p}
    /\ UNCHANGED <<db, keys, shown, target, view, heard, goal>>

(* The answer is stored under the committed song index.  The row of a deleted *)
(* user cannot be inserted: the handler reports the failure and returns.      *)
Save(p) ==
    /\ pc[p] = "save"
    /\ \/ /\ p \notin kicked
          /\ answers' = [answers EXCEPT ![p][songIndex] = IF @ < AnswerCap THEN @ + 1 ELSE @]
          /\ Goto(p, "pickNext") /\ UNCHANGED locals
       \/ p \in kicked /\ Return(p) /\ UNCHANGED answers
    /\ UNCHANGED <<roundState, songIndex, kicked, keys, shown>>

(* The queue is read once more: a follower is seated, the last player ends the *)
(* phase; an empty queue ends it without touching the answerer, or, for a late *)
(* submission, ends the handler.                                               *)
PickNext(p) ==
    /\ pc[p] = "pickNext"
    /\ \/ /\ \E n \in Successor(queue, p) : target' = [target EXCEPT ![p] = n]
          /\ Goto(p, "pass") /\ UNCHANGED <<view, heard, late, goal>>
       \/ /\ queue # {} /\ Successor(queue, p) = {}
          /\ Goto(p, "dropDeadline") /\ UNCHANGED locals
       \/ queue = {} /\ p \notin late /\ Goto(p, "resume") /\ UNCHANGED locals
       \/ queue = {} /\ p \in late /\ Return(p)
    /\ UNCHANGED <<db, keys, shown>>

(* Fault: the answerer is set without comparing. *)
PassUnchecked(p) ==
    /\ Step(p, "pass", "sync")
    /\ answerer' = target[p]
    /\ UNCHANGED <<db, queue, index, tail, deadline, playback, shown, locals>>

(* transition_room_current_answerer(p, next): compare-and-set by a Lua script. *)
Pass(p) ==
    /\ pc[p] = "pass"
    /\ \/ answerer = p /\ answerer' = target[p] /\ Goto(p, "sync") /\ UNCHANGED locals
       \/ answerer # p /\ Return(p) /\ UNCHANGED answerer
    /\ UNCHANGED <<db, queue, index, tail, deadline, playback, shown>>

(* The deadline is dropped before the turn is given up. *)
DropDeadline(p) ==
    /\ Step(p, "dropDeadline", "release")
    /\ deadline' = "none"
    /\ UNCHANGED <<db, queue, index, tail, answerer, playback, shown, locals>>

(* transition_room_current_answerer(p, None).  The late branch ignores the result. *)
Release(p) ==
    /\ pc[p] = "release"
    /\ answerer' = IF answerer = p THEN None ELSE answerer
    /\ \/ (answerer = p \/ p \in late) /\ Goto(p, "sync") /\ UNCHANGED locals
       \/ answerer # p /\ p \notin late /\ Return(p)
    /\ UNCHANGED <<db, queue, index, tail, deadline, playback, shown>>

(* Fault: the deadline is dropped after the turn was given up. *)
SetTailDropsDeadline(p) ==
    /\ Step(p, "setTail", "resume")
    /\ tail' = p /\ deadline' = "none"
    /\ UNCHANGED <<db, queue, index, answerer, playback, shown, locals>>

SetTail(p) ==
    /\ Step(p, "setTail", "resume")
    /\ tail' = p
    /\ UNCHANGED <<db, queue, index, answerer, deadline, playback, shown, locals>>

(* A paused playback is read, then written back as playing. *)
Resume(p) ==
    /\ pc[p] = "resume"
    /\ \/ /\ playback.state = "paused" /\ Goto(p, "play")
          /\ heard' = [heard EXCEPT ![p] = playback]
          /\ UNCHANGED <<target, view, late, goal>>
       \/ playback.state # "paused" /\ Return(p)
    /\ UNCHANGED <<db, keys, shown>>

Play(p) ==
    /\ pc[p] = "play"
    /\ playback' = [heard[p] EXCEPT !.state = "playing"]
    /\ Return(p)
    /\ UNCHANGED <<db, queue, index, tail, answerer, deadline, shown>>

-----------------------------------------------------------------------------
(* Fault: the last song can be skipped. *)
SkipPastLast ==
    /\ Receive(Owner, "SKIP_ROUND")
    /\ songIndex < Songs
    /\ Goto(Owner, "skipQueue")
    /\ UNCHANGED <<db, keys, shown, locals>>

(* SKIP_ROUND by the owner.  One session spans the handler; its write of the song *)
(* index is committed when the handler leaves it, after ROUND_START was sent.     *)
Skip ==
    /\ Receive(Owner, "SKIP_ROUND")
    /\ songIndex + 1 < Songs
    /\ Goto(Owner, "skipQueue")
    /\ UNCHANGED <<db, keys, shown, locals>>

(* One DEL of the queue, the index and the boundary. *)
EmptyQueue ==
    queue' = {} /\ index' = [p \in Players |-> None] /\ tail' = None

SkipQueue ==
    /\ Step(Owner, "skipQueue", "skipAnswerer")
    /\ EmptyQueue
    /\ UNCHANGED <<db, answerer, deadline, playback, shown, locals>>

SkipAnswerer ==
    /\ Step(Owner, "skipAnswerer", "skipDeadline")
    /\ answerer' = None
    /\ UNCHANGED <<db, queue, index, tail, deadline, playback, shown, locals>>

(* clear_room_current_answerer deletes the deadline too, and the handler then *)
(* calls clear_answer_deadline.                                               *)
SkipDeadline ==
    /\ \/ Step(Owner, "skipDeadline", "skipDeadlineAgain")
       \/ Step(Owner, "skipDeadlineAgain", "skipPlayback")
    /\ deadline' = "none"
    /\ UNCHANGED <<db, queue, index, tail, answerer, playback, shown, locals>>

SkipPlayback ==
    /\ Step(Owner, "skipPlayback", "moveRound")
    /\ playback' = [state |-> "playing", song |-> songIndex + 1]
    /\ goal' = [goal EXCEPT ![Owner] = "PLAYING_AUDIO"]
    /\ UNCHANGED <<db, queue, index, tail, answerer, deadline, shown,
                   target, view, heard, late>>

(* Fault: the round announced is the one that ends. *)
RoundStartOld ==
    /\ Step(Owner, "roundStart", "skipCommit")
    /\ roundShown' = songIndex
    /\ UNCHANGED <<db, keys, turnShown, locals>>

RoundStart ==
    /\ Step(Owner, "roundStart", "skipCommit")
    /\ roundShown' = songIndex + 1
    /\ UNCHANGED <<db, keys, turnShown, locals>>

SkipCommit ==
    /\ pc[Owner] = "skipCommit"
    /\ songIndex' = songIndex + 1
    /\ Return(Owner)
    /\ UNCHANGED <<roundState, answers, kicked, keys, shown>>

(* CLEAR_ANSWER_QUEUE by the owner: the answerer and the deadline stay. *)
ClearAnswerQueue ==
    /\ Receive(Owner, "CLEAR_ANSWER_QUEUE")
    /\ EmptyQueue
    /\ UNCHANGED <<db, answerer, deadline, playback, shown, pc, locals>>

(* JUDGING, and ROUND_END or a JUDGE_SUBMIT without scoring, ask for a transition. *)
OwnerMove ==
    /\ \/ /\ Receive(Owner, "JUDGING")
          /\ goal' = [goal EXCEPT ![Owner] = "JUDGING"]
       \/ /\ Receive(Owner, "ROUND_END")
          /\ goal' = [goal EXCEPT ![Owner] = "COMPLETED"]
    /\ Goto(Owner, "moveRound")
    /\ UNCHANGED <<db, keys, shown, target, view, heard, late>>

-----------------------------------------------------------------------------
(* KICK_USER: remove_from_answer_queue through the index, then the user's row. *)
Kick(v) ==
    /\ Receive(Owner, "KICK_USER")
    /\ v # Owner /\ v \notin kicked
    /\ target' = [target EXCEPT ![Owner] = v]
    /\ Goto(Owner, "kickFind")
    /\ UNCHANGED <<db, keys, shown, view, heard, late, goal>>

(* Without an index entry the queue is scanned: entries of other players are   *)
(* indexed again and those of the kicked one removed.  The scan is one step.   *)
KickFind ==
    LET v == target[Owner]
        theirs == {e \in queue : e.player = v}
    IN
    /\ pc[Owner] = "kickFind"
    /\ \/ /\ index[v] # None
          /\ view' = [view EXCEPT ![Owner] = {index[v]}]
          /\ Goto(Owner, "kickRemove")
          /\ UNCHANGED <<queue, index, tail>>
       \/ /\ index[v] = None
          /\ queue' = queue \ theirs
          /\ index' = [q \in Players |->
                IF q = v \/ index[q] # None \/ PlaceOf(queue, q) = {} THEN index[q]
                ELSE CHOOSE e \in PlaceOf(queue, q) : TRUE]
          /\ tail' = IF theirs # {} /\ tail = v THEN None ELSE tail
          /\ Goto(Owner, "kickDelete")
          /\ UNCHANGED view
    /\ UNCHANGED <<db, answerer, deadline, playback, shown, target, heard, late, goal>>

KickRemove ==
    /\ Step(Owner, "kickRemove", "kickIndex")
    /\ queue' = queue \ view[Owner]
    /\ UNCHANGED <<db, index, tail, answerer, deadline, playback, shown, locals>>

KickIndex ==
    /\ Step(Owner, "kickIndex", "kickTail")
    /\ index' = [index EXCEPT ![target[Owner]] = None]
    /\ UNCHANGED <<db, queue, tail, answerer, deadline, playback, shown, locals>>

KickTail ==
    /\ Step(Owner, "kickTail", "kickDelete")
    /\ tail' = IF tail = target[Owner] THEN None ELSE tail
    /\ UNCHANGED <<db, queue, index, answerer, deadline, playback, shown, locals>>

(* The answerer read from Redis is a string and is compared with an integer id: *)
(* never equal, so it is left.  The commit deletes the user and its answers.    *)
KickDelete ==
    /\ pc[Owner] = "kickDelete"
    /\ kicked' = kicked \cup {target[Owner]}
    /\ answers' = [answers EXCEPT ![target[Owner]] = [r \in Rounds |-> 0]]
    /\ Return(Owner)
    /\ UNCHANGED <<roundState, songIndex, keys, shown>>

-----------------------------------------------------------------------------
(* PLAY and PAUSE from any client: the rest of the playback is read, then written. *)
Control(p) ==
    /\ \/ /\ Receive(p, "PLAY")
          /\ heard' = [heard EXCEPT ![p] = [playback EXCEPT !.state = "playing"]]
       \/ /\ Receive(p, "PAUSE")
          /\ heard' = [heard EXCEPT ![p] = [playback EXCEPT !.state = "paused"]]
    /\ Goto(p, "setPlayback")
    /\ UNCHANGED <<db, keys, shown, target, view, late, goal>>

SetPlayback(p) ==
    /\ pc[p] = "setPlayback"
    /\ playback' = heard[p]
    /\ Return(p)
    /\ UNCHANGED <<db, queue, index, tail, answerer, deadline, shown>>

-----------------------------------------------------------------------------
ClientRequest(p) == Attempt(p) \/ Submit(p) \/ Control(p)

OwnerRequest == Skip \/ ClearAnswerQueue \/ OwnerMove \/ \E v \in Players : Kick(v)

AttemptStep(p) ==
    Reserve(p) \/ Enqueue(p) \/ ReadPlayback(p) \/ ReadQueue(p) \/ ReadTail(p)
    \/ Elect(p) \/ Pause(p)

SubmitStep(p) ==
    CheckTurn(p) \/ CheckDeadline(p) \/ Save(p) \/ PickNext(p) \/ Pass(p)
    \/ DropDeadline(p) \/ Release(p) \/ SetTail(p) \/ Resume(p) \/ Play(p)

SharedStep(p) ==
    MoveRound(p) \/ CommitRound(p) \/ SyncRead(p) \/ SyncItem(p) \/ SyncAdd(p)
    \/ SyncIndex(p) \/ SetDeadline(p) \/ YourTurn(p) \/ SetPlayback(p)

OwnerStep ==
    StartPlayback
    \/ SkipQueue \/ SkipAnswerer \/ SkipDeadline \/ SkipPlayback \/ RoundStart \/ SkipCommit
    \/ KickFind \/ KickRemove \/ KickIndex \/ KickTail \/ KickDelete

HandlerStep(p) ==
    AttemptStep(p) \/ SubmitStep(p) \/ SharedStep(p) \/ (p = Owner /\ OwnerStep)

Next ==
    \/ \E p \in Players : ClientRequest(p) \/ HandlerStep(p)
    \/ OwnerRequest
    \/ DeadlinePasses

Spec == Init /\ [][Next]_vars

(* The event loop runs every started handler to its end, and time passes.     *)
(* Nothing obliges a client to send anything.                                 *)
FairSpec ==
    /\ Spec
    /\ \A p \in Players : WF_vars(HandlerStep(p))
    /\ WF_vars(DeadlinePasses)

-----------------------------------------------------------------------------
(* What is stored and shown. *)
SharedType ==
    /\ roundState \in RoundStates /\ songIndex \in Rounds
    /\ answers \in [Players -> [Rounds -> 0 .. AnswerCap]]
    /\ kicked \subseteq Players
    /\ queue \subseteq Entry
    /\ index \in [Players -> Entry \cup {None}]
    /\ tail \in Players \cup {None} /\ answerer \in Players \cup {None}
    /\ deadline \in Deadlines /\ playback \in Playback
    /\ turnShown \in Players \cup {None} /\ roundShown \in Rounds

(* What the handlers hold. *)
LocalType ==
    /\ pc \in [Players -> Labels]
    /\ target \in [Players -> Players \cup {None}]
    /\ view \in [Players -> SUBSET Entry]
    /\ heard \in [Players -> Playback]
    /\ late \subseteq Players
    /\ goal \in [Players -> RoundStates]

TypeOK == SharedType /\ LocalType

(* p's submission was admitted, and its turn not yet passed on, given up or kept. *)
Serving(p) ==
    pc[p] \in {"checkDeadline", "save", "pickNext", "pass", "dropDeadline", "release"}

(* p's handler wrote the answerer key and is on its way to announcing the turn. *)
Seating(p) ==
    \/ pc[p] \in {"pause", "setDeadline"}
    \/ pc[p] \in {"moveRound", "commitRound"} /\ goal[p] = "ANSWERING"
    \/ pc[p] \in {"sync", "syncItem", "syncAdd", "syncIndex"} /\ target[p] # None

(* p's synchronisation removed this member and has yet to add it again. *)
InHand(p) == IF pc[p] = "syncAdd" THEN First(view[p]) ELSE {}

(* handle_submit_answer reads the answerer once and then awaits a database session *)
(* and four Redis commands.  In a room that is not skipped meanwhile, the player   *)
(* whose submission passed that check is the answerer until the compare-and-set,   *)
(* so no two submissions are in process at a time and none loses the turn.         *)
SubmitterHoldsTurn == \A p \in Players : Serving(p) => answerer = p

(* A turn that was set and announced has a deadline, so that it can time out: the *)
(* deadline is dropped before the turn is given up, by a handler that cannot meet *)
(* the handler of the next turn.                                                  *)
TurnHasDeadline ==
    answerer # None =>
        \/ deadline # "none"
        \/ \E p \in Players : Seating(p)
        \/ pc[answerer] = "release"

(* Who reserved a place through HSETNX cannot reserve another one, so the place   *)
(* must not get lost: the member is in the sorted set, or about to be added by    *)
(* the attempt or by the synchronisation that removed it to change its flag,      *)
(* however many synchronisations run at the same time.  SKIP_ROUND,               *)
(* CLEAR_ANSWER_QUEUE and KICK_USER, which take players out, break it.            *)
ReservedIsQueued ==
    \A p \in Players :
        index[p] # None =>
            \/ PlaceOf(queue, p) # {}
            \/ pc[p] = "enqueue"
            \/ \E q \in Players : \E e \in InHand(q) : e.player = p

(* ROUND_START of the next song is sent before its index is committed; answers    *)
(* are stored under the committed index, so an answer never lands in a round that *)
(* has not been announced.                                                        *)
NoAnswerAhead == \A p \in Players : \A r \in Rounds : answers[p][r] > 0 => r <= roundShown

(* The compare-and-set protocol implements the lock: the turn is taken only when *)
(* it is free and leaves its holder only through the holder's own submission, or *)
(* through the owner's SKIP_ROUND, for every interleaving of the handlers.       *)
Lock == INSTANCE AnswerLock WITH
            holder <- answerer,
            busy <- {p \in Players : Serving(p)},
            Resettable <- "SKIP_ROUND" \in Requests

ImplementsLock == Lock!Spec

(* An attempt that was put into the queue while the playback is known is not       *)
(* ignored: afterwards, at some time, somebody is seated or still answering, by     *)
(* this handler's election or by another one that beat it.  (One that comes before  *)
(* GAME_START has written the playback is refused after it was queued.)             *)
AttemptSeatsSomeone ==
    \A p \in Players : pc[p] = "enqueue" /\ playback.state # "none" ~> answerer # None
=============================================================================
