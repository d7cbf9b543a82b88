-------------------------------- MODULE Playback --------------------------------
(***************************************************************************)
(* What a room plays.  The state is a Redis hash with a time to live; every *)
(* write of it is followed by a snapshot in the row of the room, and a read *)
(* that misses the hash fills it from the snapshot or makes a state up from *)
(* the index of the current song.  Round changes write a new state, and     *)
(* PLAY, PAUSE, SEEK, SHOW_SONG, the pause and the resume of an answering   *)
(* turn read the state, change it and write it back.  Nothing orders them.  *)
(*                                                                         *)
(* The url of a song holds a token; Redis maps the token to the song, and   *)
(* room_songs.temp_url keeps the latest.  Of a state only the url is kept:  *)
(* whether the music runs, and when a turn pauses and resumes it, is in     *)
(* AnswerTurn, the life of a game in GameRoom; here both come at any time,  *)
(* and a game does not end, for its end leaves the playback as it is.       *)
(***************************************************************************)
EXTENDS Naturals, Integers, Sequences, FiniteSets

CONSTANTS
    Owner,          \* the socket that starts and skips
    Players,        \* sockets, Owner among them
    Requests,       \* HTTP requests that are open at a time; one that is a socket as
                    \* well is either of them at a time
    Songs,          \* length of the list of songs
    MaxTokens,      \* bound on tokens made
    Faults          \* bound on losses and errors of Redis, those in FailToken apart

ASSUME PlaybackAssumption ==
    /\ Owner \in Players /\ IsFiniteSet(Players) /\ IsFiniteSet(Requests)
    /\ Songs \in Nat \ {0} /\ MaxTokens \in Nat /\ Faults \in Nat

VARIABLES
    \* Redis: the hash, whether it has a time to live, and the tokens it forgot
    hash, ttl, dead,
    \* database: status and index of the room, its snapshot, temp_url of each song
    room, snap, temp,
    made,           \* the song of each token, in the order of their making
    \* a process: label, what it handles, the index a round goes to, the state it read
    \* or writes, and the tokens of its session that are not committed
    pc, kind, goal, got, fresh,
    \* history: who had read before the playback of this round was written, and
    \* whether something other than the round decided what plays
    late, spoiled,
    faults

redis == <<hash, ttl, dead>>
database == <<room, snap, temp>>
process == <<pc, kind, goal, got, fresh>>
history == <<late, spoiled>>
vars == <<redis, database, made, process, history, faults>>

Processes == Players \cup Requests
Tokens == 1 .. Len(made)
NoUrl == 0
Test == MaxTokens + 1           \* /api/songs/file/.. or the default music of the CDN
Urls == 0 .. MaxTokens + 1
Missing == -1
States == Urls \cup {Missing}

Statuses == {"WAITING", "RUNNING", "DISSOLVED"}
Rounds == {"GAME_START", "SKIP_ROUND"}
Kinds == Rounds \cup {"event", "refresh", "test"}
Labels == {"idle", "get", "load", "refill", "refillTtl", "default", "close", "use",
           "token", "next", "hset", "expire", "save", "commit", "wipe"}

Init ==
    /\ hash = Missing /\ ttl = FALSE /\ dead = {}
    /\ room = [status |-> "WAITING", index |-> 0]
    /\ snap = Missing /\ temp = [s \in 1 .. Songs |-> 0] /\ made = <<>>
    /\ pc = [p \in Processes |-> "idle"] /\ kind = [p \in Processes |-> "event"]
    /\ goal = [p \in Processes |-> 0] /\ got = [p \in Processes |-> Missing]
    /\ fresh = [p \in Processes |-> {}]
    /\ late = {} /\ spoiled = FALSE /\ faults = 0

Step(p, from, to) == pc[p] = from /\ pc' = [pc EXCEPT ![p] = to]

(* An event or a request begins: from here the process is at label to. *)
Receive(p, k, a, s, to) ==
    /\ Step(p, "idle", to)
    /\ kind' = [kind EXCEPT ![p] = k]
    /\ goal' = [goal EXCEPT ![p] = a]
    /\ got' = [got EXCEPT ![p] = s]
    /\ UNCHANGED <<redis, database, made, fresh, history, faults>>

(* It ends. *)
End(p, from) ==
    /\ Step(p, from, "idle")
    /\ kind' = [kind EXCEPT ![p] = "event"]
    /\ goal' = [goal EXCEPT ![p] = 0]
    /\ got' = [got EXCEPT ![p] = Missing]
    /\ fresh' = [fresh EXCEPT ![p] = {}]
    /\ late' = late \ {p}

-----------------------------------------------------------------------------
(* Fault: the token must be the one of the row, as validate_audio_token has it. *)
OpensLatest(u) == IF u \in Tokens \ dead /\ temp[made[u]] = u THEN made[u] ELSE 0

(* The song that GET /api/songs/stream/{token} streams, or 0. *)
Opens(u) == IF u \in Tokens \ dead THEN made[u] ELSE 0

(* What an hset leaves: fields that are None are not in the mapping and stay. *)
Merged(old, new) ==
    IF new = NoUrl /\ old # Missing THEN old ELSE new

Exists == room.status # "DISSOLVED"
SongOf(u) == IF u \in Tokens THEN made[u] ELSE 0

(* A write by p takes the place of the round. *)
Spoils(p) == p \in late \/ kind[p] = "test"

(* get_or_create_audio_token: the token of the row if Redis still knows it, or a *)
(* new one.  The row is written when the session of p ends.                      *)
Minted(p, s, t) ==
    \/ /\ t = temp[s] /\ t # 0 /\ Opens(t) = s
       /\ UNCHANGED <<made, fresh>>
    \/ /\ temp[s] = 0 \/ Opens(temp[s]) # s
       /\ Len(made) < MaxTokens /\ t = Len(made) + 1
       /\ made' = Append(made, s)
       /\ fresh' = [fresh EXCEPT ![p] = @ \cup {t}]

(* temp_url after the session of p. *)
TempAfter(p) ==
    [s \in 1 .. Songs |->
        IF \E t \in fresh[p] : made[t] = s
        THEN CHOOSE t \in fresh[p] : made[t] = s ELSE temp[s]]

-----------------------------------------------------------------------------
(* PLAY, PAUSE, SEEK, ATTEMPT_ANSWER, SUBMIT_ANSWER, SHOW_SONG and a new connection *)
(* begin with a read of the playback.                                               *)
Event(p) == Receive(p, "event", 0, Missing, "get")

(* get_room_playback_state. *)
Get(p) ==
    /\ Step(p, "get", IF hash = Missing THEN "load" ELSE "use")
    /\ got' = [got EXCEPT ![p] = hash]
    /\ UNCHANGED <<redis, database, made, kind, goal, fresh, history, faults>>

Load(p) ==
    /\ Step(p, "load", IF snap = Missing THEN "default" ELSE "refill")
    /\ got' = [got EXCEPT ![p] = snap]
    /\ UNCHANGED <<redis, database, made, kind, goal, fresh, history, faults>>

Refill(p) ==
    /\ Step(p, "refill", "refillTtl")
    /\ hash' = Merged(hash, got[p]) /\ ttl' = (hash # Missing /\ ttl)
    /\ spoiled' = (spoiled \/ p \in late)
    /\ UNCHANGED <<dead, database, made, kind, goal, got, fresh, late, faults>>

RefillTtl(p) ==
    /\ Step(p, "refillTtl", "use")
    /\ ttl' = (hash # Missing)
    /\ UNCHANGED <<hash, dead, database, made, kind, goal, got, fresh, history, faults>>

(* _generate_default_playback_state: only while a game runs, and only for the caller. *)
Default(p) ==
    /\ pc[p] = "default"
    /\ \/ /\ room.status # "RUNNING"
          /\ pc' = [pc EXCEPT ![p] = "use"]
          /\ UNCHANGED <<made, fresh, got>>
       \/ /\ room.status = "RUNNING"
          /\ pc' = [pc EXCEPT ![p] = "close"]
          /\ \E t \in 1 .. MaxTokens :
                /\ Minted(p, room.index + 1, t)
                /\ got' = [got EXCEPT ![p] = t]
    /\ UNCHANGED <<redis, database, kind, goal, history, faults>>

Close(p) ==
    /\ Step(p, "close", "use")
    /\ temp' = IF Exists THEN TempAfter(p) ELSE temp
    /\ fresh' = [fresh EXCEPT ![p] = {}]
    /\ UNCHANGED <<redis, room, snap, made, kind, goal, got, history, faults>>

(* Fault: a message that names no url is written without one. *)
ControlledBare(s, u) == u

(* _build_playback_state_from_control and handle_seek: a url that is not named is *)
(* the cached one.                                                                *)
Controlled(s, u) == IF u # NoUrl \/ s = Missing THEN u ELSE s

(* The urls a message may name: those the player was told in this game. *)
Named == {NoUrl} \cup {t \in Tokens : made[t] <= room.index + 1}

(* PLAY, PAUSE and SEEK write the state back, with the url the message names. *)
Control(p) ==
    /\ kind[p] = "event" /\ Step(p, "use", "hset")
    /\ \E u \in Named :
          /\ got' = [got EXCEPT ![p] = Controlled(@, u)]
          /\ spoiled' = (spoiled \/ (u # NoUrl /\ SongOf(u) # SongOf(hash)))
    /\ UNCHANGED <<redis, database, made, kind, goal, fresh, late, faults>>

(* An attempt that pauses the music, a submission that resumes it, and SHOW_SONG *)
(* write the state back if there is one.                                         *)
WriteBack(p) ==
    /\ kind[p] = "event" /\ got[p] # Missing /\ Step(p, "use", "hset")
    /\ UNCHANGED <<redis, database, made, kind, goal, got, fresh, history, faults>>

(* Nothing to write: an attempt that is not the first, a submission after which *)
(* others answer, an answer that is shown already, a new connection.            *)
Leave(p) ==
    /\ End(p, "use")
    /\ UNCHANGED <<redis, database, made, spoiled, faults>>

-----------------------------------------------------------------------------
(* GAME_START and SKIP_ROUND: the index the room goes to is read with the row. *)
Start(p) == room.status = "WAITING" /\ Receive(p, "GAME_START", 0, Missing, "token")

(* Fault: off by one at the end of the list. *)
SkipPastLast(p) ==
    /\ Exists /\ room.index + 1 <= Songs
    /\ Receive(p, "SKIP_ROUND", room.index + 1, Missing, "token")

Skip(p) ==
    /\ Exists /\ room.index + 1 < Songs
    /\ Receive(p, "SKIP_ROUND", room.index + 1, Missing, "token")

(* _refresh_default_playback_initial_song, after an edit of the list was saved. *)
Refresh(p) == room.status = "WAITING" /\ Receive(p, "refresh", 0, Missing, "token")

(* The url of the song at the new index, in a state made afresh. *)
Token(p) ==
    /\ Step(p, "token", IF kind[p] \in Rounds THEN "next" ELSE "hset")
    /\ \E t \in 1 .. MaxTokens :
          /\ Minted(p, goal[p] + 1, t)
          /\ got' = [got EXCEPT ![p] = t]
    /\ UNCHANGED <<redis, database, kind, goal, history, faults>>

(* prepare_and_broadcast_next_audio: a token for the song after it. *)
NextAudio(p) ==
    /\ Step(p, "next", "hset")
    /\ \/ goal[p] + 2 <= Songs /\ \E t \in 1 .. MaxTokens : Minted(p, goal[p] + 2, t)
       \/ goal[p] + 2 > Songs /\ UNCHANGED <<made, fresh>>
    /\ UNCHANGED <<redis, database, kind, goal, got, history, faults>>

(* set_test_audio checks the status when the request begins; auto_setup_test_audio *)
(* does not check it.                                                              *)
SetTest(p) ==
    /\ room.status = "WAITING"
    /\ Receive(p, "test", 0, Test, "hset")

AutoSetup(p) == Exists /\ Receive(p, "test", 0, Test, "hset")

-----------------------------------------------------------------------------
(* set_room_playback_state: the hash, its time to live, the snapshot. *)
Hset(p) ==
    /\ Step(p, "hset", "expire")
    /\ hash' = Merged(hash, got[p]) /\ ttl' = (hash # Missing /\ ttl)
    /\ IF kind[p] \in Rounds
       THEN /\ late' = {q \in Processes \ {p} : pc[q] \notin {"idle", "get"}}
            /\ spoiled' = FALSE
       ELSE /\ spoiled' = (spoiled \/ Spoils(p))
            /\ UNCHANGED late
    /\ UNCHANGED <<dead, database, made, kind, goal, got, fresh, faults>>

(* Fault: the time to live is left to the writes that make a state afresh. *)
ExpireAfresh(p) ==
    /\ Step(p, "expire", "save")
    /\ ttl' = (hash # Missing /\ (ttl \/ kind[p] # "event"))
    /\ UNCHANGED <<hash, dead, database, made, kind, goal, got, fresh, history, faults>>

Expire(p) ==
    /\ Step(p, "expire", "save")
    /\ ttl' = (hash # Missing)
    /\ UNCHANGED <<hash, dead, database, made, kind, goal, got, fresh, history, faults>>

Snapshot(p) == IF Exists THEN got[p] ELSE Missing

Save(p) ==
    /\ snap' = Snapshot(p)
    /\ \/ /\ kind[p] \in Rounds \cup {"refresh"}
          /\ Step(p, "save", "commit")
          /\ UNCHANGED <<kind, goal, got, fresh, late>>
       \/ /\ kind[p] \notin Rounds \cup {"refresh"}
          /\ End(p, "save")
    /\ spoiled' = (spoiled \/ p \in late)
    /\ UNCHANGED <<redis, room, temp, made, faults>>

(* The session of a round, or of an edit of the list, ends; the row of a dissolved *)
(* room is no longer there to be written.                                          *)
Commit(p) ==
    /\ End(p, "commit")
    /\ IF Exists
       THEN /\ room' = [room EXCEPT !.index = goal[p],
                          !.status = IF kind[p] = "GAME_START" THEN "RUNNING" ELSE @]
            /\ temp' = TempAfter(p)
       ELSE UNCHANGED <<room, temp>>
    /\ spoiled' = (spoiled \/ p \in late)
    /\ UNCHANGED <<redis, snap, made, faults>>

-----------------------------------------------------------------------------
(* dissolve_room: the row, and with it the snapshot and the list, then the hash.  *)
Dissolve(p) ==
    /\ Exists
    /\ Step(p, "idle", "wipe")
    /\ room' = [status |-> "DISSOLVED", index |-> 0]
    /\ snap' = Missing /\ temp' = [s \in 1 .. Songs |-> 0]
    /\ UNCHANGED <<redis, made, kind, goal, got, fresh, history, faults>>

Wipe(p) ==
    /\ End(p, "wipe")
    /\ hash' = Missing /\ ttl' = FALSE
    /\ UNCHANGED <<dead, database, made, spoiled, faults>>

(* Redis drops the hash, by eviction or when its time to live has passed. *)
LoseHash ==
    /\ faults < Faults /\ hash # Missing
    /\ hash' = Missing /\ ttl' = FALSE /\ faults' = faults + 1
    /\ spoiled' = (spoiled \/ \E p \in Processes : kind[p] \in Rounds /\ pc[p] \in {"expire", "save"})
    /\ UNCHANGED <<dead, database, made, process, late>>

LoseToken(t) ==
    /\ faults < Faults /\ t \in Tokens \ dead
    /\ dead' = dead \cup {t} /\ faults' = faults + 1
    /\ UNCHANGED <<hash, ttl, database, made, process, history>>

(* handle_redis_operation: an error of Redis ends the operation with its default. *)
FailRead(p) ==
    /\ faults < Faults /\ faults' = faults + 1
    /\ \E l \in {"get", "refill", "refillTtl"} : Step(p, l, "use")
    /\ got' = [got EXCEPT ![p] = Missing]
    /\ spoiled' = TRUE
    /\ UNCHANGED <<redis, database, made, kind, goal, fresh, late>>

(* The token functions have no such wrapper: the error ends a round or a refresh,  *)
(* whose session is rolled back, and leaves a read without a default.              *)
FailToken(p) ==
    /\ \/ /\ pc[p] \in {"token", "next"} /\ End(p, pc[p])
          /\ UNCHANGED spoiled
       \/ /\ Step(p, "default", "use")
          /\ spoiled' = TRUE
          /\ UNCHANGED <<kind, goal, got, fresh, late>>
    /\ UNCHANGED <<redis, database, made, faults>>

FailWrite(p) ==
    /\ faults < Faults /\ faults' = faults + 1
    /\ \E l \in {"hset", "expire"} :
          IF kind[p] \in Rounds \cup {"refresh"}
          THEN Step(p, l, "commit") /\ UNCHANGED <<kind, goal, got, fresh, late>>
          ELSE End(p, l)
    /\ spoiled' = TRUE
    /\ UNCHANGED <<redis, database, made>>

-----------------------------------------------------------------------------
RoundEvent(p) == Start(p) \/ Skip(p)
Request(p) == Refresh(p) \/ SetTest(p) \/ AutoSetup(p) \/ Dissolve(p)

Work(p) ==
    \/ Get(p) \/ Load(p) \/ Refill(p) \/ RefillTtl(p) \/ Default(p) \/ Close(p)
    \/ Control(p) \/ WriteBack(p) \/ Leave(p) \/ Token(p) \/ NextAudio(p)
    \/ Hset(p) \/ Expire(p) \/ Save(p) \/ Commit(p) \/ Wipe(p)

Fault ==
    \/ LoseHash
    \/ \E t \in Tokens : LoseToken(t)
    \/ \E p \in Processes : FailRead(p) \/ FailToken(p) \/ FailWrite(p)

Next ==
    \/ \E p \in Players : Event(p)
    \/ RoundEvent(Owner)
    \/ \E p \in Requests : Request(p)
    \/ \E p \in Processes : Work(p)
    \/ Fault

Spec == Init /\ [][Next]_vars

-----------------------------------------------------------------------------
(* The values of the hash, the row, the processes and the history. *)
TypeOK ==
    /\ hash \in States /\ ttl \in BOOLEAN /\ dead \subseteq Tokens
    /\ room \in [status: Statuses, index: 0 .. Songs - 1]
    /\ snap \in States
    /\ made \in Seq(1 .. Songs) /\ Len(made) <= MaxTokens
    /\ temp \in [1 .. Songs -> 0 .. Len(made)]
    /\ pc \in [Processes -> Labels] /\ kind \in [Processes -> Kinds]
    /\ goal \in [Processes -> 0 .. Songs - 1]
    /\ got \in [Processes -> States]
    /\ fresh \in [Processes -> SUBSET Tokens]
    /\ late \subseteq Processes /\ spoiled \in BOOLEAN /\ faults \in 0 .. Faults

(* A round is on: its playback and its index are stored. *)
RoundOn == room.status = "RUNNING" /\ kind[Owner] \notin Rounds

(* While a round is on, what Redis plays is the song of the index, through a token *)
(* that still opens unless Redis forgot it: whatever controls, turns and reads     *)
(* interleave, only a handler that had read before the round was written, a url a  *)
(* player named, a test audio or an error of Redis can bring another song.         *)
PlaysIndexed ==
    RoundOn /\ ~spoiled =>
        \/ hash = Missing
        \/ hash \in dead
        \/ Opens(hash) = room.index + 1

(* In the same rounds the snapshot is there and names that song, so that a hash    *)
(* that is lost comes back with it.                                                *)
RecoversIndexed ==
    RoundOn /\ ~spoiled =>
        /\ snap # Missing
        /\ SongOf(snap) = room.index + 1

(* No playback stays in Redis for ever, not even that of a dissolved room which a  *)
(* late handler wrote again: a hash without a time to live is about to get one,    *)
(* unless Redis failed.                                                            *)
HashExpires ==
    hash # Missing /\ ~ttl /\ faults = 0 =>
        \E p \in Processes : pc[p] \in {"expire", "refillTtl"}
=============================================================================
