# CCG backend: TLA+ models, model checking and proofs

CCG (猜猜歌) is the backend of a multiplayer song-guessing game: FastAPI with
websockets, an SQL database through async SQLAlchemy, Redis for the fast state
of a room, and Huey workers that download songs. All paths below are relative
to the repository (`src/` in `PROJECT.json`).

The server is one asyncio thread. `main.py` serves one websocket per player and
runs one handler at a time for each; the handlers of *different* players
interleave at every `await`: each Redis command, each database session, each
broadcast. A room's state lies in two stores with no common transaction, its
database row and a dozen Redis keys, so almost every handler reads something,
awaits, and acts on what it read. That is where this code is hard to test, and
what the models are about.

## Inventory

| Component | State | Operations | Talks to |
|---|---|---|---|
| **State machines** `room_state/state_machine.py`, `utils/enumerations.py` | columns `rooms.status`, `rooms.round_state` | validated `transition` | called inside the sessions of the handlers |
| **Answering phase** `handlers/round_events_3x.py`, `handlers/round_state_events.py`, `cache/room_cache.py` | Redis: sorted set `answer_queue`, hash of members per player, `answerer`, `tail_player`, `answer:deadline`; rows `player_answers` | ATTEMPT_ANSWER, SUBMIT_ANSWER, flag synchronisation, election, compare-and-set hand-over | state machines, playback, database |
| **Game lifecycle and judging** `handlers/round_events_3x.py`, `judge_events_4x.py`, `cache/room_state_manager.py`, `db/crud/judge_related.py`, `utils/calculate.py` | columns `status`, `round_state`, `current_song_index`, `show_answer`; rows `scores` | GAME_START, SKIP_ROUND, JUDGING, JUDGE_SUBMIT, ROUND_END, SHOW_SONG, ROUND_STATE_UPDATE | answering phase (queue, answers), playback |
| **Kick, clear, owner requests** `handlers/connection_lifespan.py` | the answering keys, `users` | KICK_USER, CLEAR_ANSWER_QUEUE, START_POS_UPDATE | answering phase, connections |
| **Playback control** `handlers/audio_events_2x.py`, `cache/room_cache.py` | Redis hash of the playback, column `playback_state_json` | PLAY, PAUSE, SEEK, recovery from the column | answering phase pauses and resumes it |
| **Connections** `main.py`, `client_manager/` | registry of clients per room | connect, duplicate check, disconnect, broadcast | heartbeat, lifespan handlers |
| **Heartbeat** `utils/heartbeat_monitor.py`, `handlers/heartbeats.py` | Redis timestamp and online keys with a time to live | beat, check, mark online or offline, cleanup | connections |
| **Audio tokens and preload** `db/crud/audio_preload_and_token.py`, `utils/audio_token.py`, `handlers/audio_common.py` | token rows, Redis copies with a time to live | get or create, validate, prepare preload | lifecycle, audio stream |
| **Background tasks** `mq/tasks.py`, `db/crud/task_related.py` | task rows with a status, downloaded files | enqueue, run, retry, time out | GAME_START reads the status; cookies |
| **Cookie pool and rotation** `utils/cookie_pool.py`, `cache/cookie_rotation.py`, `mq/cookie_refresh_service.py` | credentials, failure counters, current index | rotate, mark failed, refresh | tasks |
| **Song order of a room** `router/room_songs.py`, `db/crud/room_song_related.py` | `room_songs.order`, initial playback | add, remove, reorder, shuffle, clear | lifecycle reads the list |
| **Room HTTP interface** `router/room.py` | rows of rooms and users | create, join, dissolve, settings, test audio | tasks, lifecycle |
| **Song, songlist and tag HTTP interface** `router/song.py`, `songlist.py`, `tags.py` | independent rows | create, read, update, delete | none at run time of a game |
| **Reconnection state** `db/crud/room_state_cache_compat.py` | none of its own | assembles ROOM_STATE | reads everything |
| **Configuration, logging, media; schemas and models** | none | | |

What is hard in each, and what makes it correct:

- **Answering phase.** Five Redis keys are updated by separate commands by
  several handlers at once; the only atomic operations are two Lua scripts, the
  election (`try_set_first_answerer`) and the compare-and-set
  (`transition_room_current_answerer`). Correct means: at most one player has
  the turn, an admitted submission keeps it, whoever reserved a place is in the
  queue, nobody in the queue is forgotten, a turn has a deadline, an answer
  belongs to a round that was announced.
- **Lifecycle.** Handlers keep a loaded row over many awaits and the commit
  writes the changed columns without a condition. Correct means: the game starts
  once, steps through the list and ends once; scores belong to answers and add
  up; Redis and the database name the same song; the end is told after it is
  stored, and is told.
- **Kick and clear.** They reset a part of the answering keys while submissions
  are in process. Correct means: the turn does not stay with nobody who can
  end it.
- **Playback.** The whole hash is read and written back, by any client, and
  followed by a snapshot in the database. Correct means: in a round hash and
  snapshot name its song, the hash does not stay for ever.
- **Connections and heartbeat.** A check that precedes an await, an old
  connection that goes while a new one comes, timestamps that expire. Correct
  means: one connection per user, no entry left behind, a connected and beating
  user does not stay offline, one who went is told of.
- **Tokens.** A row and a Redis key that forget at different times. Correct
  means: the url that a room plays streams the song of its round.
- **Tasks, cookies.** Retries, cancelled waits, counters, a session shared by all
  imports of a process. Correct means: a task that says "success" left what it
  was to leave; the cookie that is blamed is the one used; one that works is
  found again.
- **Song order.** Sessions that keep what they loaded, row locks, edits that
  check WAITING and commit later. Correct means: every song of a room is in its
  queue once, the first ones get downloaded, a request is answered.

`PROJECT.json` lists these hazards at their lines, with the property that would
catch each, or the reason why none does; "components" says for each of the
above what of it is modelled.

## Modules

| Module | Models | Used by |
|---|---|---|
| `RoomRules` | the two transition tables | `AnswerTurn`, `GameRoom` |
| `AnswerTurn` | the answering phase, await by await | `AnswerTurnClaims`, proofs |
| `AnswerLock` | abstract: what the answerer key promises | `AnswerTurn` (refinement `Lock`) |
| `GameRoom` | the life of a room as database sessions | `GameRoomClaims`, proofs |
| `GameLife` | abstract: the game of `docs/DESIGN.md` 5.5 | `GameRoom` (refinement `Game`) |
| `SongList` | the edits of a room's songs as sessions with row locks, the preload, and GAME_START | `SongListMC` |
| `Presence` | the connections of one user, heartbeats, the monitor, a kick | `PresenceMC` |
| `Downloads` | the audio file of one song: jobs, test audio, imports | `DownloadsMC` |
| `SonglistImport` | imports of a song list, the pool of cookies, rotation and refresh | `SonglistImportMC` |
| `Playback` | what a room plays: hash, time to live, snapshot, tokens | `PlaybackMC` |
| `*Claims` | statements of documents, comments and messages that the code does not keep | by hand, and one run |
| `*MC` | constants of the instances | the configurations |
| `*Proofs` | the theorems of each model | |
| `SumLemmas` | facts the proofs share: induction on a set of numbers, the sum over a finite set of positions | `AnswerTurnProofs`, `GameRoomProofs`, `SongListProofs` |

How they fit together: the models overlap where the components do, at one level
of detail each. `GameRoom` has of the answering phase what the row of the room sees
of it, `AnswerTurn` has of the playback whether it runs, `Playback` has of both that
something reads and writes the state at any time. `SongList` hands songs to a
worker whose steps are in `Downloads`, and both have the GAME_START that believes
the result. `Downloads` and `SonglistImport` meet in an import that writes a song
again.

Some definitions have a sibling whose comment begins with `Fault:`. It is the
same operation with a plausible mistake in it, kept to show that the property
named with it in `PROJECT.json` notices the mistake; no specification uses it.

### AnswerTurn

A handler is a program counter `pc[p]` with local variables; each awaited Redis
command, Lua script or session of its own is one step, and what happens between
two awaits is part of the step before. `Receive` is the receive loop of
`main.py`: a player whose handler runs has no second one. The members of the
sorted set are records `[player, rank, answering]`, for the serialised
`AnswerQueueItem` contains the flag: changing the flag means removing one
member and adding another, three commands of `sync_answer_queue_is_answering`
(`SyncItem`, `SyncAdd`, `SyncIndex`). `Before` is Redis' order, score first and
then the bytes of the member. Local variables: `target` the player about to be
seated or kicked, `view` the members read, `heard` the playback read, `late` who
found its deadline expired, `goal` the round state asked for.

The instance begins where GAME_START has committed the round: the owner's handler is
at `StartPlayback`, which writes the playback that another player's attempt may
miss (`ReadPlayback`); the hash may also hold what was played before.

Abstracted: what an answer says; times, of which only "expired or not" is kept
(`Deadlines`, `DeadlinePasses`); the client's `offset_ts`, a number of `Ranks`;
broadcasts, except the last YOUR_TURN and ROUND_START, which are what clients
act on. `answers` counts rows up to `AnswerCap`. `Inflight` bounds the handlers
that run at the same time. `Polite` says whether clients submit only after a
YOUR_TURN that names them, as the documented client does; the theorems hold for
both.

### GameRoom

The row of the room as a record of four columns. A handler's session is what it
loaded, `seen[p]`, and the object it changed, `draft[p]`. SQLAlchemy writes at
the commit the columns whose value changed, over whatever the row has become:
`Merge`. `expire_on_commit` and `autoflush` are off (`db/session.py`), so
nothing is read again in between. `handle_round_state_transition` opens a
*second* session inside the handler (`MoveRound`, `CommitRound`), and its
commit comes first. JUDGE_SUBMIT flushes its score rows and the row of the room
together (`CommitScores`) and broadcasts afterwards.

The answering phase is reduced to what the row and the scores see of it: the
set of queued players, the answers stored, and an attempt that moves the round
to ANSWERING. Which answers are right is any choice among the players whom
`calculate_player_scores` could pay (`Awards`).

ROUND_STATE_UPDATE from the owner is modelled here and not in `AnswerTurn`; the
run lets the owner put the round back to PENDING, the one target that no other
handler asks for.

### SongList

`list` maps a song to its `song_order`: a number, `None` (in the room and not
queued) or `Absent`. A request of `router/room_songs.py` is one transaction:
`known` is what its session believes is stored (the first value it loaded of a
row, for the identity map is not refreshed), `mine` what it will write, `wrote`
what it has flushed; rows in `wrote` are locked until the commit (`Blocked`). A
flush writes rows whose value differs (`Dirty`); an UPDATE of a row that is gone
and an INSERT of one that is there fail the request (`Fails`). Add
and remove flush, load the list again and shuffle it in the same transaction
(`Relist`); an addition to an empty list writes NULL first.

After the commit the same session begins a second transaction, the preload. It
reads the head of the queue and renews the tokens of some of its rows
(`PreloadRead`, `tokens`: a row whose token has expired or is unknown to Redis, so
any of them), flushes these rows, which waits for the rows of others and locks them
until `get_db` commits, and hands the songs to the worker (`PreloadAsk`). A shuffle
before that sets the initial playback and, in the session, the index and the token
of its song (`RefreshRead`, `RefreshSet`), which the same flush writes. If the flush
finds a row gone, nothing is enqueued, the error is swallowed, and the commit of the
broken session fails the request; `End` is that commit where all went well.

Requests that wait for each other in a circle (`InCircle`, with the order in which a
flush writes: UPDATEs by key, INSERTs, DELETEs) lose one of them to the database
(`BreakDeadlock`). One that was at its preload ends as `"dropped"`: its edit is
committed and nobody asks for the songs. The circles are of rows of `room_songs`; the
row of the room is one that a request only waits for in its last flush. The tokens
that GAME_START and SKIP_ROUND renew are left out here, and the locks of their commits
with them (`Playback` has these tokens). Of a download there is only its end, with success or not
(`Download`); a job is not run again. GAME_START is cut to its read of the list, the
playback and the commit. `Ahead` is 3 in the code, 2 in `songs_edit` and 1 in
`songs_start`.

### Presence

One user and one room. `pc[c]` is where the endpoint of connection `c` is, from
the load of the user (`Authenticate`) through the duplicate check, the
handshake, registration and `on_connect` to the receive loop, where a heartbeat is
handled (`Beat` .. `BeatTell`), and to `on_disconnect` and the `finally`. `seen[c]`
is `users.online` as its session loaded it: a commit writes nothing if the value
is the same, and fails if the row is gone. `stamp` and `flag` are the two Redis
keys; `Age` and `ExpireFlag` are the passing of time. `mpc` is the monitor, one
user at a time, `kpc` a kick. `gone` is what happened to the peer, `noticed` which
endpoints have heard of it, `told` the last of PLAYER_JOIN and PLAYER_LEAVE.
`crashed` is an endpoint that ended with an exception before the receive loop, its
user's row being gone. A receive loop ends with the disconnect of its peer, or because
a send to it failed before (`Disconnect`).

### Downloads

One song, for songs share nothing. `row` is the status of its task,
`path` whether `songs.cached_path` is set, `file` whether the file is there. A
job commits "running" in a session of its own and then does the download in
one session with the path and the status (`End`). A second job may be the
body run by `auto_setup_test_audio` in the web process. The request enqueues
before it records "pending". `Lose` cuts a job off anywhere, by the 300 s limit
(`_run_async` cancels the coroutine) or by the end of the process: the session is
rolled back, and the row keeps what it said.

`song` is the row of `songs`: it can be deleted (`DeleteSong`, not while it is in a
running game or some room's test audio) and come back under a new id, by an import or
by `CreateSong`; the task row bears its platform id and stays. `had[j]` is what a job
loaded: a job that found no song stores no path and records "success" all the same
(`End`), and one whose song was deleted after the load fails at the UPDATE and leaves
"running" behind (`Abort`). So `SuccessIsCached` speaks of a song that was not deleted.
The paths a client may put into a song by POST or PUT are left out.

### SonglistImport

`credential` is the one in the client session of `qqmusic_api`, which all imports
of a worker process share; `current` and `failed` are the rotation manager. Failure
counts from 3 on are the same to the code and are one value. Which credentials
the service accepts is `valid`; expiry is an action and the renewal the
periodic task. `Blame` is what the two handlers of an exception do,
`Timeout` the cancelled coroutine that no handler sees, `Restart` the consumer
that loses its tasks and keeps its queue. `saved` is history: the imports whose
session committed.

### Playback

Of the state only the url is kept: `NoUrl`, a token, or `Test` (a test audio).
`hash` and `ttl` are the Redis hash, written by two commands, and `snap` is the column
`playback_state_json`, written some awaits later in a session of its own (`Hset`,
`Expire`, `Save`). An `hset` leaves the fields that are None as they were
(`Merged`). `made[t]` is the song of token `t`, `dead` the tokens Redis forgot,
`temp` the column `room_songs.temp_url`, and `fresh[p]` the tokens that a session
has made and not committed. A read of the state (`Get`) may miss and go on to the
snapshot (`Load`, `Refill`) or to a state of its own making (`Default`, `Close`). The
handlers that read, await and write back are one kind, "event": PLAY, PAUSE,
SEEK, the pause of an attempt, the resume of a submission, SHOW_SONG and the read
of a new connection. GAME_START, SKIP_ROUND and the refresh after a shuffle make a
state afresh; the test audio writes one with its own url.

`late` and `spoiled` are history and are the assumption of the two main
properties: a process that had read before the round's playback was written; a
url named by a client, a test audio, a late write, or an error of Redis that
came between. The next round takes them back, so both properties speak of every
round after a fault as well.

## Runs

Complete explorations, in ten seconds to two minutes each:

| Run | Instance | Distinct states | Shows |
|---|---|---|---|
| `turn_lock` | 2 players, 2 songs, SKIP_ROUND | 1.87 M, depth 147 | `ImplementsLock`: for all interleavings the turn is taken only when free and leaves its holder only by its own submission or a skip. `NoAnswerAhead`: no answer is stored under a round not yet announced, although ROUND_START is sent before the commit. |
| `turn_manage` | 2 players, KICK, CLEAR, JUDGING, ROUND_END | 2.59 M | `SubmitterHoldsTurn`: the check at the beginning of a submission still holds at its compare-and-set. `TurnHasDeadline`: dropping and setting the deadline by different handlers never leaves a turn that cannot time out. |
| `turn_live` | 2 players, PLAY and PAUSE, fair | 0.11 M | `ReservedIsQueued`: synchronisations that run at the same time never lose a member. `AttemptSeatsSomeone`: an attempt that was queued, and found a playback state, is followed by somebody having the turn. |
| `room_game` | 2 players, 2 songs, 2 judgements, fair | 0.85 M | `ImplementsGame`, `ScoresFollowAnswers`, `TotalsRunOn`, `PlaysCurrentSong`, `FinalIsStored`, `NewSongHidden`, `EndAnnounced`. |
| `songs_edit` | 3 songs, 2 requests of six kinds | 1.42 M | `EverySongQueued`: no song is left without a number, although additions write NULL first. `UndisturbedOrder`: a request that found nobody's changes leaves 1 .. n. `FirstSongsAsked`: when all is quiet the head of the list was handed to the worker, by whoever committed last, unless the list was cleared or a preload was given up in a deadlock. |
| `songs_start` | 2 songs, 2 requests, GAME_START, fair | 0.40 M | `RequestsEnd`: the row locks of edits and preloads, deadlocks included, let every request end. `GameCanStart`: once the edits end, each song that GAME_START checks has its download behind it, so that only a failed one refuses the start. |
| `presence_live` | 2 connections in turn, monitor, fair | 0.38 M | `BackOnline`, `BackTold`: a player who stays connected is shown online again and the others are told so, whatever the disconnect of the old connection or the monitor wrote. `GoneIsTold`: of one who left for good they are told. |
| `presence_kick` | 2 connections at once, a kick | 2.07 M | `ServedIsRegistered`: who is served hears the broadcasts. `NothingLeftBehind`: an endpoint that ended left no entry, which would refuse the user for ever; only one that broke off left one, and then the user's row is deleted. |
| `downloads` | 2 jobs, 1 request, an import, 1 deletion, 1 loss, fair | 0.44 M | `SuccessIsCached`, `PathHasFile`: what is recorded is there, whoever is cut off, unless the song was deleted or imported again. `TestAudioArrives`: an owner who keeps asking gets it, unless the row is stuck in progress or the song stays deleted. |
| `imports` | 2 imports, one with its own cookie, 2 cookies, 1 worker, 1 mishap, fair | 0.23 M | `SuccessIsStored`. `BlamesTheUsed`: with one worker the cookie that is blamed is the one used. `ImportsGetThrough`: the rotation comes back to a cookie that works. |
| `playback` | owner and another player, who also sends requests; 2 songs, 3 tokens, 1 fault | 4.35 M | `PlaysIndexed`, `RecoversIndexed`: hash and snapshot name the song of the round. `HashExpires`: the hash always gets its time to live, after a dissolve too. |
| `claim_forgotten` | 2 players | | a counterexample, see below |

Each of these properties is broken by a plausible mistake in the code it is
about (the `Fault:` definitions). Deadlock checking is off where the system may
stop: clients need not send anything in the answering phase, where answers are
counted up to a bound; a browser opens a bounded number of connections, and a
bounded number of edits is sent.

The bounds. Two players make every race of the answering phase: one handler
that passes the turn on and one that attempts. Two handlers at a time are enough
for each pairwise race, and an interleaving of three decomposes at the two atomic
scripts; the theorems do not have this bound. With one rank all attempts have the
same score and the order falls to the bytes of the member, where the flag matters
most. Two songs have a first and a last; two judgements are enough for a total
that runs on, for a round judged twice and for an end after a round scored
before. `TurnThree.cfg` is `ReservedIsQueued` with three players, where a
synchronisation meets a member that is neither the old nor the new answerer; it
holds (1.3 M states) and is run by hand.

Two edits of three songs make all pairs of kinds meet with rows that both, one
or neither of them touches, from every order of the list, equal numbers
included. With two of them downloaded ahead two preloads, or a preload and an edit,
can wait for each other, and one is given up. In `songs_start`, with two songs and
one ahead, the head of the list changes under the preload, a row can be gone at its
flush, and a game can start before, between and after the edits; a preload there
writes one row and is never the victim. Two
connections are an old one and a new one; a third would meet the same
registry entry. Two jobs are the one that is cut off and the one that
is asked for next. Two cookies are one that expires and one that does not; the
import with its own cookie is what may come between a failure and its blame.
Three tokens are one for each of two songs and one that replaces a token
Redis forgot, and the fault is placed anywhere.

Fairness. `AnswerTurn`, `GameRoom`: `WF_vars(HandlerStep(p))`, the event loop
resumes every started coroutine, and nothing in a handler blocks;
`WF_vars(DeadlinePasses)`, time passes. Clients owe nothing, so nothing is fair
about requests. `SongList`: a request that is enabled goes on, which it is not
while another holds its rows; the worker comes to every song, and nothing says that
the download succeeds. `Presence`: all tasks of the
loop, a client that sends heartbeats while it lives, and `SF_vars(ExpireFlag)`, for
the time to live of the status key runs out, since a heartbeat does not renew
it. `Downloads`, `SonglistImport`: the worker goes on, and the service and the
database do not fail for ever where they can succeed (strong fairness of the
successful outcome); the owner, or somebody, asks again, which the two
liveness properties are conditional on in the code too.

What `room_game` assumes: only the owner's client sends GAME_START. The handler
does not check it, and where another player sends it too, four of the
properties fail (`ImplementsGame`, `NewSongHidden`, `PlaysCurrentSong`,
`FinalIsStored`); `ClaimRoomMoves.cfg` and `ClaimStartedRound.cfg` show the cause.

### Where code and documents disagree

One run ends in a counterexample:

- `claim_forgotten`: `docs/DESIGN.md:16`, who attempts while another answers is
  served afterwards. The attempt enqueues itself after the last answerer read
  the queue and loses the election before that answerer gives up the turn.

The following are refuted in the same way. A configuration named here is run by
hand with the module beside it; where none is named, the definition is put in
place of the properties of the module's configuration.

| Statement | Code | Refuted by |
|---|---|---|
| `handlers/round_events_3x.py:422`, "Failed to join answer queue" | the player has reserved his place and is in the queue; he was refused because GAME_START, which has committed PLAYING_AUDIO, has not written the playback yet, and his next attempt finds him "already in the queue" | `RefusedHasNoPlace`, `ClaimRefused.cfg`, `AnswerTurnMC` |
| `cache/room_cache.py:337`, a player has one place in the queue | two synchronisations that read the same member leave two | `OneEntryEach`, `ClaimOneEntry.cfg`, `AnswerTurnMC` |
| `handlers/connection_lifespan.py:359`, a kick clears the answering state | a string is compared with an integer, never equal, and the kicked player keeps the turn | `KickReleasesTurn`, `ClaimKick.cfg`, `AnswerTurnMC` |
| `handlers/round_events_3x.py:762`, an empty queue ends the phase | the branch neither frees the turn nor drops the deadline | `EmptyQueueEndsPhase`, `ClaimEmptyQueue.cfg`, `AnswerTurnMC` |
| `handlers/round_events_3x.py:169`, GAME_START brings the round to PLAYING_AUDIO | the outer session may write its PENDING over it | `StartedRoundPlays`, `ClaimStartedRound.cfg`, `GameRoomMC` |
| `room_state/state_machine.py:18`, the allowed transitions | two players start; the slower handler writes RUNNING over a game that ended | `LegalRoomMoves`, `ClaimRoomMoves.cfg`, `GameRoomMC` |
| `docs/DESIGN.md:429`, one final score per player | one row per player and round is listed | `FinalOncePerPlayer`, `ClaimFinalOnce.cfg`, `GameRoomMC` |
| `router/room_songs.py:59`, no edits of the list outside WAITING | the check comes first, the commit after GAME_START | `ListFrozenInGame`, `SongsStart.cfg`, `SongListClaims` |
| `router/room_songs.py:64`, the first songs are downloaded after the list changed | a clear triggers nothing, and a song added meanwhile stays | `EveryListAsked`, `SongsEdit.cfg`, `SongListClaims` |
| the same line | a preload that loses a deadlock (`db/crud/audio_preload_and_token.py:238`) is logged and forgotten (`router/room_songs.py:89`) | `UnclearedListAsked`, `SongsEdit.cfg`, `SongListClaims` |
| `router/room_songs.py:95`, the playback begins with the latest order | of two shuffles the one that read first may write last | `PlaybackFollowsOrder`, `SongsEdit.cfg`, `SongListClaims` |
| `docs/DESIGN.md:71`, `main.py:262`, one connection per user | the check precedes the handshake, the registration follows it | `AtMostOne`, `PresenceKick.cfg`, `PresenceClaims` |
| `router/room.py:350`, the download is in progress | a task that was cut off, or whose "pending" came after its end, stays so for ever, and the song can no longer be asked for | `InProgressIsTrue`, `Downloads.cfg`, `DownloadsClaims` |
| `handlers/round_events_3x.py:82`, the first songs must have been downloaded | an import of a list clears `cached_path` (`db/crud/song_related.py:282-291`), or the song was deleted and made again; the row keeps saying success | `StartedIsDownloaded`, `Downloads.cfg`, `DownloadsClaims` |
| `docs/COOKIE_ROTATION_IMPLEMENTATION.md:178`, rotation to the next healthy cookie | the next one of the list, healthy or not (`cache/cookie_rotation.py:107`) | `RotatesToHealthy`, `ClaimHealthyNext.cfg`, `SonglistImportClaims` |
| `docs/COOKIE_ROTATION_IMPLEMENTATION.md:176-177`, the current cookie is blamed for its own failure | with several worker threads (`docs/README_AUDIO_ERROR.md:112`; `README.md:323` has one) another one is current by then | `BlamedWasUsed`, `ClaimBlamedUsed.cfg`, `SonglistImportClaims` |
| `router/room.py:312`, no test audio outside WAITING | set_test_audio checks when the request begins, auto-setup not at all | `NoTestInGame`, `ClaimTestInGame.cfg`, `PlaybackClaims` |
| `cache/room_cache.py:239`, the snapshot recovers what Redis evicted | its url may hold a token that Redis forgot | `RecoveredOpens`, `ClaimRecovered.cfg`, `PlaybackClaims` |
| `handlers/audio_events_2x.py:29`, the state in Redis is complete | PLAY on no state, without a url, stores one without | `StateIsComplete`, `ClaimComplete.cfg`, `PlaybackClaims` |

Met while modelling, and plain to see in the code or consequences of the above:

- CLEAR_ANSWER_QUEUE lets a player attempt and answer a second time in a round;
  the reset of SKIP_ROUND is made of several commands between which an attempt
  can take the turn, so the next round can begin with the old answerer.
- SKIP_ROUND or CLEAR_ANSWER_QUEUE between the two writes of a synchronisation
  (`cache/room_cache.py:672-707`) gives an index entry back to a player
  whose member is gone: he is refused as "already in the queue" until the next
  reset. KICK_USER takes the member one command before the index entry. So
  `ReservedIsQueued` is checked and proved without these three requests.
- The `is_answering` flags can disagree with the answerer key, and the last
  YOUR_TURN with both: each is written some awaits after the turn.
- The deadline is compared only when a submission arrives. An answerer who never
  submits keeps the turn for ever.
- An answer read in one round may be stored under the next
  (`current_song_index` is read when it is saved).
- A transition of the round is validated when it is loaded and written later, so
  a committed move can be one that the rules do not list; ROUND_START of the next
  song is sent before the index is stored; an attempt can bring an ended game's
  round to ANSWERING (`cache/room_state_manager.py:107` sets PENDING).
- PLAY from any client resumes the music during somebody's turn;
  `docs/playback_sync_implementation.md:10` says that only the owner may send it,
  and the handlers do not ask who sent it.
- JUDGE_SUBMIT is accepted in every state, also after the end, and keeps adding
  scores.
- A right description pays 2 points (`utils/calculate.py`), `docs/DESIGN.md:18`
  says 1. ENDED to WAITING is in the rules, but nothing executes it.
- `users.online` can stay TRUE for ever after a handshake that is given up or a
  reconnect that overlaps the disconnect; if the commit of `on_connect` fails after
  the registration (`main.py:269-271`, the user was kicked meanwhile), the entry
  stays. `NothingLeftBehind` says that this is the only way, and that the user it
  names is deleted, so that nobody is refused because of it.
- A connection in its handshake during a kick is registered and served
  afterwards; a heartbeat during the kick announces the kicked user again. The
  status key expires under a user who is online, and PLAYER_JOIN is repeated.
- A song that is the test audio already is refused, so one whose file went
  cannot be set again.
- A cookie whose calls hang until the 300 s limit is never blamed; a clash of two
  imports in the database is; a success does not reset the count; a cookie
  from a request stays in the shared session; an error while a task's
  status is written is logged and the status lost, and one of its commit is raised:
  the task ends before its import (`Running`), or records a stored one as failed
  (`Succeed`).
- `current_order` of the playback is 0 in every round, the default, although
  `schemas/ws_messages/room_schemas.py:29` says it is the number of the song.
- SKIP_ROUND writes the playback before its session commits: if that fails, the
  next song plays and the index stays. Two overlapping writers may leave hash
  and snapshot with different play states; a late writer makes the hash of a
  dissolved room anew, until it expires.

## Proofs

TLAPS checks the seven `*Proofs` modules and `SumLemmas`. They bound nothing:
players, songs, ranks, points, judgements, requests, jobs, imports, connections
and tokens are any sets or numbers that the named assumption of the model
(`TurnAssumption`, `RoomAssumption`, `SongListAssumption`, ...) allows, and TLC
evaluates these assumptions for the instances. Every invariant and every action
property of the passing runs has its theorem, and so have the two refinements;
where a theorem needs more than the model's assumption, it says so, and the
property is false without it.

The form is the same throughout. The property is seldom inductive; the module
defines the invariant that is, TLC checked it on the instances of the runs, and a
lemma for each group of actions shows that it is kept. The groups are those of
`Next`, so that a change of the code shows which lemma it breaks.

| Theorem | Property | Further assumption | Inductive because |
|---|---|---|---|
| `TypeCorrect` | `AnswerTurn!TypeOK` | | `TypeInv`: an index about to be committed is one of the list, an elected player is a player |
| `LockImplemented` | `ImplementsLock` | | `TurnEffect`: each step does one of a few things to the turn |
| `AdmittedHoldsTurn` | `SubmitterHoldsTurn` | no SKIP_ROUND | the same effects; a player has one handler |
| `AnnouncedTurnHasDeadline` | `TurnHasDeadline` | no SKIP_ROUND | the same |
| `NoneAhead` | `NoAnswerAhead` | | `Announced`: the committed index was announced, one about to be committed is the announced one, answers are in committed rounds |
| `ReservationsKept` | `ReservedIsQueued` | no SKIP_ROUND, CLEAR_ANSWER_QUEUE, KICK_USER | `PlacesInv`: who is indexed or in some handler's copy of the queue has a place: in the set, or in the hands of a handler that adds it |
| `PlaysTheGame` | `ImplementsGame` | only the owner starts | `OwnerInv`: nobody wrote under the owner's session |
| `SongsHidden` | `NewSongHidden` | only the owner starts | `OwnerInv` |
| `PlaysCurrent` | `PlaysCurrentSong` | only the owner starts | `PlayInv`: from the write of the playback to the commit, what plays is what the session is about to commit over the row it loaded |
| `FinalStored` | `FinalIsStored` | only the owner starts | `FinalInv`: a judge about to tell the end has stored it; rows are only added (`PrefixStays`) |
| `GameTyped` | `GameRoom!TypeOK` | | `TypeInv`: a judge who scores has seen a song, one at a time |
| `ScoresFollow` | `ScoresFollowAnswers` | | `ScoresInv`: also the score a session is about to commit |
| `TotalsRun` | `TotalsRunOn` | | `SumIsLastTotal`: the sum of a player's rows is the total of the last one |
| `SongsTyped` | `SongList!TypeOK` | | `TypeInv`: a running game has an index, a starting one has songs |
| `SongsQueued` | `EverySongQueued` | | `QueuedInv`: what a request has flushed it knows, and a row it flushed without a number has one at its commit |
| `NumbersEachOnce` | `UndisturbedOrder` | | `NumbersHeld`: a request about to commit holds the numbers `1 .. n` |
| `FirstSongsGoOut` | `FirstSongsAsked` | | `AskedInv`: or a request will read the queue, or has read it as it is and renewed only tokens of rows that are there |
| `PlaybackTyped` | `Playback!TypeOK` | | `PartsType` |
| `HashesExpire` | `HashExpires` | | itself |
| `PlaysTheIndex` | `PlaysIndexed` | | `AirInv`: which process may still write what, below |
| `RecoversTheIndex` | `RecoversIndexed` | | `AirInv` |
| `PresenceTyped` | `Presence!TypeOK` | | itself |
| `NothingIsLeftBehind` | `NothingLeftBehind` | | `RegistryInv`: an entry is of an endpoint between its push and its pop, or of one that broke off because the user's row is gone |
| `ServedAreRegistered` | `ServedIsRegistered` | | `RegistryInv`: past its push a connection is registered while its peer is there; only peers that are gone are noticed |
| `DownloadsTyped` | `Downloads!TypeOK` | | itself |
| `PathsHaveFiles` | `PathHasFile` | | `FileAtHand`: a job that has found or made the file, and will store its path, still has it |
| `SuccessesAreCached` | `SuccessIsCached` | | `PathKept`: the path that a job found at its load stays, unless an import came or the song went, and a job past its load has a song |
| `ImportsTyped` | `SonglistImport!TypeOK` | | `TypeInv`: what is renewed is a cookie of the pool |
| `SuccessesAreStored` | `SuccessIsStored` | | `StoredInv`: a task about to say so has committed |
| `BlameIsJust` | `BlamesTheUsed` | one worker | `WorkerInv`: one task at a time, and an import from the pool has the current cookie in the session |

A further assumption says which use of the program the property is true of, and
none can be dropped: TLC finds each property violated without it. That only the
owner starts games is what his client does (`room_game` above); with another
starter a session writes over what the first one stored (`ClaimRoomMoves.cfg`,
`ClaimStartedRound.cfg`). SKIP_ROUND frees the turn of a submission that runs. A
reset or a kick while a synchronisation runs leaves an index entry behind. With
two workers the cookie of one import is blamed for another
(`ClaimBlamedUsed.cfg`); the README of the program starts one.

The arguments that are worth following:

- `LockImplemented`: each effect of `TurnEffect` (none, taken when free, a
  submission admitted, a submission ended, a reset) is a step of `AnswerLock` or a
  stutter.
- `PlaysTheGame`: a session writes over what others wrote, so the proof must show
  that nobody wrote. `OwnerInv` says that the others' sessions change nothing
  (`OthersReadOnly`), that the owner's session has the columns of the game as the
  row has them until it writes (`OwnerUpToDate`, with `Change` for what it may
  have changed), and that the judge decides on a row that is still the stored one
  (`JudgeUpToDate`). It rests on `MergeColumns`, which says what a commit leaves
  in each column, and on `SessionStep`, that rows and sessions stay typed.
- `TotalsRun`: `save_score_record` adds to the last total, the model sums. The
  two agree by `SumsAgree`: a sum over positions depends only on what it adds up.
  `SumExists` needs induction on the number of positions; the library states
  induction with an operator parameter, so `SumLemmas` derives it, for a set,
  from the order of the naturals being well founded (`InductionOnSet`).
- `SongsQueued`: an addition to an empty list flushes NULL and relies on the
  shuffle after it, while other requests commit in between. `Believed` says that
  the session shuffles every row it has flushed, `AtCommit` that what it still
  believes to be NULL gets a number in the same commit.
- `NumbersEachOnce`: a shuffle is an injection of the songs into `1 .. n`, and an
  injection between finite sets of one size is onto (`ShuffleNumbers`).
- `PlaysTheIndex`: from the write of its playback to the commit of its index a
  round is written in part (`Written`), so `Current` is the song that the owner's
  handler aims at, or else that of the row. While nothing spoiled the round, hash
  and snapshot are of `Current` (`HashOfRound`, `SnapOfRound`; the snapshot once
  it is saved), and so is what each process read that is not `late`
  (`OfThisRound`): whatever it writes, it writes the song of this round.
- `ReservationsKept`: a synchronisation removes a member and adds it again, from
  a copy of the queue that may be old, and several do so at a time. `PlaceEffect`
  says that no step takes a place away, and that what a step indexes or copies
  has one.

Only model-checked: the liveness properties (`AttemptSeatsSomeone`, `EndAnnounced`, `RequestsEnd`, `GameCanStart`, `BackOnline`,
`BackTold`, `GoneIsTold`, `TestAudioArrives`, `ImportsGetThrough`), for which these
provers have no rules.

## Not modelled

- Redis failures, except those of the playback and its tokens (`Playback`).
  `cache/room_cache.py` turns an error into a default value everywhere.
- Answering keys that expire: they live longer than a round.
- Progress and play state of the playback across SEEK and recovery: arithmetic
  on times. START_POS_UPDATE: one column.
- Spectators, and which broadcast reaches which client; the reconnection message
  ROOM_STATE, which only reads.
- Creating and joining a room, its settings, tags: single transactions on rows
  that nothing else writes. Joining checks WAITING like the edits of `SongList`
  and can come after the start in the same way.
- The list of songs is fixed and not empty in `GameRoom` and `Playback`. A game over
  by hand: `handle_game_over_manual` needs an argument that the dispatcher never
  passes, and always fails.
- Which tags and descriptions are right; the history of tags.
- `validate_audio_token`, `set_room_playback_progress`, `CookieRefreshService` and
  the rotation policies other than the one in use: nothing calls them.
- Schemas, configuration, logs, media, the conversion to Opus: input and output.

## Plan

Done: the modules above with their runs, and theorems for every safety and action
property the runs check. Left, the most important first:

1. Scoring: `calculate_player_scores` as a function of the queue and the marked
   answers, against a definition by sets, with theorems on who can be paid, which
   justify `Awards` of `GameRoom`.
2. Consequences of the abstract specifications: what `AnswerLock` and `GameLife`
   promise by themselves, carried over by the refinements.
3. A weaker `ReservedIsQueued` that resets keep: which entries of the index can
   outlive their member, and until when.
4. Redis errors as a parameter of `AnswerTurn`, with the decorator's defaults.
