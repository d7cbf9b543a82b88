------------------------------ MODULE GameRoom ------------------------------
(***************************************************************************)
(* The life of one room: GAME_START, SKIP_ROUND, JUDGING, JUDGE_SUBMIT,    *)
(* ROUND_END and SHOW_SONG over the room's database row and its score      *)
(* rows, while players attempt and submit answers.                         *)
(*                                                                         *)
(* A handler works on a session: it loads the row once, changes the loaded *)
(* object, and the commit at the end of the session writes the columns     *)
(* whose value differs from the loaded one, whatever the database holds by *)
(* then (expire_on_commit and autoflush are off, db/session.py).  What was *)
(* loaded is seen[p], the object is draft[p].  Between the two the handler *)
(* awaits, and the handlers of other connections run.  The reads a session *)
(* makes before its first await of something else are one step.            *)
(*                                                                         *)
(* The answering phase is reduced to what the row and the scores see of    *)
(* it; AnswerTurn models it await by await.                                *)
(***************************************************************************)
EXTENDS Naturals, Sequences, RoomRules

CONSTANTS
    Players,        \* users of the room, one connection each
    Owner,          \* the one who owns it
    Starters,       \* players whose client sends GAME_START: the handler asks nobody who he is
    Updates,        \* round states the owner's client asks for by ROUND_STATE_UPDATE
    None,           \* NULL, an absent key
    Songs,          \* length of the song list
    Points,         \* points a player may get for one round
    JudgeCap        \* bound: judged rounds

ASSUME RoomAssumption ==
    /\ Owner \in Players /\ Starters \subseteq Players
    /\ Updates \subseteq RoundStates
    /\ Songs \in Nat \ {0} /\ None \notin Nat
    /\ Points \subseteq Nat /\ 0 \in Points
    /\ JudgeCap \in Nat

VARIABLES
    \* database, committed
    row,            \* columns of rooms
    answers,        \* player_answers: who answered in which round
    scores,         \* scores: per JUDGE_SUBMIT, what it added to whom
    \* Redis
    queue,          \* players in the answer queue
    playSong,       \* song of the playback hash
    \* what the clients were last told
    finalShown,     \* by GAME_OVER, the score rows it lists
    \* handlers: program counter, transition in process, session
    pc, move, seen, draft, judged

db == <<row, answers, scores>>
keys == <<queue, playSong>>
session == <<seen, draft>>
vars == <<db, keys, finalShown, pc, move, session, judged>>

Rounds == 0 .. Songs - 1

Row == [status: RoomStatuses, round: RoundStates, index: Rounds \cup {None}, showAnswer: BOOLEAN]

(* The rows one JUDGE_SUBMIT adds: a player without points gets none. *)
Judgement == [round: Rounds, delta: [Players -> Points], total: [Players -> Nat]]

Labels ==
    {"idle", "moveRound", "commitRound", "roundStart", "commit", "skipClear", "skipPlayback",
     "judging", "enqueue", "save", "score", "commitScores", "showScores"}

(* A transition asked of handle_round_state_transition, and where that returns to. *)
Move == [goal: RoundStates, then: {"idle", "roundStart", "commit"}]

Move0 == [goal |-> "PENDING", then |-> "idle"]

Row0 == [status |-> "WAITING", round |-> "PENDING", index |-> None, showAnswer |-> FALSE]

NoPoints == [p \in Players |-> 0]

Judged0 == [round |-> 0, delta |-> NoPoints, total |-> NoPoints]

(* current_song_index or 0 *)
OrZero(i) == IF i = None THEN 0 ELSE i

(* get_current_song_info finds a song. *)
HasSong(r) == r.index # None

(* Fault: the last row is left out of the sum. *)
SumOfEarlier(rows, p) ==
    LET sum[n \in 0 .. Len(rows)] == IF n = 0 THEN 0 ELSE sum[n - 1] + rows[n].delta[p]
    IN IF rows = <<>> THEN 0 ELSE sum[Len(rows) - 1]

(* The sum of score_delta over the rows of a player. *)
SumOf(rows, p) ==
    LET sum[n \in 0 .. Len(rows)] == IF n = 0 THEN 0 ELSE sum[n - 1] + rows[n].delta[p]
    IN sum[Len(rows)]

-----------------------------------------------------------------------------
Init ==
    /\ row = Row0
    /\ answers = {} /\ scores = <<>>
    /\ queue = {} /\ playSong = None
    /\ finalShown = <<>>
    /\ pc = [p \in Players |-> "idle"]
    /\ move = [p \in Players |-> Move0]
    /\ seen = [p \in Players |-> Row0]
    /\ draft = [p \in Players |-> Row0]
    /\ judged = Judged0

Goto(p, l) == pc' = [pc EXCEPT ![p] = l]

(* A connection serves one request at a time; the handler first awaits at l. *)
Receive(p, l) == pc[p] = "idle" /\ Goto(p, l)

Step(p, from, to) == pc[p] = from /\ Goto(p, to) /\ UNCHANGED move

Ask(p, g, l) == move' = [move EXCEPT ![p] = [goal |-> g, then |-> l]]

(* The session loads the row and the handler changes the loaded object to r. *)
Load(p, r) ==
    /\ seen' = [seen EXCEPT ![p] = row]
    /\ draft' = [draft EXCEPT ![p] = r]

(* The handler returns; its session is gone. *)
Return(p) ==
    /\ Goto(p, "idle")
    /\ move' = [move EXCEPT ![p] = Move0]
    /\ seen' = [seen EXCEPT ![p] = Row0]
    /\ draft' = [draft EXCEPT ![p] = Row0]

(* What a commit leaves in a row r that was loaded as s and changed to d: the *)
(* changed columns are written, and only these.                               *)
Merge(r, s, d) == [c \in DOMAIN r |-> IF d[c] # s[c] THEN d[c] ELSE r[c]]

Write(p) == row' = Merge(row, seen[p], draft[p])

Commit(p) ==
    /\ pc[p] = "commit"
    /\ Write(p)
    /\ Return(p)
    /\ UNCHANGED <<answers, scores, keys, finalShown, judged>>

-----------------------------------------------------------------------------
(* handle_round_state_transition: a second session, in which the rules apply to *)
(* the committed state.  It broadcasts before the commit, and goes on silently  *)
(* when the round is in that state already or the rules refuse.                 *)
Proceed(p) ==
    \/ move[p].then = "idle" /\ Return(p)
    \/ move[p].then # "idle" /\ Goto(p, move[p].then) /\ UNCHANGED <<move, session>>

MoveRound(p) ==
    LET goal == move[p].goal IN
    /\ pc[p] = "moveRound"
    /\ \/ /\ RoundAllows(row.round, goal)
          /\ Goto(p, "commitRound") /\ UNCHANGED <<move, session>>
       \/ /\ ~RoundAllows(row.round, goal)
          /\ Proceed(p)
    /\ UNCHANGED <<db, keys, finalShown, judged>>

CommitRound(p) ==
    /\ pc[p] = "commitRound"
    /\ row' = [row EXCEPT !.round = move[p].goal]
    /\ Proceed(p)
    /\ UNCHANGED <<answers, scores, keys, finalShown, judged>>

-----------------------------------------------------------------------------
(* GAME_START.  start_game moves the room to RUNNING and forces the round to      *)
(* PENDING, in the object; the transition to PLAYING_AUDIO runs in its own        *)
(* session before that object is written.                                         *)
GameStart(p) ==
    /\ p \in Starters
    /\ RoomAllows(row.status, "RUNNING")
    /\ Receive(p, "moveRound") /\ Ask(p, "PLAYING_AUDIO", "roundStart")
    /\ Load(p, [status |-> "RUNNING", round |-> "PENDING", index |-> 0, showAnswer |-> FALSE])
    /\ UNCHANGED <<db, keys, finalShown, judged>>

(* ROUND_START is sent and the playback is set to the song. *)
RoundStart(p) ==
    /\ Step(p, "roundStart", "commit")
    /\ playSong' = draft[p].index
    /\ UNCHANGED <<db, queue, finalShown, session, judged>>

(* Fault: off by one at the end of the list. *)
SkipPastLast ==
    LET next == OrZero(row.index) + 1 IN
    /\ next <= Songs
    /\ Receive(Owner, "skipClear") /\ Ask(Owner, "PLAYING_AUDIO", "commit")
    /\ Load(Owner, [row EXCEPT !.index = next, !.showAnswer = FALSE])
    /\ UNCHANGED <<db, keys, finalShown, judged>>

(* Fault: show_answer is not reset. *)
SkipShowing ==
    LET next == OrZero(row.index) + 1 IN
    /\ next < Songs
    /\ Receive(Owner, "skipClear") /\ Ask(Owner, "PLAYING_AUDIO", "commit")
    /\ Load(Owner, [row EXCEPT !.index = next])
    /\ UNCHANGED <<db, keys, finalShown, judged>>

(* SKIP_ROUND, in whatever status the room is. *)
SkipRound ==
    LET next == OrZero(row.index) + 1 IN
    /\ next < Songs
    /\ Receive(Owner, "skipClear") /\ Ask(Owner, "PLAYING_AUDIO", "commit")
    /\ Load(Owner, [row EXCEPT !.index = next, !.showAnswer = FALSE])
    /\ UNCHANGED <<db, keys, finalShown, judged>>

SkipClear ==
    /\ Step(Owner, "skipClear", "skipPlayback")
    /\ queue' = {}
    /\ UNCHANGED <<db, playSong, finalShown, session, judged>>

(* Fault: the playback is set to the song before. *)
SkipPlaybackOld ==
    /\ Step(Owner, "skipPlayback", "moveRound")
    /\ playSong' = seen[Owner].index
    /\ UNCHANGED <<db, queue, finalShown, session, judged>>

SkipPlayback ==
    /\ Step(Owner, "skipPlayback", "moveRound")
    /\ playSong' = draft[Owner].index
    /\ UNCHANGED <<db, queue, finalShown, session, judged>>

(* ROUND_END, and JUDGE_SUBMIT without scoring. *)
RoundEnd ==
    /\ Receive(Owner, "moveRound") /\ Ask(Owner, "COMPLETED", "idle")
    /\ UNCHANGED <<db, keys, finalShown, session, judged>>

RoundStateUpdate(goal) ==
    /\ Receive(Owner, "moveRound") /\ Ask(Owner, goal, "idle")
    /\ UNCHANGED <<db, keys, finalShown, session, judged>>

ShowSong ==
    /\ HasSong(row)
    /\ Receive(Owner, "commit") /\ UNCHANGED move
    /\ Load(Owner, [row EXCEPT !.showAnswer = TRUE])
    /\ UNCHANGED <<db, keys, finalShown, judged>>

(* JUDGING: the transition is checked against the loaded row, and the commit comes *)
(* after the broadcasts.                                                           *)
Judging ==
    /\ HasSong(row)
    /\ Receive(Owner, "judging") /\ UNCHANGED move
    /\ Load(Owner, IF RoundAllows(row.round, "JUDGING") THEN [row EXCEPT !.round = "JUDGING"]
                   ELSE row)
    /\ UNCHANGED <<db, keys, finalShown, judged>>

ShowJudging ==
    /\ Step(Owner, "judging", "commit")
    /\ UNCHANGED <<db, keys, finalShown, session, judged>>

-----------------------------------------------------------------------------
(* The part of ATTEMPT_ANSWER and SUBMIT_ANSWER that the row and the scores see. *)
Attempt(p) ==
    /\ row.round \in OpenStates
    /\ Receive(p, "enqueue") /\ Ask(p, "ANSWERING", "idle")
    /\ UNCHANGED <<db, keys, finalShown, session, judged>>

(* Only an attempt that pauses the music moves the round. *)
Enqueue(p) ==
    /\ pc[p] = "enqueue"
    /\ queue' = queue \cup {p}
    /\ \/ Return(p)
       \/ p \notin queue /\ Goto(p, "moveRound") /\ UNCHANGED <<move, session>>
    /\ UNCHANGED <<db, playSong, finalShown, judged>>

Answer(p) ==
    /\ row.round \in OpenStates
    /\ p \in queue
    /\ Receive(p, "save") /\ UNCHANGED move
    /\ UNCHANGED <<db, keys, finalShown, session, judged>>

SaveAnswer(p) ==
    /\ pc[p] = "save"
    /\ answers' = IF HasSong(row) THEN answers \cup {<<p, row.index>>} ELSE answers
    /\ Return(p)
    /\ UNCHANGED <<row, scores, keys, finalShown, judged>>

-----------------------------------------------------------------------------
(* JUDGE_SUBMIT, in whatever state the round and the room are. *)
JudgeSubmit ==
    /\ Len(scores) < JudgeCap
    /\ HasSong(row)
    /\ Receive(Owner, "score") /\ UNCHANGED move
    /\ Load(Owner, row)
    /\ UNCHANGED <<db, keys, finalShown, judged>>

(* Fault: points without an answer. *)
AwardsQueued(round) ==
    {d \in [Players -> Points] : \A p \in Players : d[p] > 0 => p \in queue}

(* Points go to players of the queue who answered this round. *)
Awards(round) ==
    {d \in [Players -> Points] :
        \A p \in Players : d[p] > 0 => p \in queue /\ <<p, round>> \in answers}

(* Fault: the last song but one counts as the last. *)
AfterJudgingEarly(r) ==
    LET done == RoundAllows(r.round, "COMPLETED")
        over == OrZero(r.index) + 2 >= Songs /\ RoomAllows(r.status, "ENDED")
    IN [r EXCEPT !.status = IF over THEN "ENDED" ELSE @,
                 !.round = IF over THEN "PENDING" ELSE IF done THEN "COMPLETED" ELSE @]

(* The round the judge leaves, judged by the loaded row.  end_game wants the room *)
(* RUNNING and overwrites the completed round.                                    *)
AfterJudging(r) ==
    LET done == RoundAllows(r.round, "COMPLETED")
        over == OrZero(r.index) >= Songs - 1 /\ RoomAllows(r.status, "ENDED")
    IN [r EXCEPT !.status = IF over THEN "ENDED" ELSE @,
                 !.round = IF over THEN "PENDING" ELSE IF done THEN "COMPLETED" ELSE @]

Score ==
    LET loaded == seen[Owner] IN
    /\ Step(Owner, "score", "commitScores")
    /\ \E delta \in Awards(loaded.index) :
          judged' = [round |-> loaded.index, delta |-> delta,
                     total |-> [p \in Players |->
                                  IF delta[p] > 0 THEN SumOf(scores, p) + delta[p] ELSE 0]]
    /\ draft' = [draft EXCEPT ![Owner] = AfterJudging(loaded)]
    /\ UNCHANGED <<db, keys, finalShown, seen>>

(* Fault: the end of the game is announced and not written. *)
CommitScoresOnly ==
    /\ Step(Owner, "commitScores", "showScores")
    /\ scores' = Append(scores, judged)
    /\ UNCHANGED <<row, answers, keys, finalShown, session, judged>>

CommitScores ==
    /\ Step(Owner, "commitScores", "showScores")
    /\ Write(Owner)
    /\ scores' = Append(scores, judged)
    /\ UNCHANGED <<answers, keys, finalShown, session, judged>>

(* Fault: GAME_OVER only if the last round scored. *)
ShowScoresIfScored ==
    /\ pc[Owner] = "showScores"
    /\ finalShown' = IF draft[Owner].status # seen[Owner].status /\ judged.delta # NoPoints
                     THEN scores ELSE finalShown
    /\ Return(Owner)
    /\ judged' = Judged0
    /\ UNCHANGED <<db, keys>>

(* After the commit: SCORE_UPDATE, and GAME_OVER with every row of the room's *)
(* scores, as they were read in the session.                                  *)
ShowScores ==
    /\ pc[Owner] = "showScores"
    /\ finalShown' = IF draft[Owner].status # seen[Owner].status THEN scores ELSE finalShown
    /\ Return(Owner)
    /\ judged' = Judged0
    /\ UNCHANGED <<db, keys>>

-----------------------------------------------------------------------------
PlayerRequest(p) == GameStart(p) \/ Attempt(p) \/ Answer(p)

OwnerRequest ==
    \/ SkipRound \/ RoundEnd \/ ShowSong \/ Judging \/ JudgeSubmit
    \/ \E goal \in Updates : RoundStateUpdate(goal)

OwnerStep ==
    SkipClear \/ SkipPlayback \/ ShowJudging \/ Score \/ CommitScores \/ ShowScores

HandlerStep(p) ==
    \/ MoveRound(p) \/ CommitRound(p) \/ RoundStart(p) \/ Commit(p)
    \/ Enqueue(p) \/ SaveAnswer(p)
    \/ p = Owner /\ OwnerStep

Next == OwnerRequest \/ \E p \in Players : PlayerRequest(p) \/ HandlerStep(p)

Spec == Init /\ [][Next]_vars

(* The event loop runs every started handler to its end; clients owe nothing. *)
FairSpec == Spec /\ \A p \in Players : WF_vars(HandlerStep(p))

-----------------------------------------------------------------------------
TypeOK ==
    /\ row \in Row
    /\ answers \subseteq Players \X Rounds
    /\ scores \in Seq(Judgement) /\ Len(scores) <= JudgeCap
    /\ queue \subseteq Players /\ playSong \in Rounds \cup {None}
    /\ finalShown \in Seq(Judgement)
    /\ pc \in [Players -> Labels] /\ move \in [Players -> Move]
    /\ seen \in [Players -> Row] /\ draft \in [Players -> Row]
    /\ judged \in Judgement

Game == INSTANCE GameLife WITH phase <- row.status, song <- row.index

(* The room plays the game of docs/DESIGN.md 5.5: sessions that overwrite one    *)
(* another's columns never restart it, end it early, or leave a song out.        *)
ImplementsGame == Game!Spec

(* A score row is for an answer that its player gave in that round: judging reads *)
(* the index, the queue and the answers at different times.                       *)
ScoresFollowAnswers ==
    \A k \in DOMAIN scores : \A p \in Players :
        scores[k].delta[p] > 0 => <<p, scores[k].round>> \in answers

(* total_score runs on from the player's previous row: no judgement is added to a *)
(* sum that misses or repeats another (save_score_record).                        *)
TotalsRunOn ==
    \A k \in DOMAIN scores : \A p \in Players :
        LET earlier == {i \in 1 .. k - 1 : scores[i].delta[p] > 0} IN
        scores[k].delta[p] > 0 =>
            \/ earlier = {} /\ scores[k].total[p] = scores[k].delta[p]
            \/ \E i \in earlier :
                  /\ \A j \in earlier : j <= i
                  /\ scores[k].total[p] = scores[i].total[p] + scores[k].delta[p]

(* While a game runs and the owner's requests are done, the playback in Redis and *)
(* the index in the database name the same song.                                  *)
PlaysCurrentSong ==
    row.status = "RUNNING" /\ pc[Owner] = "idle" => playSong = row.index

(* GAME_OVER is told only of a game whose end is stored, and lists stored rows:   *)
(* it is broadcast after the commit.                                              *)
FinalIsStored ==
    finalShown # <<>> =>
        /\ row.status = "ENDED"
        /\ \E n \in 0 .. Len(scores) : finalShown = SubSeq(scores, 1, n)

(* A new song is never shown with its answer: show_answer of the song before does *)
(* not outlive the step to the next index.                                        *)
NewSongHidden == [][row'.index # row.index => ~row'.showAnswer]_row

(* Whenever a game has ended the clients are told (judge_submit broadcasts after  *)
(* the commit, in the same handler).                                              *)
EndAnnounced == row.status = "ENDED" ~> finalShown # <<>>
=============================================================================
