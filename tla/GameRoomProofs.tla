--------------------------- MODULE GameRoomProofs ---------------------------
(***************************************************************************)
(* Theorems about GameRoom for every set of players, every length of the   *)
(* song list and all requests, proved with TLAPS.                          *)
(***************************************************************************)
EXTENDS GameRoom, SumLemmas, TLAPS

-----------------------------------------------------------------------------
(* Rows and sessions. *)
SessionType ==
    /\ row \in Row
    /\ pc \in [Players -> Labels] /\ move \in [Players -> Move]
    /\ seen \in [Players -> Row] /\ draft \in [Players -> Row]

(* A merged row, column by column. *)
LEMMA MergeColumns ==
    ASSUME NEW r \in Row, NEW s \in Row, NEW d \in Row
    PROVE  /\ Merge(r, s, d) \in Row
           /\ Merge(r, s, d).status = IF d.status # s.status THEN d.status ELSE r.status
           /\ Merge(r, s, d).round = IF d.round # s.round THEN d.round ELSE r.round
           /\ Merge(r, s, d).index = IF d.index # s.index THEN d.index ELSE r.index
           /\ Merge(r, s, d).showAnswer =
                 IF d.showAnswer # s.showAnswer THEN d.showAnswer ELSE r.showAnswer
<1>1. DOMAIN r = {"status", "round", "index", "showAnswer"}
  BY DEF Row
<1>2. \A c \in {"status", "round", "index", "showAnswer"} :
         Merge(r, s, d)[c] = IF d[c] # s[c] THEN d[c] ELSE r[c]
  BY <1>1 DEF Merge
<1>3. Merge(r, s, d) = [status |-> Merge(r, s, d).status, round |-> Merge(r, s, d).round,
                        index |-> Merge(r, s, d).index,
                        showAnswer |-> Merge(r, s, d).showAnswer]
  BY <1>1 DEF Merge
<1>. QED  BY <1>2, <1>3 DEF Row

(* A session that changed nothing writes nothing. *)
LEMMA MergeNothing ==
    ASSUME NEW r \in Row, NEW s \in Row
    PROVE  Merge(r, s, s) = r
BY DEF Merge, Row

-----------------------------------------------------------------------------
(* The types of rows and sessions are inductive: what a handler asks a session to *)
(* write is a row.                                                                *)
LEMMA InitSession == Init => SessionType
BY RoomAssumption DEF Init, SessionType, Row, Row0, Move, Move0, Labels, RoomStatuses,
                      RoundStates, Rounds

LEMMA ReturnSession ==
    ASSUME SessionType, NEW p \in Players, Return(p), row' \in Row
    PROVE  SessionType'
<1>1. Row0 \in Row /\ Move0 \in Move /\ "idle" \in Labels
  BY DEF Row, Row0, Move, Move0, Labels, RoomStatuses, RoundStates
<1>. QED  BY <1>1 DEF SessionType, Return, Goto

(* The row that a handler leaves in its session is one. *)
LEMMA DraftsTyped ==
    ASSUME NEW r \in Row
    PROVE  /\ [status |-> "RUNNING", round |-> "PENDING", index |-> 0, showAnswer |-> FALSE] \in Row
           /\ OrZero(r.index) + 1 < Songs =>
                 [r EXCEPT !.index = OrZero(r.index) + 1, !.showAnswer = FALSE] \in Row
           /\ [r EXCEPT !.showAnswer = TRUE] \in Row
           /\ [r EXCEPT !.round = "JUDGING"] \in Row
           /\ AfterJudging(r) \in Row
<1>1. 0 \in Rounds /\ None \notin Nat
  BY RoomAssumption DEF Rounds
<1>2. ASSUME OrZero(r.index) + 1 < Songs PROVE OrZero(r.index) + 1 \in Rounds
  BY <1>1, <1>2, RoomAssumption DEF OrZero, Row, Rounds
<1>3. AfterJudging(r) \in Row
  <2>1. ASSUME NEW st \in RoomStatuses, NEW rd \in RoundStates
        PROVE  [r EXCEPT !.status = st, !.round = rd] \in Row
    BY DEF Row
  <2>2. r.status \in RoomStatuses /\ r.round \in RoundStates
    BY DEF Row
  <2>3. {"ENDED"} \subseteq RoomStatuses /\ {"PENDING", "COMPLETED"} \subseteq RoundStates
    BY DEF RoomStatuses, RoundStates
  <2>. DEFINE over == OrZero(r.index) >= Songs - 1 /\ RoomAllows(r.status, "ENDED")
              done == RoundAllows(r.round, "COMPLETED")
              st == IF over THEN "ENDED" ELSE r.status
              rd == IF over THEN "PENDING" ELSE IF done THEN "COMPLETED" ELSE r.round
  <2>4. st \in RoomStatuses /\ rd \in RoundStates
    BY <2>2, <2>3
  <2>5. AfterJudging(r) = [r EXCEPT !.status = st, !.round = rd]
    BY Zenon DEF AfterJudging
  <2>. HIDE DEF st, rd, over, done
  <2>. QED  BY <2>1, <2>4, <2>5
<1>4. [status |-> "RUNNING", round |-> "PENDING", index |-> 0, showAnswer |-> FALSE] \in Row
  BY <1>1 DEF Row, RoomStatuses, RoundStates
<1>5. [r EXCEPT !.showAnswer = TRUE] \in Row
  BY DEF Row
<1>6. [r EXCEPT !.round = "JUDGING"] \in Row
  BY DEF Row, RoundStates
<1>7. ASSUME OrZero(r.index) + 1 < Songs
      PROVE  [r EXCEPT !.index = OrZero(r.index) + 1, !.showAnswer = FALSE] \in Row
  BY <1>2, <1>7 DEF Row
<1>. QED  BY <1>3, <1>4, <1>5, <1>6, <1>7

(* A step that touches p's session only, and leaves the row alone. *)
LEMMA OneSession ==
    ASSUME SessionType, NEW p \in Players, row' = row,
           NEW l \in Labels, Goto(p, l),
           move' = move \/ \E m \in Move : move' = [move EXCEPT ![p] = m],
           seen' = seen \/ seen' = [seen EXCEPT ![p] = row],
           draft' = draft \/ \E d \in Row : draft' = [draft EXCEPT ![p] = d]
    PROVE  SessionType'
BY DEF SessionType, Goto

LEMMA WriteTyped ==
    ASSUME SessionType, NEW p \in Players, Write(p)
    PROVE  row' \in Row
BY MergeColumns DEF SessionType, Write

LEMMA SharedSession ==
    ASSUME SessionType, NEW p \in Players,
           \/ MoveRound(p) \/ CommitRound(p) \/ RoundStart(p) \/ Commit(p)
           \/ Enqueue(p) \/ SaveAnswer(p)
    PROVE  SessionType'
<1>. USE DEF db, session, Step
<1>0. ASSUME row' \in Row, Proceed(p) PROVE SessionType'
  <2>1. CASE Return(p)
    BY <1>0, <2>1, ReturnSession
  <2>2. CASE Goto(p, move[p].then) /\ UNCHANGED <<move, session>>
    BY <1>0, <2>2 DEF SessionType, Goto, Move, Labels
  <2>. QED  BY <1>0, <2>1, <2>2 DEF Proceed
<1>1. CASE MoveRound(p)
  <2>1. row' = row
    BY <1>1 DEF MoveRound
  <2>2. CASE Proceed(p)
    BY <1>0, <2>1, <2>2 DEF SessionType
  <2>3. CASE Goto(p, "commitRound") /\ UNCHANGED <<move, session>>
    BY <2>1, <2>3, OneSession DEF Labels
  <2>. QED  BY <1>1, <2>2, <2>3 DEF MoveRound
<1>2. CASE CommitRound(p)
  BY <1>0, <1>2 DEF CommitRound, SessionType, Row, Move
<1>3. CASE RoundStart(p)
  BY <1>3, OneSession DEF RoundStart, Labels
<1>4. CASE Commit(p)
  BY <1>4, WriteTyped, ReturnSession DEF Commit
<1>5. CASE Enqueue(p)
  BY <1>5, ReturnSession, OneSession DEF Enqueue, Labels, SessionType
<1>6. CASE SaveAnswer(p)
  BY <1>6, ReturnSession DEF SaveAnswer, SessionType
<1>. QED  BY <1>1, <1>2, <1>3, <1>4, <1>5, <1>6

LEMMA RequestSession ==
    ASSUME SessionType, NEW p \in Players, PlayerRequest(p) \/ (p = Owner /\ OwnerRequest)
    PROVE  SessionType'
<1>. USE DEF db, session, Receive, Load, Ask
<1>. /\ row \in Row
     /\ {"moveRound", "skipClear", "commit", "judging", "enqueue", "save", "score"} \subseteq Labels
     /\ \A g \in RoundStates : \A t \in {"idle", "roundStart", "commit"} :
            [goal |-> g, then |-> t] \in Move
     /\ {"PLAYING_AUDIO", "COMPLETED", "ANSWERING"} \cup Updates \subseteq RoundStates
  BY RoomAssumption DEF SessionType, Labels, Move, RoundStates
<1>1. CASE GameStart(p)
  BY <1>1, OneSession, DraftsTyped DEF GameStart
<1>2. CASE Attempt(p)
  BY <1>2, OneSession DEF Attempt
<1>3. CASE Answer(p)
  BY <1>3, OneSession DEF Answer
<1>4. CASE p = Owner /\ SkipRound
  BY <1>4, OneSession, DraftsTyped DEF SkipRound
<1>5. CASE p = Owner /\ RoundEnd
  BY <1>5, OneSession DEF RoundEnd
<1>6. CASE p = Owner /\ \E goal \in Updates : RoundStateUpdate(goal)
  BY <1>6, OneSession DEF RoundStateUpdate
<1>7. CASE p = Owner /\ ShowSong
  BY <1>7, OneSession, DraftsTyped DEF ShowSong
<1>8. CASE p = Owner /\ Judging
  BY <1>8, OneSession, DraftsTyped DEF Judging
<1>9. CASE p = Owner /\ JudgeSubmit
  BY <1>9, OneSession DEF JudgeSubmit
<1>. QED  BY <1>1, <1>2, <1>3, <1>4, <1>5, <1>6, <1>7, <1>8, <1>9 DEF PlayerRequest, OwnerRequest

LEMMA OwnerSession ==
    ASSUME SessionType, OwnerStep
    PROVE  SessionType'
<1>. Owner \in Players
  BY RoomAssumption
<1>. USE DEF db, session, Step
<1>1. CASE SkipClear
  BY <1>1, OneSession DEF SkipClear, Labels
<1>2. CASE SkipPlayback
  BY <1>2, OneSession DEF SkipPlayback, Labels
<1>3. CASE ShowJudging
  BY <1>3, OneSession DEF ShowJudging, Labels
<1>4. CASE Score
  <2>1. AfterJudging(seen[Owner]) \in Row
    BY DraftsTyped DEF SessionType
  <2>. QED  BY <1>4, <2>1, OneSession DEF Score, Labels
<1>5. CASE CommitScores
  BY <1>5, WriteTyped DEF CommitScores, SessionType, Goto, Labels
<1>6. CASE ShowScores
  BY <1>6, ReturnSession DEF ShowScores, SessionType
<1>. QED  BY <1>1, <1>2, <1>3, <1>4, <1>5, <1>6 DEF OwnerStep

LEMMA SessionStep == SessionType /\ [Next]_vars => SessionType'
<1>. SUFFICES ASSUME SessionType, [Next]_vars PROVE SessionType'
  OBVIOUS
<1>1. CASE UNCHANGED vars
  BY <1>1 DEF SessionType, vars, db, session
<1>2. CASE Next
  BY <1>2, RequestSession, SharedSession, OwnerSession, RoomAssumption DEF Next, HandlerStep
<1>. QED  BY <1>1, <1>2

-----------------------------------------------------------------------------
(* ScoresFollowAnswers.  Between Score and CommitScores the rows are in the          *)
(* session: what they hold must be kept too.  answers only grows, and the judgement  *)
(* is made of answers that were stored.                                              *)
ScoresInv ==
    /\ \E X : scores \in Seq(X)
    /\ ScoresFollowAnswers
    /\ \A p \in Players : judged.delta[p] > 0 => <<p, judged.round>> \in answers

LEMMA ScoresStep ==
    ASSUME ScoresInv, [Next]_vars
    PROVE  ScoresInv'
<1>. USE DEF db, keys, session
<1>1. ASSUME answers \subseteq answers', UNCHANGED <<scores, judged>>
      PROVE  ScoresInv'
  BY <1>1 DEF ScoresInv, ScoresFollowAnswers
<1>2. CASE UNCHANGED vars
  BY <1>1, <1>2 DEF vars
<1>3. CASE OwnerRequest
  BY <1>1, <1>3 DEF OwnerRequest, SkipRound, RoundEnd, ShowSong, Judging, JudgeSubmit,
                    RoundStateUpdate
<1>4. ASSUME NEW p \in Players, PlayerRequest(p) PROVE ScoresInv'
  BY <1>1, <1>4 DEF PlayerRequest, GameStart, Attempt, Answer
<1>5. ASSUME NEW p \in Players,
             \/ MoveRound(p) \/ CommitRound(p) \/ RoundStart(p) \/ Commit(p)
             \/ Enqueue(p) \/ SaveAnswer(p)
      PROVE  ScoresInv'
  BY <1>1, <1>5 DEF MoveRound, CommitRound, RoundStart, Commit, Enqueue, SaveAnswer
<1>6. CASE SkipClear \/ SkipPlayback \/ ShowJudging
  BY <1>1, <1>6 DEF SkipClear, SkipPlayback, ShowJudging
<1>7. CASE Score
  <2>1. PICK delta \in Awards(seen[Owner].index) :
          /\ judged'.round = seen[Owner].index /\ judged'.delta = delta
    BY <1>7 DEF Score
  <2>2. \A p \in Players : judged'.delta[p] > 0 => <<p, judged'.round>> \in answers
    BY <2>1 DEF Awards
  <2>. QED  BY <1>7, <2>2 DEF Score, ScoresInv, ScoresFollowAnswers
<1>8. CASE CommitScores
  <2>1. scores' = Append(scores, judged) /\ answers' = answers /\ judged' = judged
    BY <1>8 DEF CommitScores
  <2>2. PICK X : scores \in Seq(X)
    BY DEF ScoresInv
  <2>3. scores \in Seq(X \cup {judged}) /\ judged \in X \cup {judged}
    BY <2>2
  <2>4. scores' \in Seq(X \cup {judged}) /\ DOMAIN scores' = 1 .. Len(scores) + 1
    BY <2>1, <2>3
  <2>5. \A k \in 1 .. Len(scores) + 1 :
          scores'[k] = IF k <= Len(scores) THEN scores[k] ELSE judged
    BY <2>1, <2>3
  <2>6. ASSUME NEW k \in DOMAIN scores', NEW p \in Players, scores'[k].delta[p] > 0
        PROVE  <<p, scores'[k].round>> \in answers'
    <3>1. CASE k <= Len(scores)
      BY <2>1, <2>2, <2>4, <2>5, <2>6, <3>1 DEF ScoresInv, ScoresFollowAnswers
    <3>2. CASE ~(k <= Len(scores))
      BY <2>1, <2>4, <2>5, <2>6, <3>2 DEF ScoresInv
    <3>. QED  BY <3>1, <3>2
  <2>. QED  BY <2>1, <2>4, <2>6 DEF ScoresInv, ScoresFollowAnswers
<1>9. CASE ShowScores
  <2>1. judged' = Judged0 /\ scores' = scores /\ answers' = answers
    BY <1>9 DEF ShowScores
  <2>2. \A p \in Players : ~(judged'.delta[p] > 0)
    BY <2>1 DEF Judged0, NoPoints
  <2>. QED  BY <2>1, <2>2 DEF ScoresInv, ScoresFollowAnswers
<1>. QED  BY <1>2, <1>3, <1>4, <1>5, <1>6, <1>7, <1>8, <1>9 DEF Next, HandlerStep, OwnerStep

(* No points without an answer in the round that is paid: whatever players, songs  *)
(* and points there are, and whoever starts, skips or submits while the judge's    *)
(* handler waits (handle_judge_submit reads the row, the queue and the answers one *)
(* after another).                                                                 *)
THEOREM ScoresFollow == Spec => []ScoresFollowAnswers
<1>1. Init => ScoresInv
  <2>. SUFFICES ASSUME Init PROVE ScoresInv
    OBVIOUS
  <2>1. scores = <<>> /\ judged = Judged0
    BY DEF Init
  <2>2. scores \in Seq({}) /\ DOMAIN scores = {}
    BY <2>1
  <2>. QED  BY <2>1, <2>2 DEF ScoresInv, ScoresFollowAnswers, Judged0, NoPoints
<1>2. ScoresInv /\ [Next]_vars => ScoresInv'
  BY ScoresStep
<1>3. ScoresInv => ScoresFollowAnswers
  BY DEF ScoresInv
<1>. QED  BY <1>1, <1>2, <1>3, PTL DEF Spec

-----------------------------------------------------------------------------
(* ImplementsGame and NewSongHidden, where only the owner's client starts games.  A *)
(* session writes what it changed over what others wrote since it loaded the row:   *)
(* the game survives this because only the owner's sessions change its columns, one *)
(* at a time, and so the row still is, in these columns, as the session loaded it.  *)
Agree(s) == row.status = s.status /\ row.index = s.index /\ row.showAnswer = s.showAnswer

(* What a handler of the owner may do to a loaded row s. *)
Change(s, d) ==
    \/ d.status = s.status /\ d.index = s.index
    \/ s.status = "WAITING" /\ d.status = "RUNNING" /\ d.index = 0 /\ ~d.showAnswer
    \/ /\ d.status = s.status /\ ~d.showAnswer
       /\ d.index = OrZero(s.index) + 1 /\ d.index < Songs
    \/ /\ s.status = "RUNNING" /\ d.status = "ENDED"
       /\ d.index = s.index /\ s.index = Songs - 1

OthersReadOnly == \A p \in Players : p # Owner => draft[p] = seen[p]

OwnerUpToDate ==
    \/ draft[Owner] = seen[Owner]
    \/ pc[Owner] = "showScores"
    \/ Agree(seen[Owner]) /\ Change(seen[Owner], draft[Owner])

JudgeUpToDate ==
    pc[Owner] = "score" =>
        draft[Owner] = seen[Owner] /\ Agree(seen[Owner]) /\ seen[Owner].index # None

OwnerInv == SessionType /\ OthersReadOnly /\ OwnerUpToDate /\ JudgeUpToDate

(* What a step does to the columns of the game. *)
GameStep ==
    /\ [Game!Next]_<<row.status, row.index>>
    /\ row'.index # row.index => ~row'.showAnswer

LEMMA OwnerWrites ==
    ASSUME OwnerInv, Write(Owner), pc[Owner] # "showScores"
    PROVE  GameStep
<1>. DEFINE s == seen[Owner]  d == draft[Owner]
<1>1. row \in Row /\ s \in Row /\ d \in Row
  BY RoomAssumption DEF OwnerInv, SessionType
<1>2. /\ row'.status = IF d.status # s.status THEN d.status ELSE row.status
      /\ row'.index = IF d.index # s.index THEN d.index ELSE row.index
      /\ row'.showAnswer = IF d.showAnswer # s.showAnswer THEN d.showAnswer ELSE row.showAnswer
  BY <1>1, MergeColumns DEF Write
<1>3. CASE d = s
  BY <1>2, <1>3 DEF GameStep
<1>4. CASE Agree(s) /\ Change(s, d)
  <2>1. row'.status = d.status /\ row'.index = d.index /\ row'.showAnswer = d.showAnswer
    BY <1>2, <1>4 DEF Agree
  <2>2. row.status = s.status /\ row.index = s.index
    BY <1>4 DEF Agree
  <2>3. CASE d.status = s.status /\ d.index = s.index
    BY <2>1, <2>2, <2>3 DEF GameStep
  <2>4. CASE s.status = "WAITING" /\ d.status = "RUNNING" /\ d.index = 0 /\ ~d.showAnswer
    BY <2>1, <2>2, <2>4 DEF GameStep, Game!Next, Game!Begin
  <2>5. CASE /\ d.status = s.status /\ ~d.showAnswer
             /\ d.index = OrZero(s.index) + 1 /\ d.index < Songs
    <3>1. d.index = IF s.index = None THEN 1 ELSE s.index + 1
      BY <2>5 DEF OrZero
    <3>. QED  BY <2>1, <2>2, <2>5, <3>1 DEF GameStep, Game!Next, Game!NextSong
  <2>6. CASE /\ s.status = "RUNNING" /\ d.status = "ENDED"
             /\ d.index = s.index /\ s.index = Songs - 1
    BY <2>1, <2>2, <2>6 DEF GameStep, Game!Next, Game!End
  <2>. QED  BY <1>4, <2>3, <2>4, <2>5, <2>6 DEF Change
<1>. QED  BY <1>3, <1>4 DEF OwnerInv, OwnerUpToDate

(* A step that leaves the owner's session and the columns of the game alone. *)
LEMMA OwnerKept ==
    ASSUME OwnerInv, SessionType', OthersReadOnly',
           row'.status = row.status, row'.index = row.index, row'.showAnswer = row.showAnswer,
           seen'[Owner] = seen[Owner], draft'[Owner] = draft[Owner],
           pc[Owner] = "showScores" => pc'[Owner] = "showScores",
           pc'[Owner] = "score" => pc[Owner] = "score"
    PROVE  OwnerInv' /\ GameStep
<1>1. OwnerUpToDate' /\ JudgeUpToDate'
  BY DEF OwnerInv, OwnerUpToDate, JudgeUpToDate, Agree, Change
<1>. QED  BY <1>1 DEF OwnerInv, GameStep

(* A handler of the owner returns. *)
LEMMA OwnerReturns ==
    ASSUME OwnerInv, SessionType', Return(Owner)
    PROVE  OwnerInv'
<1>1. pc'[Owner] = "idle" /\ seen'[Owner] = Row0 /\ draft'[Owner] = Row0
  BY RoomAssumption DEF OwnerInv, SessionType, Return, Goto
<1>2. \A p \in Players : p # Owner => seen'[p] = seen[p] /\ draft'[p] = draft[p]
  BY RoomAssumption DEF OwnerInv, SessionType, Return
<1>. QED  BY <1>1, <1>2 DEF OwnerInv, OthersReadOnly, OwnerUpToDate, JudgeUpToDate

(* A handler of the owner loads the row. *)
LEMMA OwnerLoads ==
    ASSUME OwnerInv, SessionType', row' = row, NEW r, Load(Owner, r), Change(row, r),
           pc'[Owner] = "score" => r = row /\ row.index # None
    PROVE  OwnerInv' /\ GameStep
<1>1. seen'[Owner] = row /\ draft'[Owner] = r
  BY RoomAssumption DEF OwnerInv, SessionType, Load
<1>2. \A p \in Players : p # Owner => seen'[p] = seen[p] /\ draft'[p] = draft[p]
  BY RoomAssumption DEF OwnerInv, SessionType, Load
<1>3. Agree(row)' /\ Change(row, r)'
  BY DEF Agree, Change
<1>4. OwnerUpToDate' /\ JudgeUpToDate'
  BY <1>1, <1>3 DEF OwnerUpToDate, JudgeUpToDate, Agree, Change
<1>. QED  BY <1>2, <1>4 DEF OwnerInv, OthersReadOnly, GameStep

(* The requests of the owner: each loads the row, or touches no session. *)
LEMMA RequestKeeps ==
    ASSUME OwnerInv, SessionType',
           OwnerRequest \/ GameStart(Owner) \/ Attempt(Owner) \/ Answer(Owner)
    PROVE  OwnerInv' /\ GameStep
<1>. USE DEF db, session
<1>. SessionType /\ row \in Row /\ Owner \in Players /\ None \notin Nat
  BY RoomAssumption DEF OwnerInv, SessionType
<1>1. ASSUME NEW l, Receive(Owner, l)
      PROVE  pc[Owner] = "idle" /\ pc'[Owner] = l
  BY <1>1 DEF Receive, Goto, SessionType
<1>2. ASSUME NEW l, l \notin {"showScores", "score"}, Receive(Owner, l),
             row' = row, UNCHANGED session
      PROVE  OwnerInv' /\ GameStep
  BY <1>1, <1>2, OwnerKept DEF OwnerInv, OthersReadOnly
<1>3. CASE GameStart(Owner)
  <2>. DEFINE r == [status |-> "RUNNING", round |-> "PENDING", index |-> 0,
                    showAnswer |-> FALSE]
  <2>1. row.status = "WAITING"
    BY <1>3 DEF GameStart, RoomAllows, RoomTargets, Row, RoomStatuses
  <2>2. Change(row, r)
    BY <2>1 DEF Change
  <2>3. Load(Owner, r) /\ row' = row /\ pc'[Owner] # "score"
    BY <1>1, <1>3 DEF GameStart
  <2>. HIDE DEF r
  <2>. QED  BY <2>2, <2>3, OwnerLoads
<1>4. CASE Attempt(Owner) \/ Answer(Owner)
  BY <1>2, <1>4 DEF Attempt, Answer
<1>5. CASE SkipRound
  <2>. DEFINE r == [row EXCEPT !.index = OrZero(row.index) + 1, !.showAnswer = FALSE]
  <2>1. Load(Owner, r) /\ row' = row /\ pc'[Owner] # "score" /\ OrZero(row.index) + 1 < Songs
    BY <1>1, <1>5 DEF SkipRound
  <2>2. /\ r.status = row.status /\ r.index = OrZero(row.index) + 1
        /\ ~r.showAnswer
    BY DEF Row
  <2>. HIDE DEF r
  <2>3. Change(row, r)
    BY <2>1, <2>2 DEF Change
  <2>. QED  BY <2>1, <2>3, OwnerLoads
<1>6. CASE RoundEnd \/ \E goal \in Updates : RoundStateUpdate(goal)
  BY <1>2, <1>6 DEF RoundEnd, RoundStateUpdate
<1>7. CASE ShowSong
  <2>1. Change(row, [row EXCEPT !.showAnswer = TRUE])
    BY DEF Change, Row
  <2>2. Load(Owner, [row EXCEPT !.showAnswer = TRUE]) /\ row' = row /\ pc'[Owner] # "score"
    BY <1>1, <1>7 DEF ShowSong
  <2>. QED  BY <2>1, <2>2, OwnerLoads
<1>8. CASE Judging
  <2>1. PICK r : Load(Owner, r) /\ r \in {row, [row EXCEPT !.round = "JUDGING"]}
    BY <1>8 DEF Judging
  <2>2. Change(row, r)
    BY <2>1 DEF Change, Row
  <2>3. row' = row /\ pc'[Owner] # "score"
    BY <1>1, <1>8 DEF Judging
  <2>. QED  BY <2>1, <2>2, <2>3, OwnerLoads
<1>9. CASE JudgeSubmit
  <2>1. Change(row, row)
    BY DEF Change
  <2>2. Load(Owner, row) /\ row' = row /\ row.index # None
    BY <1>9 DEF JudgeSubmit, HasSong
  <2>. QED  BY <2>1, <2>2, OwnerLoads
<1>. QED  BY <1>3, <1>4, <1>5, <1>6, <1>7, <1>8, <1>9 DEF OwnerRequest

(* The judge decides on the row as he loaded it: it is still that row. *)
LEMMA ScoreKeeps ==
    ASSUME OwnerInv, SessionType', Score
    PROVE  OwnerInv' /\ GameStep
<1>. DEFINE s == seen[Owner]
<1>. SessionType /\ s \in Row /\ Owner \in Players
  BY RoomAssumption DEF OwnerInv, SessionType
<1>1. /\ draft' = [draft EXCEPT ![Owner] = AfterJudging(s)] /\ seen' = seen /\ row' = row
      /\ pc' = [pc EXCEPT ![Owner] = "commitScores"] /\ pc[Owner] = "score"
  BY DEF Score, Step, Goto, db
<1>2. Agree(s) /\ s.index # None
  BY <1>1 DEF OwnerInv, JudgeUpToDate
<1>3. /\ AfterJudging(s).index = s.index
      /\ AfterJudging(s).status =
            IF OrZero(s.index) >= Songs - 1 /\ RoomAllows(s.status, "ENDED")
            THEN "ENDED" ELSE s.status
  BY DEF AfterJudging, Row
<1>4. s.index \in Rounds /\ OrZero(s.index) = s.index
  BY <1>2 DEF Row, OrZero
<1>5. RoomAllows(s.status, "ENDED") => s.status = "RUNNING"
  BY DEF RoomAllows, RoomTargets, Row, RoomStatuses
<1>6. Change(s, AfterJudging(s))
  <2>1. CASE OrZero(s.index) >= Songs - 1 /\ RoomAllows(s.status, "ENDED")
    <3>1. s.index = Songs - 1
      BY <1>4, <2>1, RoomAssumption DEF Rounds
    <3>. QED  BY <1>3, <1>5, <2>1, <3>1 DEF Change
  <2>2. CASE ~(OrZero(s.index) >= Songs - 1 /\ RoomAllows(s.status, "ENDED"))
    BY <1>3, <2>2 DEF Change
  <2>. QED  BY <2>1, <2>2
<1>7. /\ draft'[Owner] = AfterJudging(s) /\ seen'[Owner] = s /\ pc'[Owner] = "commitScores"
      /\ \A p \in Players : p # Owner => draft'[p] = draft[p] /\ seen'[p] = seen[p]
  BY <1>1 DEF SessionType
<1>8. OwnerUpToDate' /\ JudgeUpToDate' /\ OthersReadOnly'
  BY <1>1, <1>2, <1>6, <1>7
     DEF OwnerUpToDate, JudgeUpToDate, OthersReadOnly, OwnerInv, Agree, Change
<1>. QED  BY <1>1, <1>8 DEF OwnerInv, GameStep

(* The other steps of the owner's handlers. *)
LEMMA OwnerKeeps ==
    ASSUME OwnerInv, SessionType',
           \/ MoveRound(Owner) \/ CommitRound(Owner) \/ RoundStart(Owner) \/ Commit(Owner)
           \/ Enqueue(Owner) \/ SaveAnswer(Owner) \/ OwnerStep
    PROVE  OwnerInv' /\ GameStep
<1>. USE DEF db, session, Step
<1>. SessionType /\ row \in Row /\ Owner \in Players
  BY RoomAssumption DEF OwnerInv, SessionType
<1>1. ASSUME NEW l \in {"idle", "roundStart", "commit", "commitRound", "moveRound",
                        "skipPlayback", "commitScores"},
             Goto(Owner, l), pc[Owner] # "showScores", UNCHANGED session,
             row'.status = row.status, row'.index = row.index,
             row'.showAnswer = row.showAnswer
      PROVE  OwnerInv' /\ GameStep
  <2>1. pc'[Owner] = l
    BY <1>1 DEF Goto, SessionType
  <2>2. OthersReadOnly'
    BY <1>1 DEF OwnerInv, OthersReadOnly
  <2>. QED  BY <1>1, <2>1, <2>2, OwnerKept
<1>2. ASSUME Return(Owner),
             row'.status = row.status /\ row'.index = row.index
      PROVE  OwnerInv' /\ GameStep
  BY <1>2, OwnerReturns DEF GameStep
<1>3. ASSUME Proceed(Owner), pc[Owner] # "showScores",
             row'.status = row.status, row'.index = row.index,
             row'.showAnswer = row.showAnswer
      PROVE  OwnerInv' /\ GameStep
  <2>1. move[Owner].then \in {"idle", "roundStart", "commit"}
    BY DEF SessionType, Move
  <2>. QED  BY <1>1, <1>2, <1>3, <2>1 DEF Proceed
<1>4. CASE MoveRound(Owner)
  <2>1. pc[Owner] = "moveRound" /\ row' = row
    BY <1>4 DEF MoveRound
  <2>2. Proceed(Owner) \/ (Goto(Owner, "commitRound") /\ UNCHANGED session)
    BY <1>4 DEF MoveRound
  <2>. QED  BY <1>1, <1>3, <2>1, <2>2
<1>5. CASE CommitRound(Owner)
  <2>1. /\ pc[Owner] = "commitRound" /\ Proceed(Owner)
        /\ row' = [row EXCEPT !.round = move[Owner].goal]
    BY <1>5 DEF CommitRound
  <2>2. /\ row'.status = row.status /\ row'.index = row.index
        /\ row'.showAnswer = row.showAnswer
    BY <2>1 DEF Row
  <2>. QED  BY <1>3, <2>1, <2>2
<1>6. CASE RoundStart(Owner)
  <2>1. pc[Owner] = "roundStart" /\ Goto(Owner, "commit") /\ UNCHANGED <<session, row>>
    BY <1>6 DEF RoundStart
  <2>. QED  BY <1>1, <2>1
<1>7. CASE Commit(Owner)
  <2>1. pc[Owner] = "commit" /\ Write(Owner) /\ Return(Owner)
    BY <1>7 DEF Commit
  <2>. QED  BY <2>1, OwnerWrites, OwnerReturns
<1>8. CASE Enqueue(Owner)
  <2>1. pc[Owner] = "enqueue" /\ row' = row
    BY <1>8 DEF Enqueue
  <2>2. Return(Owner) \/ (Goto(Owner, "moveRound") /\ UNCHANGED session)
    BY <1>8 DEF Enqueue
  <2>. QED  BY <1>1, <1>2, <2>1, <2>2
<1>9. CASE SaveAnswer(Owner)
  BY <1>2, <1>9 DEF SaveAnswer
<1>10. CASE SkipClear
  <2>1. pc[Owner] = "skipClear" /\ Goto(Owner, "skipPlayback") /\ UNCHANGED <<session, row>>
    BY <1>10 DEF SkipClear
  <2>. QED  BY <1>1, <2>1
<1>11. CASE SkipPlayback
  <2>1. pc[Owner] = "skipPlayback" /\ Goto(Owner, "moveRound") /\ UNCHANGED <<session, row>>
    BY <1>11 DEF SkipPlayback
  <2>. QED  BY <1>1, <2>1
<1>12. CASE ShowJudging
  <2>1. pc[Owner] = "judging" /\ Goto(Owner, "commit") /\ UNCHANGED <<session, row>>
    BY <1>12 DEF ShowJudging
  <2>. QED  BY <1>1, <2>1
<1>13. CASE Score
  BY <1>13, ScoreKeeps
<1>14. CASE CommitScores
  <2>1. /\ pc[Owner] = "commitScores" /\ pc'[Owner] = "showScores"
        /\ Write(Owner) /\ seen' = seen /\ draft' = draft
    BY <1>14 DEF CommitScores, Goto, SessionType
  <2>2. OthersReadOnly' /\ OwnerUpToDate' /\ JudgeUpToDate'
    BY <2>1 DEF OwnerInv, OthersReadOnly, OwnerUpToDate, JudgeUpToDate
  <2>. QED  BY <2>1, <2>2, OwnerWrites DEF OwnerInv
<1>15. CASE ShowScores
  BY <1>2, <1>15 DEF ShowScores
<1>. QED  BY <1>4, <1>5, <1>6, <1>7, <1>8, <1>9, <1>10, <1>11, <1>12, <1>13, <1>14, <1>15
          DEF OwnerStep

(* The handlers of the others write nothing but a round state: a session of theirs *)
(* changes nothing, for they do not start the game.                                *)
LEMMA OthersKeep ==
    ASSUME OwnerInv, SessionType', Starters \subseteq {Owner},
           NEW p \in Players, p # Owner, PlayerRequest(p) \/ HandlerStep(p)
    PROVE  OwnerInv' /\ GameStep
<1>. USE DEF db, session, Step, Receive
<1>. SessionType /\ row \in Row /\ Owner \in Players /\ draft[p] = seen[p]
  BY RoomAssumption DEF OwnerInv, SessionType, OthersReadOnly
<1>1. ASSUME row'.status = row.status, row'.index = row.index,
             row'.showAnswer = row.showAnswer,
             (UNCHANGED session /\ \E l : Goto(p, l)) \/ Return(p)
      PROVE  OwnerInv' /\ GameStep
  <2>1. pc'[Owner] = pc[Owner] /\ seen'[Owner] = seen[Owner] /\ draft'[Owner] = draft[Owner]
    BY <1>1 DEF Goto, Return, SessionType
  <2>2. OthersReadOnly'
    <3>1. CASE UNCHANGED session
      BY <3>1 DEF OwnerInv, OthersReadOnly
    <3>2. CASE Return(p)
      BY <3>2 DEF Return, SessionType, OwnerInv, OthersReadOnly
    <3>. QED  BY <1>1, <3>1, <3>2
  <2>. QED  BY <1>1, <2>1, <2>2, OwnerKept
<1>2. ASSUME NEW l, Goto(p, l) PROVE \E m : Goto(p, m)
  BY <1>2
<1>3. Proceed(p) => (UNCHANGED session /\ \E l : Goto(p, l)) \/ Return(p)
  BY DEF Proceed
<1>4. CASE Attempt(p) \/ Answer(p)
  BY <1>1, <1>4 DEF Attempt, Answer
<1>5. CASE MoveRound(p)
  BY <1>1, <1>3, <1>5 DEF MoveRound
<1>6. CASE CommitRound(p)
  <2>1. Proceed(p) /\ row' = [row EXCEPT !.round = move[p].goal]
    BY <1>6 DEF CommitRound
  <2>2. /\ row'.status = row.status /\ row'.index = row.index
        /\ row'.showAnswer = row.showAnswer
    BY <2>1 DEF Row
  <2>. QED  BY <1>1, <1>3, <2>1, <2>2
<1>7. CASE RoundStart(p)
  BY <1>1, <1>7 DEF RoundStart
<1>8. CASE Commit(p)
  <2>1. row' = row
    BY <1>8, MergeNothing DEF Commit, Write, SessionType
  <2>. QED  BY <1>1, <1>8, <2>1 DEF Commit
<1>9. CASE Enqueue(p)
  BY <1>1, <1>9 DEF Enqueue
<1>10. CASE SaveAnswer(p)
  BY <1>1, <1>10 DEF SaveAnswer
<1>. QED  BY <1>4, <1>5, <1>6, <1>7, <1>8, <1>9, <1>10 DEF PlayerRequest, GameStart, HandlerStep

LEMMA OwnerInvStep ==
    ASSUME OwnerInv, [Next]_vars, Starters \subseteq {Owner}
    PROVE  OwnerInv' /\ GameStep
<1>1. SessionType'
  BY SessionStep DEF OwnerInv
<1>2. CASE UNCHANGED vars
  BY <1>1, <1>2, OwnerKept DEF OwnerInv, OthersReadOnly, vars, db, session
<1>3. CASE OwnerRequest
  BY <1>1, <1>3, RequestKeeps
<1>4. ASSUME NEW p \in Players, PlayerRequest(p) \/ HandlerStep(p)
      PROVE  OwnerInv' /\ GameStep
  <2>1. CASE p = Owner
    BY <1>1, <1>4, <2>1, RequestKeeps, OwnerKeeps DEF PlayerRequest, HandlerStep
  <2>2. CASE p # Owner
    BY <1>1, <1>4, <2>2, OthersKeep
  <2>. QED  BY <2>1, <2>2
<1>. QED  BY <1>2, <1>3, <1>4 DEF Next

LEMMA OwnerInvInit == Init => OwnerInv
BY InitSession, RoomAssumption DEF Init, OwnerInv, OthersReadOnly, OwnerUpToDate, JudgeUpToDate

(* The room plays the game of GameLife, for every number of players and songs: it *)
(* starts once, at the first song, leaves none out, and ends once, at the last,   *)
(* although every handler writes a row it loaded awaits ago.  Its assumption is   *)
(* the run's: only the owner's client sends GAME_START.                           *)
THEOREM PlaysTheGame ==
    ASSUME Starters \subseteq {Owner}
    PROVE  Spec => ImplementsGame
<1>1. Init => Game!Init
  BY DEF Init, Row0, Game!Init
<1>2. Init => OwnerInv
  BY OwnerInvInit
<1>3. OwnerInv /\ [Next]_vars => OwnerInv' /\ [Game!Next]_<<row.status, row.index>>
  BY OwnerInvStep DEF GameStep
<1>. QED  BY <1>1, <1>2, <1>3, PTL DEF Spec, ImplementsGame, Game!Spec

(* No new song comes with its answer shown, whatever the owner's SHOW_SONG, skip or *)
(* judgement and the others' transitions do in between (handle_skip_round).         *)
THEOREM SongsHidden ==
    ASSUME Starters \subseteq {Owner}
    PROVE  Spec => NewSongHidden
<1>1. Init => OwnerInv
  BY OwnerInvInit
<1>2. OwnerInv /\ [Next]_vars =>
        OwnerInv' /\ [row'.index # row.index => ~row'.showAnswer]_row
  BY OwnerInvStep DEF GameStep
<1>. QED  BY <1>1, <1>2, PTL DEF Spec, NewSongHidden

-----------------------------------------------------------------------------
(* PlaysCurrentSong, under the same assumption.  The playback is set before the row  *)
(* is written: what a handler of the owner has in its session says which song that   *)
(* will be, as long as the row is the one it loaded.                                 *)
NotYetSet ==
    \/ pc[Owner] \in {"skipClear", "skipPlayback", "roundStart"}
    \/ pc[Owner] \in {"moveRound", "commitRound"} /\ move[Owner].then = "roundStart"

SetForCommit ==
    \/ pc[Owner] = "commit"
    \/ pc[Owner] \in {"moveRound", "commitRound"} /\ move[Owner].then = "commit"

InJudging == pc[Owner] \in {"judging", "score", "commitScores"}

OthersSetNothing ==
    \A p \in Players : p # Owner => pc[p] # "roundStart" /\ move[p].then # "roundStart"

ReturnsKnown ==
    /\ pc[Owner] \in {"skipClear", "skipPlayback"} => move[Owner].then = "commit"
    /\ pc[Owner] = "enqueue" => move[Owner].then = "idle"

LoadedIsStored == NotYetSet \/ SetForCommit \/ InJudging => Agree(seen[Owner])

JudgeKeepsSong ==
    InJudging => /\ draft[Owner].index = seen[Owner].index
                 /\ draft[Owner].status \in {seen[Owner].status, "ENDED"}

CommitsWhatPlays == SetForCommit /\ draft[Owner].status = "RUNNING" => playSong = draft[Owner].index

StoredPlays == ~NotYetSet /\ ~SetForCommit /\ row.status = "RUNNING" => playSong = row.index

PlayInv ==
    /\ OthersSetNothing /\ ReturnsKnown
    /\ LoadedIsStored /\ JudgeKeepsSong
    /\ CommitsWhatPlays /\ StoredPlays

(* What the owner's handler, the playback and the game are afterwards decides, but *)
(* for the others' program counters.                                              *)
SameForOwner ==
    /\ pc'[Owner] = pc[Owner] /\ move'[Owner] = move[Owner]
    /\ seen'[Owner] = seen[Owner] /\ draft'[Owner] = draft[Owner]
    /\ playSong' = playSong
    /\ row'.status = row.status /\ row'.index = row.index /\ row'.showAnswer = row.showAnswer

LEMMA PlayKept ==
    ASSUME PlayInv, SameForOwner, OthersSetNothing'
    PROVE  PlayInv'
<1>1. (NotYetSet' <=> NotYetSet) /\ (SetForCommit' <=> SetForCommit) /\ (InJudging' <=> InJudging)
  BY DEF SameForOwner, NotYetSet, SetForCommit, InJudging
<1>2. ReturnsKnown' /\ LoadedIsStored' /\ JudgeKeepsSong'
  BY <1>1 DEF PlayInv, SameForOwner, ReturnsKnown, LoadedIsStored, JudgeKeepsSong, Agree
<1>3. CommitsWhatPlays' /\ StoredPlays'
  BY <1>1 DEF PlayInv, SameForOwner, CommitsWhatPlays, StoredPlays
<1>. QED  BY <1>2, <1>3 DEF PlayInv

(* The handlers of the others set no playback. *)
LEMMA OthersPlay ==
    ASSUME OwnerInv, PlayInv, Starters \subseteq {Owner},
           NEW p \in Players, p # Owner, PlayerRequest(p) \/ HandlerStep(p)
    PROVE  PlayInv'
<1>. USE DEF db, keys, session, Step, Receive
<1>. /\ SessionType /\ row \in Row /\ Owner \in Players /\ draft[p] = seen[p]
     /\ pc[p] # "roundStart" /\ move[p].then # "roundStart" /\ OthersSetNothing
  BY RoomAssumption DEF OwnerInv, SessionType, OthersReadOnly, PlayInv, OthersSetNothing
<1>1. ASSUME row'.status = row.status, row'.index = row.index,
             row'.showAnswer = row.showAnswer, playSong' = playSong,
             \/ /\ \E l : Goto(p, l) /\ l # "roundStart"
                /\ move' = move \/ \E g : Ask(p, g, "idle")
                /\ UNCHANGED session
             \/ Return(p)
      PROVE  PlayInv'
  <2>1. /\ pc'[p] # "roundStart" /\ move'[p].then # "roundStart"
        /\ \A q \in Players : q # p => pc'[q] = pc[q] /\ move'[q] = move[q]
                                       /\ seen'[q] = seen[q] /\ draft'[q] = draft[q]
    <3>1. CASE Return(p)
      BY <3>1 DEF Return, Goto, SessionType, Move0
    <3>2. CASE /\ \E l : Goto(p, l) /\ l # "roundStart"
               /\ move' = move \/ \E g : Ask(p, g, "idle")
               /\ UNCHANGED session
      BY <3>2 DEF Goto, Ask, SessionType
    <3>. QED  BY <1>1, <3>1, <3>2
  <2>2. OthersSetNothing'
    BY <2>1 DEF OthersSetNothing
  <2>3. SameForOwner
    BY <1>1, <2>1 DEF SameForOwner
  <2>. QED  BY <2>2, <2>3, PlayKept
<1>2. Proceed(p) =>
        \/ /\ \E l : Goto(p, l) /\ l # "roundStart"
           /\ move' = move /\ UNCHANGED session
        \/ Return(p)
  BY DEF Proceed
<1>3. CASE Attempt(p) \/ Answer(p)
  BY <1>1, <1>3 DEF Attempt, Answer
<1>4. CASE MoveRound(p)
  BY <1>1, <1>2, <1>4 DEF MoveRound
<1>5. CASE CommitRound(p)
  <2>1. Proceed(p) /\ row' = [row EXCEPT !.round = move[p].goal] /\ playSong' = playSong
    BY <1>5 DEF CommitRound
  <2>2. /\ row'.status = row.status /\ row'.index = row.index
        /\ row'.showAnswer = row.showAnswer
    BY <2>1 DEF Row
  <2>. QED  BY <1>1, <1>2, <2>1, <2>2
<1>6. CASE RoundStart(p)
  BY <1>6 DEF RoundStart
<1>7. CASE Commit(p)
  <2>1. row' = row
    BY <1>7, MergeNothing DEF Commit, Write, SessionType
  <2>. QED  BY <1>1, <1>7, <2>1 DEF Commit
<1>8. CASE Enqueue(p)
  BY <1>1, <1>8 DEF Enqueue
<1>9. CASE SaveAnswer(p)
  BY <1>1, <1>9 DEF SaveAnswer
<1>. QED  BY <1>3, <1>4, <1>5, <1>6, <1>7, <1>8, <1>9 DEF PlayerRequest, GameStart, HandlerStep

(* A step of the owner leaves the others' handlers where they are. *)
LEMMA OthersStay ==
    ASSUME SessionType, OthersSetNothing,
           Return(Owner) \/ \E l : Goto(Owner, l)
                                   /\ (move' = move \/ \E m : move' = [move EXCEPT ![Owner] = m])
    PROVE  OthersSetNothing'
<1>1. \A p \in Players : p # Owner => pc'[p] = pc[p] /\ move'[p] = move[p]
  BY RoomAssumption DEF SessionType, Return, Goto
<1>. QED  BY <1>1 DEF OthersSetNothing

(* A handler of the owner that has nothing left to write returns. *)
LEMMA OwnerDone ==
    ASSUME OwnerInv, PlayInv, Return(Owner),
           row'.status = "RUNNING" => playSong' = row'.index
    PROVE  PlayInv'
<1>1. SessionType /\ Owner \in Players
  BY RoomAssumption DEF OwnerInv
<1>2. pc'[Owner] = "idle"
  BY <1>1 DEF SessionType, Return, Goto
<1>3. ~NotYetSet' /\ ~SetForCommit' /\ ~InJudging' /\ ReturnsKnown'
  BY <1>2 DEF NotYetSet, SetForCommit, InJudging, ReturnsKnown
<1>4. OthersSetNothing'
  BY <1>1, OthersStay DEF PlayInv
<1>. QED  BY <1>3, <1>4 DEF PlayInv, LoadedIsStored, JudgeKeepsSong, CommitsWhatPlays, StoredPlays

(* The owner's requests: the session loads the row that is stored. *)
LEMMA RequestPlays ==
    ASSUME OwnerInv, PlayInv,
           OwnerRequest \/ GameStart(Owner) \/ Attempt(Owner) \/ Answer(Owner)
    PROVE  PlayInv'
<1>. USE DEF db, keys, session, Receive
<1>. SessionType /\ row \in Row /\ Owner \in Players
  BY RoomAssumption DEF OwnerInv, SessionType
<1>1. pc[Owner] = "idle" /\ row' = row /\ playSong' = playSong
  BY DEF OwnerRequest, SkipRound, RoundEnd, RoundStateUpdate, ShowSong, Judging, JudgeSubmit,
         GameStart, Attempt, Answer
<1>2. ~NotYetSet /\ ~SetForCommit
  BY <1>1 DEF NotYetSet, SetForCommit
<1>3. row'.status = "RUNNING" => playSong' = row'.index
  BY <1>1, <1>2 DEF PlayInv, StoredPlays
<1>4. ASSUME NEW l, Goto(Owner, l),
             move' = move \/ \E g, m : Ask(Owner, g, m)
      PROVE  pc'[Owner] = l /\ OthersSetNothing'
  BY <1>4, OthersStay DEF SessionType, Goto, Ask, PlayInv
<1>5. ASSUME NEW r, Load(Owner, r)
      PROVE  Agree(seen[Owner])' /\ seen'[Owner] = row /\ draft'[Owner] = r
  BY <1>1, <1>5 DEF SessionType, Load, Agree
<1>6. CASE GameStart(Owner)
  <2>1. /\ pc'[Owner] = "moveRound" /\ move'[Owner].then = "roundStart" /\ OthersSetNothing'
        /\ Agree(seen[Owner])'
    BY <1>4, <1>5, <1>6 DEF GameStart, Ask, SessionType
  <2>. QED  BY <2>1 DEF PlayInv, NotYetSet, SetForCommit, InJudging, ReturnsKnown, LoadedIsStored,
                       JudgeKeepsSong, CommitsWhatPlays, StoredPlays
<1>7. CASE SkipRound
  <2>1. /\ pc'[Owner] = "skipClear" /\ move'[Owner].then = "commit" /\ OthersSetNothing'
        /\ Agree(seen[Owner])'
    BY <1>4, <1>5, <1>7 DEF SkipRound, Ask, SessionType
  <2>. QED  BY <2>1 DEF PlayInv, NotYetSet, SetForCommit, InJudging, ReturnsKnown, LoadedIsStored,
                       JudgeKeepsSong, CommitsWhatPlays, StoredPlays
<1>8. CASE Attempt(Owner) \/ RoundEnd \/ \E goal \in Updates : RoundStateUpdate(goal)
  <2>1. /\ pc'[Owner] \in {"enqueue", "moveRound"} /\ move'[Owner].then = "idle"
        /\ OthersSetNothing'
    BY <1>4, <1>8 DEF Attempt, RoundEnd, RoundStateUpdate, Ask, SessionType
  <2>. QED  BY <1>3, <2>1 DEF PlayInv, NotYetSet, SetForCommit, InJudging, ReturnsKnown,
                       LoadedIsStored, JudgeKeepsSong, CommitsWhatPlays, StoredPlays
<1>9. CASE Answer(Owner)
  <2>1. pc'[Owner] = "save" /\ OthersSetNothing'
    BY <1>4, <1>9 DEF Answer
  <2>. QED  BY <1>3, <2>1 DEF PlayInv, NotYetSet, SetForCommit, InJudging, ReturnsKnown,
                       LoadedIsStored, JudgeKeepsSong, CommitsWhatPlays, StoredPlays
<1>10. CASE ShowSong
  <2>1. /\ pc'[Owner] = "commit" /\ OthersSetNothing' /\ Agree(seen[Owner])'
        /\ draft'[Owner].status = row.status /\ draft'[Owner].index = row.index
    BY <1>4, <1>5, <1>10 DEF ShowSong, Row
  <2>. QED  BY <1>1, <1>3, <2>1 DEF PlayInv, NotYetSet, SetForCommit, InJudging, ReturnsKnown,
                       LoadedIsStored, JudgeKeepsSong, CommitsWhatPlays, StoredPlays
<1>11. CASE Judging \/ JudgeSubmit
  <2>1. /\ pc'[Owner] \in {"judging", "score"} /\ OthersSetNothing' /\ Agree(seen[Owner])'
        /\ draft'[Owner].status = seen'[Owner].status
        /\ draft'[Owner].index = seen'[Owner].index
    BY <1>4, <1>5, <1>11 DEF Judging, JudgeSubmit, Row
  <2>. QED  BY <1>3, <2>1 DEF PlayInv, NotYetSet, SetForCommit, InJudging, ReturnsKnown,
                       LoadedIsStored, JudgeKeepsSong, CommitsWhatPlays, StoredPlays
<1>. QED  BY <1>6, <1>7, <1>8, <1>9, <1>10, <1>11 DEF OwnerRequest

(* What the owner's handler writes, where the row is the one it loaded. *)
LEMMA OwnerWritesDraft ==
    ASSUME OwnerInv, Write(Owner), Agree(seen[Owner])
    PROVE  row'.status = draft[Owner].status /\ row'.index = draft[Owner].index
<1>1. row \in Row /\ seen[Owner] \in Row /\ draft[Owner] \in Row
  BY RoomAssumption DEF OwnerInv, SessionType
<1>. QED  BY <1>1, MergeColumns DEF Write, Agree

(* The other steps of the owner's handlers. *)
LEMMA OwnerPlays ==
    ASSUME OwnerInv, PlayInv,
           \/ MoveRound(Owner) \/ CommitRound(Owner) \/ RoundStart(Owner) \/ Commit(Owner)
           \/ Enqueue(Owner) \/ SaveAnswer(Owner) \/ OwnerStep
    PROVE  PlayInv'
<1>. USE DEF db, keys, session, Step
<1>. SessionType /\ row \in Row /\ Owner \in Players
  BY RoomAssumption DEF OwnerInv, SessionType
<1>1. ASSUME NEW l, Goto(Owner, l), UNCHANGED move
      PROVE  pc'[Owner] = l /\ OthersSetNothing'
  BY <1>1, OthersStay DEF SessionType, Goto, PlayInv
<1>2. ASSUME NEW l, NEW k, pc[Owner] = k, Goto(Owner, l), UNCHANGED <<move, session, playSong>>,
             row'.status = row.status, row'.index = row.index,
             row'.showAnswer = row.showAnswer,
             \/ k = "moveRound" /\ l = "commitRound"
             \/ k \in {"moveRound", "commitRound"} /\ l = move[Owner].then /\ l # "idle"
             \/ k = "skipClear" /\ l = "skipPlayback"
             \/ k = "judging" /\ l = "commit"
             \/ k = "enqueue" /\ l = "moveRound"
      PROVE  PlayInv'
  <2>1. pc'[Owner] = l /\ OthersSetNothing' /\ (Agree(seen[Owner]) => Agree(seen[Owner])')
    BY <1>1, <1>2 DEF Agree
  <2>2. move[Owner].then \in {"idle", "roundStart", "commit"}
    BY DEF SessionType, Move
  <2>3. CASE k = "judging"
    <3>1. Agree(seen[Owner]) /\ InJudging /\ ~NotYetSet /\ ~SetForCommit
      BY <1>2, <2>3 DEF PlayInv, LoadedIsStored, InJudging, NotYetSet, SetForCommit
    <3>2. draft[Owner].status = "RUNNING" => playSong = draft[Owner].index
      BY <3>1 DEF PlayInv, JudgeKeepsSong, StoredPlays, Agree
    <3>. QED  BY <1>2, <2>1, <2>3, <3>1, <3>2 DEF PlayInv, NotYetSet, SetForCommit, InJudging,
                ReturnsKnown, LoadedIsStored, JudgeKeepsSong, CommitsWhatPlays, StoredPlays
  <2>4. CASE k # "judging"
    <3>1. (NotYetSet' <=> NotYetSet) /\ (SetForCommit' <=> SetForCommit) /\ ~InJudging'
      BY <1>2, <2>1, <2>2, <2>4 DEF NotYetSet, SetForCommit, InJudging, PlayInv, ReturnsKnown
    <3>2. ReturnsKnown' /\ LoadedIsStored' /\ JudgeKeepsSong'
      BY <1>2, <2>1, <2>2, <2>4, <3>1
         DEF PlayInv, ReturnsKnown, LoadedIsStored, JudgeKeepsSong, Agree
    <3>3. CommitsWhatPlays' /\ StoredPlays'
      BY <1>2, <3>1 DEF PlayInv, CommitsWhatPlays, StoredPlays
    <3>. QED  BY <2>1, <3>2, <3>3 DEF PlayInv
  <2>. QED  BY <2>3, <2>4
<1>3. ASSUME Return(Owner), ~NotYetSet, ~SetForCommit,
             row'.status = row.status, row'.index = row.index, playSong' = playSong
      PROVE  PlayInv'
  BY <1>3, OwnerDone DEF PlayInv, StoredPlays
<1>4. ASSUME Proceed(Owner), pc[Owner] \in {"moveRound", "commitRound"}, playSong' = playSong,
             row'.status = row.status, row'.index = row.index,
             row'.showAnswer = row.showAnswer
      PROVE  PlayInv'
  BY <1>2, <1>3, <1>4 DEF Proceed, NotYetSet, SetForCommit
<1>5. CASE MoveRound(Owner)
  <2>1. pc[Owner] = "moveRound" /\ row' = row /\ playSong' = playSong
    BY <1>5 DEF MoveRound
  <2>2. Proceed(Owner) \/ (Goto(Owner, "commitRound") /\ UNCHANGED <<move, session>>)
    BY <1>5 DEF MoveRound
  <2>. QED  BY <1>2, <1>4, <2>1, <2>2
<1>6. CASE CommitRound(Owner)
  <2>1. /\ pc[Owner] = "commitRound" /\ Proceed(Owner) /\ playSong' = playSong
        /\ row' = [row EXCEPT !.round = move[Owner].goal]
    BY <1>6 DEF CommitRound
  <2>2. /\ row'.status = row.status /\ row'.index = row.index
        /\ row'.showAnswer = row.showAnswer
    BY <2>1 DEF Row
  <2>. QED  BY <1>4, <2>1, <2>2
<1>7. CASE RoundStart(Owner)
  <2>1. /\ pc[Owner] = "roundStart" /\ pc'[Owner] = "commit" /\ OthersSetNothing'
        /\ UNCHANGED <<session, row>> /\ playSong' = draft[Owner].index
    BY <1>1, <1>7 DEF RoundStart
  <2>2. Agree(seen[Owner])'
    BY <2>1 DEF PlayInv, LoadedIsStored, NotYetSet, Agree
  <2>. QED  BY <2>1, <2>2 DEF PlayInv, NotYetSet, SetForCommit, InJudging, ReturnsKnown,
                       LoadedIsStored, JudgeKeepsSong, CommitsWhatPlays, StoredPlays
<1>8. CASE Commit(Owner)
  <2>1. pc[Owner] = "commit" /\ Write(Owner) /\ Return(Owner) /\ playSong' = playSong
    BY <1>8 DEF Commit
  <2>2. Agree(seen[Owner]) /\ (draft[Owner].status = "RUNNING" => playSong = draft[Owner].index)
    BY <2>1 DEF PlayInv, LoadedIsStored, CommitsWhatPlays, SetForCommit
  <2>. QED  BY <2>1, <2>2, OwnerWritesDraft, OwnerDone
<1>9. CASE Enqueue(Owner)
  <2>1. pc[Owner] = "enqueue" /\ row' = row /\ playSong' = playSong
    BY <1>9 DEF Enqueue
  <2>2. Return(Owner) \/ (Goto(Owner, "moveRound") /\ UNCHANGED <<move, session>>)
    BY <1>9 DEF Enqueue
  <2>. QED  BY <1>2, <1>3, <2>1, <2>2 DEF NotYetSet, SetForCommit
<1>10. CASE SaveAnswer(Owner)
  BY <1>3, <1>10 DEF SaveAnswer, NotYetSet, SetForCommit
<1>11. CASE SkipClear
  BY <1>2, <1>11 DEF SkipClear
<1>12. CASE SkipPlayback
  <2>1. /\ pc[Owner] = "skipPlayback" /\ pc'[Owner] = "moveRound" /\ OthersSetNothing'
        /\ UNCHANGED <<move, session, row>> /\ playSong' = draft[Owner].index
    BY <1>1, <1>12 DEF SkipPlayback
  <2>2. Agree(seen[Owner])' /\ move'[Owner].then = "commit"
    BY <2>1 DEF PlayInv, LoadedIsStored, ReturnsKnown, NotYetSet, Agree
  <2>. QED  BY <2>1, <2>2 DEF PlayInv, NotYetSet, SetForCommit, InJudging, ReturnsKnown,
                       LoadedIsStored, JudgeKeepsSong, CommitsWhatPlays, StoredPlays
<1>13. CASE ShowJudging
  BY <1>2, <1>13 DEF ShowJudging
<1>14. CASE Score
  <2>1. /\ pc[Owner] = "score" /\ pc'[Owner] = "commitScores" /\ OthersSetNothing'
        /\ UNCHANGED <<row, playSong, seen>> /\ draft'[Owner] = AfterJudging(seen[Owner])
    BY <1>1, <1>14 DEF Score, SessionType
  <2>2. /\ AfterJudging(seen[Owner]).index = seen[Owner].index
        /\ AfterJudging(seen[Owner]).status \in {seen[Owner].status, "ENDED"}
    BY DEF AfterJudging, Row, SessionType
  <2>3. Agree(seen[Owner])' /\ (row'.status = "RUNNING" => playSong' = row'.index)
    BY <2>1 DEF PlayInv, LoadedIsStored, StoredPlays, NotYetSet, SetForCommit, InJudging, Agree
  <2>. QED  BY <2>1, <2>2, <2>3 DEF PlayInv, NotYetSet, SetForCommit, InJudging, ReturnsKnown,
                       LoadedIsStored, JudgeKeepsSong, CommitsWhatPlays, StoredPlays
<1>15. CASE CommitScores
  <2>1. /\ pc[Owner] = "commitScores" /\ pc'[Owner] = "showScores" /\ OthersSetNothing'
        /\ Write(Owner) /\ playSong' = playSong
    BY <1>1, <1>15 DEF CommitScores
  <2>2. /\ Agree(seen[Owner]) /\ (row.status = "RUNNING" => playSong = row.index)
        /\ draft[Owner].index = seen[Owner].index
        /\ draft[Owner].status \in {seen[Owner].status, "ENDED"}
    BY <2>1 DEF PlayInv, LoadedIsStored, StoredPlays, JudgeKeepsSong, NotYetSet, SetForCommit,
                InJudging
  <2>3. row'.status = "RUNNING" => playSong' = row'.index
    BY <2>1, <2>2, OwnerWritesDraft DEF Agree
  <2>. QED  BY <2>1, <2>3 DEF PlayInv, NotYetSet, SetForCommit, InJudging, ReturnsKnown,
                       LoadedIsStored, JudgeKeepsSong, CommitsWhatPlays, StoredPlays
<1>16. CASE ShowScores
  BY <1>3, <1>16 DEF ShowScores, NotYetSet, SetForCommit
<1>. QED  BY <1>5, <1>6, <1>7, <1>8, <1>9, <1>10, <1>11, <1>12, <1>13, <1>14, <1>15, <1>16
          DEF OwnerStep

LEMMA PlayInvStep ==
    ASSUME OwnerInv, PlayInv, [Next]_vars, Starters \subseteq {Owner}
    PROVE  PlayInv'
<1>1. CASE UNCHANGED vars
  <2>1. OthersSetNothing'
    BY <1>1 DEF vars, PlayInv, OthersSetNothing
  <2>. QED  BY <1>1, <2>1, PlayKept DEF SameForOwner, vars, db, keys, session
<1>2. CASE OwnerRequest
  BY <1>2, RequestPlays
<1>3. ASSUME NEW p \in Players, PlayerRequest(p) \/ HandlerStep(p)
      PROVE  PlayInv'
  <2>1. CASE p = Owner
    BY <1>3, <2>1, RequestPlays, OwnerPlays DEF PlayerRequest, HandlerStep
  <2>2. CASE p # Owner
    BY <1>3, <2>2, OthersPlay
  <2>. QED  BY <2>1, <2>2
<1>. QED  BY <1>1, <1>2, <1>3 DEF Next

LEMMA PlayInvInit == Init => PlayInv
BY RoomAssumption DEF Init, Row0, Move0, PlayInv, OthersSetNothing, NotYetSet, SetForCommit,
   InJudging, ReturnsKnown, LoadedIsStored, JudgeKeepsSong, CommitsWhatPlays, StoredPlays

(* Redis and the database name the same song whenever no request of the owner is under *)
(* way: GAME_START, SKIP_ROUND and SHOW_SONG set the playback awaits before the commit, *)
(* a judgement ends the game after it (handle_skip_round, handle_game_start).           *)
THEOREM PlaysCurrent ==
    ASSUME Starters \subseteq {Owner}
    PROVE  Spec => []PlaysCurrentSong
<1>1. Init => OwnerInv /\ PlayInv
  BY OwnerInvInit, PlayInvInit
<1>2. OwnerInv /\ PlayInv /\ [Next]_vars => OwnerInv' /\ PlayInv'
  BY OwnerInvStep, PlayInvStep
<1>3. PlayInv => PlaysCurrentSong
  BY DEF PlayInv, StoredPlays, NotYetSet, SetForCommit, PlaysCurrentSong
<1>. QED  BY <1>1, <1>2, <1>3, PTL DEF Spec

-----------------------------------------------------------------------------
(* FinalIsStored.  The judge's handler tells GAME_OVER in the step after its commit: *)
(* the row it then ended stays ended, and the score rows it lists stay where they are. *)
FinalInv ==
    /\ \E X : scores \in Seq(X)
    /\ pc[Owner] = "showScores" /\ draft[Owner].status # seen[Owner].status
          => row.status = "ENDED"
    /\ FinalIsStored

(* Rows are only added to the list: what was a beginning of it stays one. *)
LEMMA PrefixStays ==
    ASSUME NEW X, NEW s \in Seq(X), NEW r, NEW n \in 0 .. Len(s)
    PROVE  SubSeq(Append(s, r), 1, n) = SubSeq(s, 1, n) /\ n \in 0 .. Len(Append(s, r))
<1>1. s \in Seq(X \cup {r}) /\ Append(s, r) \in Seq(X \cup {r}) /\ Len(Append(s, r)) = Len(s) + 1
  OBVIOUS
<1>2. \A i \in 1 .. n : Append(s, r)[i] = s[i]
  BY <1>1
<1>. QED  BY <1>1, <1>2

LEMMA FinalStep ==
    ASSUME OwnerInv, PlayInv, FinalInv, [Next]_vars, Starters \subseteq {Owner}
    PROVE  FinalInv'
<1>. USE DEF db, keys, session, Step
<1>. SessionType /\ Owner \in Players
  BY RoomAssumption DEF OwnerInv
<1>1. PICK X : scores \in Seq(X)
  BY DEF FinalInv
<1>2. row.status = "ENDED" => row'.status = "ENDED"
  BY OwnerInvStep DEF GameStep, Game!Next, Game!Begin, Game!NextSong, Game!End
<1>3. ASSUME UNCHANGED <<scores, finalShown>>,
             pc'[Owner] = "showScores" => pc[Owner] = "showScores" /\ seen'[Owner] = seen[Owner]
                                          /\ draft'[Owner] = draft[Owner]
      PROVE  FinalInv'
  BY <1>2, <1>3 DEF FinalInv, FinalIsStored
<1>4. CASE UNCHANGED vars
  BY <1>3, <1>4 DEF vars
<1>5. CASE OwnerRequest
  <2>1. pc'[Owner] # "showScores" /\ UNCHANGED <<scores, finalShown>>
    BY <1>5 DEF OwnerRequest, SkipRound, RoundEnd, RoundStateUpdate, ShowSong, Judging,
                JudgeSubmit, Receive, Goto, SessionType
  <2>. QED  BY <1>3, <2>1
<1>6. ASSUME NEW p \in Players,
             \/ PlayerRequest(p) \/ MoveRound(p) \/ CommitRound(p) \/ RoundStart(p) \/ Commit(p)
             \/ Enqueue(p) \/ SaveAnswer(p)
      PROVE  FinalInv'
  <2>1. /\ UNCHANGED <<scores, finalShown>> /\ pc[p] # "showScores"
        /\ Return(p) \/ \E l : Goto(p, l) /\ l # "showScores"
    <3>1. Proceed(p) => Return(p) \/ \E l : Goto(p, l) /\ l # "showScores"
      BY DEF Proceed, SessionType, Move
    <3>. QED  BY <1>6, <3>1 DEF PlayerRequest, GameStart, Attempt, Answer, Receive, MoveRound,
                CommitRound, RoundStart, Commit, Enqueue, SaveAnswer
  <2>2. pc'[p] # "showScores" /\ \A q \in Players : q # p => pc'[q] = pc[q]
    BY <2>1 DEF Return, Goto, SessionType
  <2>3. CASE p = Owner
    BY <1>3, <2>1, <2>2, <2>3
  <2>4. CASE p # Owner
    <3>1. seen'[Owner] = seen[Owner] /\ draft'[Owner] = draft[Owner]
      BY <1>6, <2>4 DEF PlayerRequest, GameStart, Attempt, Answer, MoveRound, CommitRound,
                        RoundStart, Commit, Enqueue, SaveAnswer, Proceed, Return, Load,
                        SessionType
    <3>. QED  BY <1>3, <2>1, <2>2, <2>4, <3>1
  <2>. QED  BY <2>3, <2>4
<1>7. CASE SkipClear \/ SkipPlayback \/ ShowJudging \/ Score
  <2>1. pc'[Owner] # "showScores" /\ UNCHANGED <<scores, finalShown>>
    BY <1>7 DEF SkipClear, SkipPlayback, ShowJudging, Score, Goto, SessionType
  <2>. QED  BY <1>3, <2>1
<1>8. CASE CommitScores
  <2>1. /\ pc[Owner] = "commitScores" /\ Write(Owner) /\ finalShown' = finalShown
        /\ seen' = seen /\ draft' = draft /\ scores' = Append(scores, judged)
    BY <1>8 DEF CommitScores
  <2>2. Agree(seen[Owner]) /\ draft[Owner].status \in {seen[Owner].status, "ENDED"}
    BY <2>1 DEF PlayInv, LoadedIsStored, JudgeKeepsSong, InJudging
  <2>3. draft'[Owner].status # seen'[Owner].status => row'.status = "ENDED"
    BY <2>1, <2>2, OwnerWritesDraft
  <2>4. scores' \in Seq(X \cup {judged})
    BY <1>1, <2>1
  <2>5. FinalIsStored'
    BY <1>1, <1>2, <2>1, PrefixStays DEF FinalInv, FinalIsStored
  <2>. QED  BY <2>3, <2>4, <2>5 DEF FinalInv
<1>9. CASE ShowScores
  <2>1. /\ pc[Owner] = "showScores" /\ pc'[Owner] = "idle" /\ UNCHANGED <<row, scores>>
        /\ finalShown' = IF draft[Owner].status # seen[Owner].status THEN scores ELSE finalShown
    BY <1>9 DEF ShowScores, Return, Goto, SessionType
  <2>2. scores = SubSeq(scores, 1, Len(scores)) /\ Len(scores) \in 0 .. Len(scores)
    BY <1>1
  <2>3. FinalIsStored'
    BY <2>1, <2>2 DEF FinalInv, FinalIsStored
  <2>. QED  BY <2>1, <2>3 DEF FinalInv
<1>. QED  BY <1>4, <1>5, <1>6, <1>7, <1>8, <1>9 DEF Next, HandlerStep, OwnerStep

(* The clients are told GAME_OVER of no game whose end is not in the database, and are *)
(* given only rows that are: the broadcast comes after the commit, and nothing a later *)
(* handler writes takes either back (handle_judge_submit).                             *)
THEOREM FinalStored ==
    ASSUME Starters \subseteq {Owner}
    PROVE  Spec => []FinalIsStored
<1>1. Init => OwnerInv /\ PlayInv /\ FinalInv
  <2>1. ASSUME Init PROVE scores \in Seq({}) /\ finalShown = <<>> /\ pc[Owner] = "idle"
    BY <2>1, RoomAssumption DEF Init
  <2>. QED  BY <2>1, OwnerInvInit, PlayInvInit DEF FinalInv, FinalIsStored
<1>2. OwnerInv /\ PlayInv /\ FinalInv /\ [Next]_vars => OwnerInv' /\ PlayInv' /\ FinalInv'
  BY OwnerInvStep, PlayInvStep, FinalStep
<1>3. FinalInv => FinalIsStored
  BY DEF FinalInv
<1>. QED  BY <1>1, <1>2, <1>3, PTL DEF Spec

-----------------------------------------------------------------------------
(* The total of a player. *)
DeltasOf(rows, p) == [n \in 1 .. Len(rows) |-> rows[n].delta[p]]

LEMMA SumOfIsSum ==
    ASSUME NEW X, NEW rows \in Seq(X), NEW p, \A n \in 1 .. Len(rows) : rows[n].delta[p] \in Nat
    PROVE  \E f : IsSum(f, DeltasOf(rows, p), Len(rows)) /\ SumOf(rows, p) = f[Len(rows)]
<1>. DEFINE N == Len(rows)
            P(f) == f = [n \in 0 .. N |-> IF n = 0 THEN 0 ELSE f[n - 1] + rows[n].delta[p]]
            sum == CHOOSE f : P(f)
<1>1. N \in Nat /\ \A n \in 1 .. N : DeltasOf(rows, p)[n] \in Nat
  BY DEF DeltasOf
<1>2. PICK f : IsSum(f, DeltasOf(rows, p), N)
  BY <1>1, SumExists
<1>3. ASSUME NEW e PROVE P(e) <=> IsSum(e, DeltasOf(rows, p), N)
  <2>1. ASSUME NEW n \in 0 .. N, n # 0 PROVE DeltasOf(rows, p)[n] = rows[n].delta[p]
    BY <1>1, <2>1 DEF DeltasOf
  <2>2. [n \in 0 .. N |-> IF n = 0 THEN 0 ELSE e[n - 1] + DeltasOf(rows, p)[n]]
          = [n \in 0 .. N |-> IF n = 0 THEN 0 ELSE e[n - 1] + rows[n].delta[p]]
    BY <2>1
  <2>. QED  BY <2>2 DEF IsSum
<1>4. P(f)
  BY <1>2, <1>3
<1>5. P(sum)
  BY <1>4
<1>6. SumOf(rows, p) = sum[N]
  BY DEF SumOf
<1>. QED  BY <1>3, <1>5, <1>6

LEMMA SumOfEmpty == ASSUME NEW p PROVE SumOf(<<>>, p) = 0
<1>. DEFINE rows == <<>>
<1>1. rows \in Seq({}) /\ Len(rows) = 0
  OBVIOUS
<1>. HIDE DEF rows
<1>2. \A n \in 1 .. Len(rows) : rows[n].delta[p] \in Nat
  BY <1>1
<1>3. PICK f : IsSum(f, DeltasOf(rows, p), Len(rows)) /\ SumOf(rows, p) = f[Len(rows)]
  BY <1>1, <1>2, SumOfIsSum
<1>4. f[0] = 0
  BY <1>1, <1>3 DEF IsSum
<1>. QED  BY <1>1, <1>3, <1>4 DEF rows

LEMMA SumOfNatural ==
    ASSUME NEW X, NEW rows \in Seq(X), NEW p, \A n \in 1 .. Len(rows) : rows[n].delta[p] \in Nat
    PROVE  SumOf(rows, p) \in Nat
<1>1. PICK f : IsSum(f, DeltasOf(rows, p), Len(rows)) /\ SumOf(rows, p) = f[Len(rows)]
  BY SumOfIsSum
<1>2. Len(rows) \in Nat /\ \A n \in 1 .. Len(rows) : DeltasOf(rows, p)[n] \in Nat
  BY DEF DeltasOf
<1>3. \A n \in 0 .. Len(rows) : f[n] \in Nat
  BY <1>1, <1>2, SumsAgree
<1>. QED  BY <1>1, <1>2, <1>3

(* A new row adds what it pays. *)
LEMMA SumOfAppend ==
    ASSUME NEW X, NEW rows \in Seq(X), NEW r, NEW p, r.delta[p] \in Nat,
           \A n \in 1 .. Len(rows) : rows[n].delta[p] \in Nat
    PROVE  SumOf(Append(rows, r), p) = SumOf(rows, p) + r.delta[p]
<1>. DEFINE N == Len(rows)  more == Append(rows, r)
<1>1. /\ N \in Nat /\ more \in Seq(X \cup {r}) /\ Len(more) = N + 1
      /\ more[N + 1] = r /\ \A n \in 1 .. N : more[n] = rows[n]
  <2>1. rows \in Seq(X \cup {r})
    OBVIOUS
  <2>. QED  BY <2>1
<1>. HIDE DEF more
<1>2. \A n \in 1 .. N + 1 : more[n].delta[p] \in Nat
  BY <1>1
<1>3. PICK e : IsSum(e, DeltasOf(rows, p), N) /\ SumOf(rows, p) = e[N]
  BY SumOfIsSum
<1>4. PICK f : IsSum(f, DeltasOf(more, p), N + 1) /\ SumOf(more, p) = f[N + 1]
  BY <1>1, <1>2, SumOfIsSum
<1>5. \A n \in 1 .. N : DeltasOf(rows, p)[n] = DeltasOf(more, p)[n] /\ DeltasOf(rows, p)[n] \in Nat
  BY <1>1 DEF DeltasOf
<1>6. e[N] = f[N]
  <2>1. N + 1 \in Nat /\ N <= N + 1 /\ N \in 0 .. N
    BY <1>1
  <2>2. \A n \in 0 .. N : e[n] = f[n] /\ e[n] \in Nat
    BY <1>1, <1>3, <1>4, <1>5, <2>1, SumsAgree
  <2>. QED  BY <2>1, <2>2
<1>7. f[N + 1] = f[N] + r.delta[p]
  <2>1. N + 1 \in 0 .. N + 1 /\ N + 1 \in 1 .. N + 1 /\ N + 1 # 0 /\ (N + 1) - 1 = N
    BY <1>1
  <2>2. f[N + 1] = f[(N + 1) - 1] + DeltasOf(more, p)[N + 1]
    BY <1>4, <2>1 DEF IsSum
  <2>3. DeltasOf(more, p)[N + 1] = more[N + 1].delta[p]
    BY <1>1, <2>1 DEF DeltasOf
  <2>. QED  BY <1>1, <2>1, <2>2, <2>3
<1>. QED  BY <1>3, <1>4, <1>6, <1>7 DEF more

-----------------------------------------------------------------------------
(* Types.  A judgement is worth its type because the row the judge loaded has a song, *)
(* and the bound on the rows holds because one judgement is under way at a time.      *)
TypeInv ==
    /\ TypeOK
    /\ pc[Owner] = "score" => seen[Owner].index # None
    /\ pc[Owner] \in {"score", "commitScores"} => Len(scores) < JudgeCap

LEMMA DeltasNatural ==
    ASSUME NEW rows \in Seq(Judgement), NEW p \in Players
    PROVE  \A n \in 1 .. Len(rows) : rows[n].delta[p] \in Nat
<1>1. \A r \in Judgement : r.delta[p] \in Nat
  BY RoomAssumption DEF Judgement
<1>. QED  BY <1>1

LEMMA TypeStep ==
    ASSUME TypeInv, [Next]_vars
    PROVE  TypeInv'
<1>. USE DEF db, keys, session, Step
<1>. /\ TypeOK /\ SessionType /\ SessionType' /\ Owner \in Players
     /\ row \in Row /\ 0 \in Rounds /\ 0 \in Points /\ Points \subseteq Nat
  BY SessionStep, RoomAssumption DEF TypeInv, TypeOK, SessionType, Rounds
<1>1. ASSUME UNCHANGED <<answers, scores, finalShown, judged>>,
             queue' \subseteq Players, playSong' \in Rounds \cup {None},
             pc'[Owner] = "score" => seen'[Owner].index # None /\ Len(scores) < JudgeCap,
             pc'[Owner] # "commitScores" \/ pc'[Owner] = pc[Owner]
      PROVE  TypeInv'
  BY <1>1 DEF TypeInv, TypeOK, SessionType
<1>2. ASSUME NEW l, l \notin {"score", "commitScores"}, Goto(Owner, l)
      PROVE  pc'[Owner] \notin {"score", "commitScores"}
  BY <1>2 DEF Goto, SessionType
<1>3. CASE UNCHANGED vars
  BY <1>1, <1>3 DEF vars, TypeInv, TypeOK
<1>4. CASE OwnerRequest
  <2>1. CASE JudgeSubmit
    <3>1. Len(scores) < JudgeCap /\ seen'[Owner] = row /\ row.index # None
          /\ pc'[Owner] = "score"
      BY <2>1 DEF JudgeSubmit, HasSong, Receive, Goto, Load, SessionType
    <3>. QED  BY <1>1, <2>1, <3>1 DEF JudgeSubmit, TypeOK
  <2>2. CASE SkipRound \/ RoundEnd \/ ShowSong \/ Judging
             \/ \E goal \in Updates : RoundStateUpdate(goal)
    BY <1>1, <1>2, <2>2 DEF SkipRound, RoundEnd, ShowSong, Judging, RoundStateUpdate, Receive,
                            TypeOK
  <2>. QED  BY <1>4, <2>1, <2>2 DEF OwnerRequest
<1>5. ASSUME NEW p \in Players,
             \/ PlayerRequest(p) \/ MoveRound(p) \/ CommitRound(p) \/ RoundStart(p) \/ Commit(p)
             \/ Enqueue(p)
      PROVE  TypeInv'
  <2>1. /\ UNCHANGED <<answers, scores, finalShown, judged>>
        /\ queue' \subseteq Players
        /\ Return(p) \/ \E l : Goto(p, l) /\ l \notin {"score", "commitScores"}
                               /\ (p = Owner \/ seen' = seen \/ Load(p, [status |-> "RUNNING",
                                  round |-> "PENDING", index |-> 0, showAnswer |-> FALSE]))
    <3>1. Proceed(p) => Return(p) \/ \E l : Goto(p, l) /\ l \notin {"score", "commitScores"}
                                            /\ seen' = seen
      BY DEF Proceed, SessionType, Move
    <3>. QED  BY <1>5, <3>1 DEF PlayerRequest, GameStart, Attempt, Answer, Receive, MoveRound,
              CommitRound, RoundStart, Commit, Enqueue, TypeOK
  <2>2. playSong' \in Rounds \cup {None}
    BY <1>5 DEF PlayerRequest, GameStart, Attempt, Answer, MoveRound,
              CommitRound, RoundStart, Commit, Enqueue, TypeOK, Row
  <2>3. CASE p = Owner
    <3>1. pc'[Owner] \notin {"score", "commitScores"}
      BY <2>1, <2>3, <1>2 DEF Return
    <3>. QED  BY <1>1, <2>1, <2>2, <3>1
  <2>4. CASE p # Owner
    <3>1. pc'[Owner] = pc[Owner] /\ seen'[Owner] = seen[Owner]
      BY <2>1, <2>4 DEF Return, Goto, Load, SessionType
    <3>. QED  BY <1>1, <2>1, <2>2, <3>1 DEF TypeInv
  <2>. QED  BY <2>3, <2>4
<1>6. ASSUME NEW p \in Players, SaveAnswer(p) PROVE TypeInv'
  <2>1. /\ answers' \subseteq Players \X Rounds
        /\ UNCHANGED <<row, scores, queue, playSong, finalShown, judged>>
    BY <1>6 DEF SaveAnswer, HasSong, TypeOK, Row
  <2>2. pc'[Owner] = "idle" \/ (pc'[Owner] = pc[Owner] /\ seen'[Owner] = seen[Owner])
    BY <1>6 DEF SaveAnswer, Return, Goto, SessionType
  <2>. QED  BY <2>1, <2>2 DEF TypeInv, TypeOK, SessionType
<1>7. CASE SkipClear \/ SkipPlayback \/ ShowJudging
  <2>1. draft[Owner].index \in Rounds \cup {None}
    BY DEF SessionType, Row
  <2>. QED  BY <1>1, <1>2, <1>7, <2>1 DEF SkipClear, SkipPlayback, ShowJudging, TypeOK
<1>8. CASE Score
  <2>1. seen[Owner].index \in Rounds /\ pc[Owner] = "score" /\ Len(scores) < JudgeCap
    BY <1>8 DEF Score, TypeInv, SessionType, Row
  <2>2. PICK delta \in Awards(seen[Owner].index) :
          judged' = [round |-> seen[Owner].index, delta |-> delta,
                     total |-> [p \in Players |->
                                  IF delta[p] > 0 THEN SumOf(scores, p) + delta[p] ELSE 0]]
    BY <1>8 DEF Score
  <2>3. delta \in [Players -> Points]
    BY <2>2 DEF Awards
  <2>4. ASSUME NEW p \in Players PROVE SumOf(scores, p) \in Nat /\ delta[p] \in Nat
    BY <2>3, DeltasNatural, SumOfNatural DEF TypeOK
  <2>5. judged' \in Judgement
    <3>1. [p \in Players |-> IF delta[p] > 0 THEN SumOf(scores, p) + delta[p] ELSE 0]
             \in [Players -> Nat]
      BY <2>4
    <3>. QED  BY <2>1, <2>2, <2>3, <3>1 DEF Judgement
  <2>6. /\ pc'[Owner] = "commitScores"
        /\ UNCHANGED <<row, answers, scores, queue, playSong, finalShown>>
    BY <1>8 DEF Score, Goto, SessionType
  <2>. QED  BY <2>1, <2>5, <2>6 DEF TypeInv, TypeOK, SessionType
<1>9. CASE CommitScores
  <2>1. /\ pc[Owner] = "commitScores" /\ pc'[Owner] = "showScores"
        /\ scores' = Append(scores, judged)
        /\ UNCHANGED <<answers, queue, playSong, finalShown, judged>>
    BY <1>9 DEF CommitScores, Goto, SessionType
  <2>2. Len(scores) < JudgeCap
    BY <2>1 DEF TypeInv
  <2>3. scores' \in Seq(Judgement) /\ Len(scores') <= JudgeCap
    BY <2>1, <2>2, RoomAssumption DEF TypeOK
  <2>. QED  BY <2>1, <2>3 DEF TypeInv, TypeOK, SessionType
<1>10. CASE ShowScores
  <2>1. Judged0 \in Judgement
    BY DEF Judged0, Judgement, NoPoints
  <2>2. /\ pc'[Owner] = "idle" /\ judged' = Judged0 /\ finalShown' \in Seq(Judgement)
        /\ UNCHANGED <<answers, scores, queue, playSong>>
    BY <1>10 DEF ShowScores, Return, Goto, SessionType, TypeOK
  <2>. QED  BY <2>1, <2>2 DEF TypeInv, TypeOK, SessionType
<1>. QED  BY <1>3, <1>4, <1>5, <1>6, <1>7, <1>8, <1>9, <1>10 DEF Next, HandlerStep, OwnerStep

LEMMA TypeInit == Init => TypeInv
<1>. SUFFICES ASSUME Init PROVE TypeInv
  OBVIOUS
<1>1. SessionType /\ pc[Owner] = "idle"
  BY InitSession, RoomAssumption DEF Init
<1>2. Judged0 \in Judgement
  BY RoomAssumption DEF Judged0, Judgement, NoPoints, Rounds
<1>3. scores \in Seq(Judgement) /\ Len(scores) <= JudgeCap /\ finalShown \in Seq(Judgement)
  BY RoomAssumption DEF Init
<1>. QED  BY <1>1, <1>2, <1>3 DEF Init, TypeInv, TypeOK, SessionType

(* Rows, sessions, scores and what the clients see keep their types, for all players, *)
(* songs and points: a judgement never has a round without a song or a total that is  *)
(* no number.                                                                         *)
THEOREM GameTyped == Spec => []TypeOK
<1>1. TypeInv /\ [Next]_vars => TypeInv'
  BY TypeStep
<1>2. TypeInv => TypeOK
  BY DEF TypeInv
<1>. QED  BY TypeInit, <1>1, <1>2, PTL DEF Spec

-----------------------------------------------------------------------------
(* TotalsRunOn.  The judge reads the sum of a player's rows; what runs on is the total *)
(* in the player's last row.  Both are the same number in every list of rows that was  *)
(* built by judgements of which each knew the sum before it.                           *)
Paid(rows, p) == {i \in DOMAIN rows : rows[i].delta[p] > 0}

SumIsLastTotal(rows) ==
    \A p \in Players :
        \/ Paid(rows, p) = {} /\ SumOf(rows, p) = 0
        \/ \E i \in Paid(rows, p) :
              (\A j \in Paid(rows, p) : j <= i) /\ SumOf(rows, p) = rows[i].total[p]

RunsOn(rows, r) ==
    \A p \in Players : r.delta[p] > 0 => r.total[p] = SumOf(rows, p) + r.delta[p]

TotalsInv ==
    /\ TotalsRunOn /\ SumIsLastTotal(scores)
    /\ pc[Owner] = "commitScores" => RunsOn(scores, judged)

LEMMA RowAppended ==
    ASSUME NEW rows \in Seq(Judgement), NEW r \in Judgement
    PROVE  /\ Append(rows, r) \in Seq(Judgement) /\ Len(Append(rows, r)) = Len(rows) + 1
           /\ \A i \in 1 .. Len(rows) : Append(rows, r)[i] = rows[i]
           /\ Append(rows, r)[Len(rows) + 1] = r
           /\ DOMAIN rows = 1 .. Len(rows) /\ DOMAIN Append(rows, r) = 1 .. Len(rows) + 1
OBVIOUS

LEMMA SumStaysLastTotal ==
    ASSUME NEW rows \in Seq(Judgement), NEW r \in Judgement,
           SumIsLastTotal(rows), RunsOn(rows, r)
    PROVE  SumIsLastTotal(Append(rows, r))
<1>. DEFINE more == Append(rows, r)  N == Len(rows)
<1>1. /\ N \in Nat /\ DOMAIN rows = 1 .. N /\ DOMAIN more = 1 .. N + 1
      /\ more[N + 1] = r /\ \A i \in 1 .. N : more[i] = rows[i]
  BY RowAppended
<1>. SUFFICES ASSUME NEW p \in Players
              PROVE  \/ Paid(more, p) = {} /\ SumOf(more, p) = 0
                     \/ \E i \in Paid(more, p) :
                           (\A j \in Paid(more, p) : j <= i) /\ SumOf(more, p) = more[i].total[p]
  BY DEF SumIsLastTotal
<1>2. r.delta[p] \in Nat /\ \A n \in 1 .. N : rows[n].delta[p] \in Nat
  BY DeltasNatural, RoomAssumption DEF Judgement
<1>3. SumOf(more, p) = SumOf(rows, p) + r.delta[p] /\ SumOf(rows, p) \in Nat
  BY <1>2, SumOfAppend, SumOfNatural
<1>. HIDE DEF more, N
<1>4. CASE r.delta[p] > 0
  <2>1. N + 1 \in Paid(more, p) /\ \A j \in Paid(more, p) : j <= N + 1
    BY <1>1, <1>4 DEF Paid
  <2>2. SumOf(more, p) = more[N + 1].total[p]
    BY <1>1, <1>3, <1>4 DEF RunsOn
  <2>. QED  BY <2>1, <2>2
<1>5. CASE ~(r.delta[p] > 0)
  <2>1. SumOf(more, p) = SumOf(rows, p)
    BY <1>2, <1>3, <1>5
  <2>2. Paid(more, p) = Paid(rows, p)
    BY <1>1, <1>5 DEF Paid
  <2>3. \A i \in Paid(rows, p) : more[i] = rows[i]
    BY <1>1 DEF Paid
  <2>. QED  BY <2>1, <2>2, <2>3 DEF SumIsLastTotal
<1>. QED  BY <1>4, <1>5

(* With such a row the totals still run on. *)
LEMMA RowRunsOn ==
    ASSUME TypeInv, TotalsInv, RunsOn(scores, judged), scores' = Append(scores, judged)
    PROVE  TotalsRunOn'
<1>. DEFINE N == Len(scores)
<1>. scores \in Seq(Judgement) /\ judged \in Judgement
  BY DEF TypeInv, TypeOK
<1>1. /\ N \in Nat /\ DOMAIN scores = 1 .. N /\ DOMAIN scores' = 1 .. N + 1
      /\ scores'[N + 1] = judged /\ \A i \in 1 .. N : scores'[i] = scores[i]
  BY RowAppended
<1>. HIDE DEF N
<1>. SUFFICES ASSUME NEW k \in DOMAIN scores', NEW p \in Players, scores'[k].delta[p] > 0
              PROVE  LET earlier == {i \in 1 .. k - 1 : scores'[i].delta[p] > 0} IN
                     \/ earlier = {} /\ scores'[k].total[p] = scores'[k].delta[p]
                     \/ \E i \in earlier :
                           /\ \A j \in earlier : j <= i
                           /\ scores'[k].total[p] = scores'[i].total[p] + scores'[k].delta[p]
  BY DEF TotalsRunOn
<1>. DEFINE earlier == {i \in 1 .. k - 1 : scores[i].delta[p] > 0}
<1>2. earlier = {i \in 1 .. k - 1 : scores'[i].delta[p] > 0} /\ earlier \subseteq 1 .. N
  BY <1>1
<1>3. CASE k <= N
  <2>1. k \in DOMAIN scores /\ scores'[k] = scores[k]
    BY <1>1, <1>3
  <2>2. \/ earlier = {} /\ scores[k].total[p] = scores[k].delta[p]
        \/ \E i \in earlier :
              /\ \A j \in earlier : j <= i
              /\ scores[k].total[p] = scores[i].total[p] + scores[k].delta[p]
    BY <2>1 DEF TotalsInv, TotalsRunOn
  <2>. HIDE DEF earlier
  <2>. QED  BY <1>1, <1>2, <2>1, <2>2
<1>4. CASE ~(k <= N)
  <2>1. k = N + 1 /\ scores'[k] = judged /\ earlier = Paid(scores, p)
    BY <1>1, <1>4 DEF Paid
  <2>2. judged.total[p] = SumOf(scores, p) + judged.delta[p] /\ judged.delta[p] \in Nat
    BY <2>1, RoomAssumption DEF RunsOn, Judgement
  <2>3. \/ earlier = {} /\ SumOf(scores, p) = 0
        \/ \E i \in earlier : (\A j \in earlier : j <= i) /\ SumOf(scores, p) = scores[i].total[p]
    BY <2>1 DEF TotalsInv, SumIsLastTotal
  <2>. HIDE DEF earlier
  <2>. QED  BY <1>1, <1>2, <2>1, <2>2, <2>3
<1>. QED  BY <1>3, <1>4

LEMMA TotalsStep ==
    ASSUME TypeInv, TotalsInv, [Next]_vars
    PROVE  TotalsInv'
<1>. USE DEF db, keys, session, Step
<1>. SessionType /\ Owner \in Players
  BY RoomAssumption DEF TypeInv, TypeOK, SessionType
<1>1. ASSUME UNCHANGED scores,
             pc'[Owner] = "commitScores" => pc[Owner] = "commitScores" /\ judged' = judged
      PROVE  TotalsInv'
  BY <1>1 DEF TotalsInv, TotalsRunOn, SumIsLastTotal, Paid, RunsOn
<1>2. CASE UNCHANGED vars
  BY <1>1, <1>2 DEF vars
<1>3. CASE OwnerRequest
  <2>1. pc'[Owner] # "commitScores" /\ UNCHANGED scores
    BY <1>3 DEF OwnerRequest, SkipRound, RoundEnd, RoundStateUpdate, ShowSong, Judging,
                JudgeSubmit, Receive, Goto, SessionType
  <2>. QED  BY <1>1, <2>1
<1>4. ASSUME NEW p \in Players,
             \/ PlayerRequest(p) \/ MoveRound(p) \/ CommitRound(p) \/ RoundStart(p) \/ Commit(p)
             \/ Enqueue(p) \/ SaveAnswer(p)
      PROVE  TotalsInv'
  <2>1. /\ UNCHANGED <<scores, judged>>
        /\ Return(p) \/ \E l : Goto(p, l) /\ l # "commitScores"
    <3>1. Proceed(p) => Return(p) \/ \E l : Goto(p, l) /\ l # "commitScores"
      BY DEF Proceed, SessionType, Move
    <3>. QED  BY <1>4, <3>1 DEF PlayerRequest, GameStart, Attempt, Answer, Receive, MoveRound,
                CommitRound, RoundStart, Commit, Enqueue, SaveAnswer
  <2>2. pc'[p] # "commitScores" /\ \A q \in Players : q # p => pc'[q] = pc[q]
    BY <2>1 DEF Return, Goto, SessionType
  <2>. QED  BY <1>1, <2>1, <2>2
<1>5. CASE SkipClear \/ SkipPlayback \/ ShowJudging \/ ShowScores
  <2>1. pc'[Owner] # "commitScores" /\ UNCHANGED scores
    BY <1>5 DEF SkipClear, SkipPlayback, ShowJudging, ShowScores, Return, Goto, SessionType
  <2>. QED  BY <1>1, <2>1
<1>6. CASE Score
  <2>1. scores' = scores
    BY <1>6 DEF Score
  <2>2. PICK delta \in Awards(seen[Owner].index) :
          judged' = [round |-> seen[Owner].index, delta |-> delta,
                     total |-> [p \in Players |->
                                  IF delta[p] > 0 THEN SumOf(scores, p) + delta[p] ELSE 0]]
    BY <1>6 DEF Score
  <2>3. RunsOn(scores, judged')
    BY <2>2 DEF RunsOn
  <2>. QED  BY <2>1, <2>3 DEF TotalsInv, TotalsRunOn, SumIsLastTotal, Paid, RunsOn
<1>7. CASE CommitScores
  <2>1. /\ pc[Owner] = "commitScores" /\ pc'[Owner] = "showScores"
        /\ scores' = Append(scores, judged)
    BY <1>7 DEF CommitScores, Goto, SessionType
  <2>2. RunsOn(scores, judged)
    BY <2>1 DEF TotalsInv
  <2>3. SumIsLastTotal(Append(scores, judged))
    BY <2>2, SumStaysLastTotal DEF TotalsInv, TypeInv, TypeOK
  <2>4. SumIsLastTotal(scores)'
    BY <2>1, <2>3 DEF SumIsLastTotal, Paid
  <2>. QED  BY <2>1, <2>2, <2>4, RowRunsOn DEF TotalsInv
<1>. QED  BY <1>2, <1>3, <1>4, <1>5, <1>6, <1>7 DEF Next, HandlerStep, OwnerStep

(* No judgement is added to a total that misses or repeats another, for any number of *)
(* players and judgements and whoever starts games: the sum over the stored rows that *)
(* save_score_record takes is the player's last total, because the owner judges one   *)
(* answer at a time and reads and writes in one session.                              *)
THEOREM TotalsRun == Spec => []TotalsRunOn
<1>1. Init => TotalsInv
  <2>. SUFFICES ASSUME Init PROVE TotalsInv
    OBVIOUS
  <2>1. scores = <<>> /\ DOMAIN scores = {} /\ pc[Owner] = "idle"
    BY RoomAssumption DEF Init
  <2>2. \A p \in Players : SumOf(scores, p) = 0 /\ Paid(scores, p) = {}
    BY <2>1, SumOfEmpty DEF Paid
  <2>. QED  BY <2>1, <2>2 DEF TotalsInv, TotalsRunOn, SumIsLastTotal
<1>2. TypeInv /\ TotalsInv /\ [Next]_vars => TypeInv' /\ TotalsInv'
  BY TypeStep, TotalsStep
<1>3. TotalsInv => TotalsRunOn
  BY DEF TotalsInv
<1>. QED  BY TypeInit, <1>1, <1>2, <1>3, PTL DEF Spec
=============================================================================
