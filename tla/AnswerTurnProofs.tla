--------------------------- MODULE AnswerTurnProofs ---------------------------
(***************************************************************************)
(* Theorems about AnswerTurn for every set of players, every queue of      *)
(* songs and every set of requests, proved with TLAPS.                     *)
(***************************************************************************)
EXTENDS AnswerTurn, SumLemmas, TLAPS

-----------------------------------------------------------------------------
(* Where the handler of SKIP_ROUND may be: it found a next song.               *)
Skipping(p) ==
    \/ pc[p] \in {"skipQueue", "skipAnswerer", "skipDeadline", "skipDeadlineAgain",
                  "skipPlayback", "roundStart", "skipCommit"}
    \/ pc[p] \in {"moveRound", "commitRound"} /\ goal[p] = "PLAYING_AUDIO"

(* Where a handler's target is a player: an elected one, or the one being kicked. *)
HasTarget(p) ==
    \/ pc[p] \in {"elect", "pause", "setDeadline", "yourTurn", "pass"}
    \/ pc[p] \in {"kickFind", "kickRemove", "kickIndex", "kickTail", "kickDelete"}
    \/ pc[p] \in {"moveRound", "commitRound"} /\ goal[p] = "ANSWERING"

(* The strengthening of TypeOK that is inductive.  Only the owner's handler skips *)
(* and kicks; an index that is about to be committed is one of the song queue.    *)
TypeInv ==
    /\ TypeOK
    /\ \A p \in Players :
          /\ Skipping(p) => "SKIP_ROUND" \in Requests
          /\ HasTarget(p) => target[p] \in Players
    /\ Skipping(Owner) => songIndex + 1 \in Rounds

(* The facts about the data that the steps rely on. *)
LEMMA QuietTyped == Quiet0 \in Playback
BY TurnAssumption DEF Quiet0, Playback, Rounds

(* The first members of a set are members of it. *)
LEMMA FirstIn == ASSUME NEW S PROVE First(S) \subseteq S
BY DEF First

(* Elections and successors name players of the queue they read. *)
LEMMA SuccessorIn ==
    ASSUME NEW S \in SUBSET Entry, NEW p
    PROVE  Successor(S, p) \subseteq Players
BY DEF Successor, First, Entry

LEMMA NextAnswererIn ==
    ASSUME NEW S \in SUBSET Entry, NEW t, NEW p \in Players
    PROVE  NextAnswerer(S, t, p) \subseteq Players
<1>1. {e.player : e \in First(S)} \subseteq Players
  BY DEF First, Entry
<1>. QED  BY <1>1, SuccessorIn DEF NextAnswerer

LEMMA FlipTyped == ASSUME NEW e \in Entry PROVE Flip(e) \in Entry /\ e.player \in Players
BY DEF Flip, Entry

(* Handlers return to idle, and the transition of the round to a label of theirs. *)
LEMMA LabelsTyped ==
    /\ \A g : AfterMove(g) \in {"sync", "roundStart", "idle"}
    /\ \A t : AfterSync(t) = IF t = None THEN "setTail" ELSE "setDeadline"
BY DEF AfterMove, AfterSync

LEMMA InitType == Init => TypeInv
<1>. SUFFICES ASSUME Init PROVE TypeInv
  OBVIOUS
<1>1. TypeOK
  BY TurnAssumption, QuietTyped
     DEF Init, TypeOK, SharedType, LocalType, Rounds, Playback, Deadlines, Labels, RoundStates, Entry
<1>2. \A p \in Players : ~Skipping(p) /\ ~HasTarget(p)
  BY DEF Init, Skipping, HasTarget
<1>. QED  BY <1>1, <1>2, TurnAssumption DEF TypeInv

(* What a step of p's handler owes to the handlers: it moves no other one, and its *)
(* new place comes with what that place requires.                                  *)
Keeps(p) ==
    /\ \A q \in Players \ {p} :
          pc'[q] = pc[q] /\ target'[q] = target[q] /\ goal'[q] = goal[q]
    /\ Skipping(p)' => \/ Skipping(p)
                       \/ p = Owner /\ "SKIP_ROUND" \in Requests /\ songIndex + 1 \in Rounds
    /\ HasTarget(p)' => target'[p] \in Players

LEMMA OneHandler ==
    ASSUME TypeInv, NEW p \in Players, SharedType', LocalType', songIndex' = songIndex,
           Keeps(p)
    PROVE  TypeInv'
BY TurnAssumption DEF TypeInv, TypeOK, Keeps, Skipping, HasTarget, Rounds

(* A handler that returns leaves typed locals behind, and holds no obligation. *)
LEMMA ReturnKeeps ==
    ASSUME TypeInv, NEW p \in Players, Return(p), SharedType',
           songIndex' = songIndex \/ p = Owner
    PROVE  TypeInv'
<1>1. LocalType'
  BY QuietTyped DEF TypeInv, TypeOK, LocalType, Return, Goto, Labels, RoundStates
<1>2. ~Skipping(p)' /\ ~HasTarget(p)'
  BY DEF TypeInv, TypeOK, LocalType, Return, Goto, Skipping, HasTarget
<1>3. \A q \in Players \ {p} : pc'[q] = pc[q] /\ target'[q] = target[q] /\ goal'[q] = goal[q]
  BY DEF TypeInv, TypeOK, LocalType, Return, Goto
<1>. QED  BY <1>1, <1>2, <1>3, TurnAssumption DEF TypeInv, TypeOK, Skipping, HasTarget

(* The steps of ATTEMPT_ANSWER. *)
LEMMA AttemptType ==
    ASSUME TypeInv, NEW p \in Players, Attempt(p) \/ AttemptStep(p)
    PROVE  TypeInv'
<1>. USE DEF TypeInv, TypeOK, SharedType, LocalType, Goto, Step, db, keys, shown, locals
<1>1. CASE Attempt(p)
  <2>1. SharedType' /\ songIndex' = songIndex
    BY <1>1 DEF Attempt, Receive
  <2>2. LocalType'
    BY <1>1 DEF Attempt, Labels, Receive
  <2>3. Keeps(p)
    BY <1>1 DEF Attempt, Keeps, Skipping, HasTarget, Receive
  <2>. QED  BY <2>1, <2>2, <2>3, OneHandler
<1>2. CASE Reserve(p)
  <2>. DEFINE e(r) == [player |-> p, rank |-> r, answering |-> FALSE]
  <2>0. \A r \in Ranks : e(r) \in Entry
    BY DEF Entry
  <2>1. SharedType' /\ songIndex' = songIndex
    <3>1. UNCHANGED index \/ \E r \in Ranks : index' = [index EXCEPT ![p] = e(r)]
      BY <1>2 DEF Reserve
    <3>2. index' \in [Players -> Entry \cup {None}]
      BY <2>0, <3>1
    <3>. QED  BY <1>2, <3>2 DEF Reserve
  <2>2. CASE Return(p)
    BY <2>1, <2>2, ReturnKeeps
  <2>3. CASE ~Return(p)
    <3>1. LocalType'
      <4>1. /\ Goto(p, "enqueue") /\ UNCHANGED <<target, heard, late, goal>>
            /\ \E r \in Ranks : view' = [view EXCEPT ![p] = {e(r)}]
        BY <1>2, <2>3 DEF Reserve
      <4>. QED  BY <2>0, <4>1 DEF Labels
    <3>2. Keeps(p)
      BY <1>2, <2>3 DEF Reserve, Keeps, Skipping, HasTarget
    <3>. QED  BY <2>1, <3>1, <3>2, OneHandler
  <2>. QED  BY <2>2, <2>3
<1>3. CASE Enqueue(p)
  <2>1. SharedType' /\ songIndex' = songIndex
    BY <1>3 DEF Enqueue
  <2>2. LocalType'
    BY <1>3 DEF Enqueue, Labels
  <2>3. Keeps(p)
    BY <1>3 DEF Enqueue, Keeps, Skipping, HasTarget
  <2>. QED  BY <2>1, <2>2, <2>3, OneHandler
<1>4. CASE ReadPlayback(p)
  <2>1. SharedType' /\ songIndex' = songIndex
    BY <1>4 DEF ReadPlayback
  <2>2. CASE Return(p)
    BY <2>1, <2>2, ReturnKeeps
  <2>3. CASE ~Return(p)
    <3>1. LocalType'
      <4>1. /\ Goto(p, "readQueue") /\ heard' = [heard EXCEPT ![p] = playback]
            /\ UNCHANGED <<target, view, late, goal>>
        BY <1>4, <2>3 DEF ReadPlayback
      <4>. QED  BY <4>1 DEF Labels
    <3>2. Keeps(p)
      BY <1>4, <2>3 DEF ReadPlayback, Keeps, Skipping, HasTarget
    <3>. QED  BY <2>1, <3>1, <3>2, OneHandler
  <2>. QED  BY <2>2, <2>3
<1>5. CASE ReadQueue(p)
  <2>1. SharedType' /\ songIndex' = songIndex
    BY <1>5 DEF ReadQueue
  <2>2. CASE Return(p)
    BY <2>1, <2>2, ReturnKeeps
  <2>3. CASE ~Return(p)
    <3>1. LocalType'
      BY <1>5, <2>3 DEF ReadQueue, Labels
    <3>2. Keeps(p)
      BY <1>5, <2>3 DEF ReadQueue, Keeps, Skipping, HasTarget
    <3>. QED  BY <2>1, <3>1, <3>2, OneHandler
  <2>. QED  BY <2>2, <2>3
<1>6. CASE ReadTail(p)
  <2>1. SharedType' /\ songIndex' = songIndex
    BY <1>6 DEF ReadTail
  <2>2. LocalType'
    BY <1>6, NextAnswererIn DEF ReadTail, Labels
  <2>3. Keeps(p)
    BY <1>6, NextAnswererIn DEF ReadTail, Keeps, Skipping, HasTarget
  <2>. QED  BY <2>1, <2>2, <2>3, OneHandler
<1>7. CASE Elect(p)
  <2>1. SharedType' /\ songIndex' = songIndex
    BY <1>7 DEF Elect
  <2>2. CASE Return(p)
    BY <2>1, <2>2, ReturnKeeps
  <2>3. CASE ~Return(p)
    <3>1. LocalType'
      BY <1>7, <2>3 DEF Elect, Labels
    <3>2. Keeps(p)
      BY <1>7, <2>3 DEF Elect, Keeps, Skipping, HasTarget
    <3>. QED  BY <2>1, <3>1, <3>2, OneHandler
  <2>. QED  BY <2>2, <2>3
<1>8. CASE Pause(p)
  <2>1. SharedType' /\ songIndex' = songIndex
    BY <1>8 DEF Pause, Playback
  <2>2. LocalType'
    BY <1>8, QuietTyped DEF Pause, Labels, RoundStates
  <2>3. Keeps(p)
    BY <1>8 DEF Pause, Keeps, Skipping, HasTarget
  <2>. QED  BY <2>1, <2>2, <2>3, OneHandler
<1>. QED  BY <1>1, <1>2, <1>3, <1>4, <1>5, <1>6, <1>7, <1>8 DEF AttemptStep

(* The steps of SUBMIT_ANSWER. *)
LEMMA SubmitType ==
    ASSUME TypeInv, NEW p \in Players, Submit(p) \/ SubmitStep(p)
    PROVE  TypeInv'
<1>. USE DEF TypeInv, TypeOK, SharedType, LocalType, Goto, Step, db, keys, shown, locals
<1>1. CASE Submit(p)
  <2>1. SharedType' /\ songIndex' = songIndex
    BY <1>1 DEF Submit, Receive
  <2>2. LocalType'
    BY <1>1 DEF Submit, Labels, Receive
  <2>3. Keeps(p)
    BY <1>1 DEF Submit, Keeps, Skipping, HasTarget, Receive
  <2>. QED  BY <2>1, <2>2, <2>3, OneHandler
<1>2. CASE CheckTurn(p)
  <2>1. SharedType' /\ songIndex' = songIndex
    BY <1>2 DEF CheckTurn
  <2>2. LocalType'
    BY <1>2 DEF CheckTurn, Labels
  <2>3. Keeps(p)
    BY <1>2 DEF CheckTurn, Keeps, Skipping, HasTarget
  <2>. QED  BY <2>1, <2>2, <2>3, OneHandler
<1>3. CASE CheckDeadline(p)
  <2>1. SharedType' /\ songIndex' = songIndex
    BY <1>3 DEF CheckDeadline
  <2>2. LocalType'
    BY <1>3 DEF CheckDeadline, Labels
  <2>3. Keeps(p)
    BY <1>3 DEF CheckDeadline, Keeps, Skipping, HasTarget
  <2>. QED  BY <2>1, <2>2, <2>3, OneHandler
<1>4. CASE Save(p)
  <2>1. SharedType' /\ songIndex' = songIndex
    <3>1. answers' \in [Players -> [Rounds -> 0 .. AnswerCap]]
      <4>1. CASE UNCHANGED answers
        BY <4>1
      <4>2. CASE p \notin kicked
        <5>1. \A n \in 0 .. AnswerCap :
                 (IF n < AnswerCap THEN n + 1 ELSE n) \in 0 .. AnswerCap
          BY TurnAssumption
        <5>2. [answers[p] EXCEPT ![songIndex] =
                 IF @ < AnswerCap THEN @ + 1 ELSE @] \in [Rounds -> 0 .. AnswerCap]
          BY <5>1
        <5>3. answers' = [answers EXCEPT ![p] =
                 [answers[p] EXCEPT ![songIndex] = IF @ < AnswerCap THEN @ + 1 ELSE @]]
          BY <1>4, <4>2 DEF Save
        <5>. QED  BY <5>2, <5>3
      <4>. QED  BY <1>4, <4>1, <4>2 DEF Save
    <3>. QED  BY <1>4, <3>1 DEF Save
  <2>2. CASE Return(p)
    BY <2>1, <2>2, ReturnKeeps
  <2>3. CASE ~Return(p)
    <3>1. LocalType'
      BY <1>4, <2>3 DEF Save, Labels
    <3>2. Keeps(p)
      BY <1>4, <2>3 DEF Save, Keeps, Skipping, HasTarget
    <3>. QED  BY <2>1, <3>1, <3>2, OneHandler
  <2>. QED  BY <2>2, <2>3
<1>5. CASE PickNext(p)
  <2>1. SharedType' /\ songIndex' = songIndex
    BY <1>5 DEF PickNext
  <2>2. CASE Return(p)
    BY <2>1, <2>2, ReturnKeeps
  <2>3. CASE ~Return(p)
    <3>1. LocalType'
      <4>1. \/ \E n \in Successor(queue, p) :
                 /\ target' = [target EXCEPT ![p] = n] /\ Goto(p, "pass")
                 /\ UNCHANGED <<view, heard, late, goal>>
            \/ (Goto(p, "dropDeadline") \/ Goto(p, "resume")) /\ UNCHANGED locals
        BY <1>5, <2>3 DEF PickNext
      <4>2. CASE \E n \in Successor(queue, p) :
                 /\ target' = [target EXCEPT ![p] = n] /\ Goto(p, "pass")
                 /\ UNCHANGED <<view, heard, late, goal>>
        BY <4>2, SuccessorIn DEF Labels
      <4>3. CASE (Goto(p, "dropDeadline") \/ Goto(p, "resume")) /\ UNCHANGED locals
        BY <4>3 DEF Labels
      <4>. QED  BY <4>1, <4>2, <4>3
    <3>2. Keeps(p)
      BY <1>5, <2>3, SuccessorIn DEF PickNext, Keeps, Skipping, HasTarget
    <3>. QED  BY <2>1, <3>1, <3>2, OneHandler
  <2>. QED  BY <2>2, <2>3
<1>6. CASE Pass(p)
  <2>1. SharedType' /\ songIndex' = songIndex
    BY <1>6 DEF Pass
  <2>2. CASE Return(p)
    BY <2>1, <2>2, ReturnKeeps
  <2>3. CASE ~Return(p)
    <3>1. LocalType'
      BY <1>6, <2>3 DEF Pass, Labels
    <3>2. Keeps(p)
      BY <1>6, <2>3 DEF Pass, Keeps, Skipping, HasTarget
    <3>. QED  BY <2>1, <3>1, <3>2, OneHandler
  <2>. QED  BY <2>2, <2>3
<1>7. CASE DropDeadline(p)
  <2>1. SharedType' /\ songIndex' = songIndex
    BY <1>7 DEF DropDeadline, Deadlines
  <2>2. LocalType'
    BY <1>7 DEF DropDeadline, Labels
  <2>3. Keeps(p)
    BY <1>7 DEF DropDeadline, Keeps, Skipping, HasTarget
  <2>. QED  BY <2>1, <2>2, <2>3, OneHandler
<1>8. CASE Release(p)
  <2>1. SharedType' /\ songIndex' = songIndex
    BY <1>8 DEF Release
  <2>2. CASE Return(p)
    BY <2>1, <2>2, ReturnKeeps
  <2>3. CASE ~Return(p)
    <3>1. LocalType'
      BY <1>8, <2>3 DEF Release, Labels
    <3>2. Keeps(p)
      BY <1>8, <2>3 DEF Release, Keeps, Skipping, HasTarget
    <3>. QED  BY <2>1, <3>1, <3>2, OneHandler
  <2>. QED  BY <2>2, <2>3
<1>9. CASE SetTail(p)
  <2>1. SharedType' /\ songIndex' = songIndex
    BY <1>9 DEF SetTail
  <2>2. LocalType'
    BY <1>9 DEF SetTail, Labels
  <2>3. Keeps(p)
    BY <1>9 DEF SetTail, Keeps, Skipping, HasTarget
  <2>. QED  BY <2>1, <2>2, <2>3, OneHandler
<1>10. CASE Resume(p)
  <2>1. SharedType' /\ songIndex' = songIndex
    BY <1>10 DEF Resume
  <2>2. CASE Return(p)
    BY <2>1, <2>2, ReturnKeeps
  <2>3. CASE ~Return(p)
    <3>1. LocalType'
      <4>1. /\ Goto(p, "play") /\ heard' = [heard EXCEPT ![p] = playback]
            /\ UNCHANGED <<target, view, late, goal>>
        BY <1>10, <2>3 DEF Resume
      <4>. QED  BY <4>1 DEF Labels
    <3>2. Keeps(p)
      BY <1>10, <2>3 DEF Resume, Keeps, Skipping, HasTarget
    <3>. QED  BY <2>1, <3>1, <3>2, OneHandler
  <2>. QED  BY <2>2, <2>3
<1>11. CASE Play(p)
  <2>1. SharedType' /\ songIndex' = songIndex
    BY <1>11 DEF Play, Playback
  <2>2. CASE Return(p)
    BY <2>1, <2>2, ReturnKeeps
  <2>3. CASE ~Return(p)
    <3>1. LocalType'
      BY <1>11, <2>3 DEF Play, Labels
    <3>2. Keeps(p)
      BY <1>11, <2>3 DEF Play, Keeps, Skipping, HasTarget
    <3>. QED  BY <2>1, <3>1, <3>2, OneHandler
  <2>. QED  BY <2>2, <2>3
<1>. QED  BY <1>1, <1>2, <1>3, <1>4, <1>5, <1>6, <1>7, <1>8, <1>9, <1>10, <1>11 DEF SubmitStep

(* The steps shared by the handlers, and PLAY and PAUSE. *)
LEMMA SharedStepType ==
    ASSUME TypeInv, NEW p \in Players, Control(p) \/ SharedStep(p)
    PROVE  TypeInv'
<1>. USE DEF TypeInv, TypeOK, SharedType, LocalType, Goto, Step, db, keys, shown, locals
<1>1. CASE Control(p)
  <2>1. SharedType' /\ songIndex' = songIndex
    BY <1>1 DEF Control, Receive
  <2>2. LocalType'
    <3>1. \A s \in {"playing", "paused"} : [playback EXCEPT !.state = s] \in Playback
      BY DEF Playback
    <3>2. heard' \in [Players -> Playback]
      BY <1>1, <3>1 DEF Control
    <3>. QED  BY <1>1, <3>2 DEF Control, Labels
  <2>3. Keeps(p)
    BY <1>1 DEF Control, Keeps, Skipping, HasTarget, Receive
  <2>. QED  BY <2>1, <2>2, <2>3, OneHandler
<1>2. CASE MoveRound(p)
  <2>1. SharedType' /\ songIndex' = songIndex
    BY <1>2 DEF MoveRound
  <2>2. CASE Return(p)
    BY <2>1, <2>2, ReturnKeeps
  <2>3. CASE ~Return(p)
    <3>1. LocalType'
      BY <1>2, <2>3, LabelsTyped DEF MoveRound, Labels
    <3>2. Keeps(p)
      BY <1>2, <2>3, LabelsTyped DEF MoveRound, Keeps, Skipping, HasTarget, AfterMove
    <3>. QED  BY <2>1, <3>1, <3>2, OneHandler
  <2>. QED  BY <2>2, <2>3
<1>3. CASE CommitRound(p)
  <2>1. SharedType' /\ songIndex' = songIndex
    BY <1>3 DEF CommitRound
  <2>2. CASE Return(p)
    BY <2>1, <2>2, ReturnKeeps
  <2>3. CASE ~Return(p)
    <3>1. LocalType'
      BY <1>3, <2>3, LabelsTyped DEF CommitRound, Labels
    <3>2. Keeps(p)
      BY <1>3, <2>3, LabelsTyped DEF CommitRound, Keeps, Skipping, HasTarget, AfterMove
    <3>. QED  BY <2>1, <3>1, <3>2, OneHandler
  <2>. QED  BY <2>2, <2>3
<1>4. CASE SyncRead(p)
  <2>1. SharedType' /\ songIndex' = songIndex
    BY <1>4 DEF SyncRead
  <2>2. LocalType'
    BY <1>4, LabelsTyped DEF SyncRead, Labels
  <2>3. Keeps(p)
    BY <1>4, LabelsTyped DEF SyncRead, Keeps, Skipping, HasTarget
  <2>. QED  BY <2>1, <2>2, <2>3, OneHandler
<1>5. CASE SyncItem(p)
  <2>1. SharedType' /\ songIndex' = songIndex
    BY <1>5, FirstIn, FlipTyped DEF SyncItem
  <2>2. LocalType'
    <3>1. /\ UNCHANGED <<target, heard, late, goal>>
          /\ \/ \E e \in First(view[p]) : NextItem(p, e)
             \/ Goto(p, "syncAdd") /\ UNCHANGED view
      BY <1>5 DEF SyncItem
    <3>2. CASE \E e \in First(view[p]) : NextItem(p, e)
      BY <3>1, <3>2, LabelsTyped DEF NextItem, Labels
    <3>3. CASE Goto(p, "syncAdd") /\ UNCHANGED view
      BY <3>1, <3>3 DEF Labels
    <3>. QED  BY <3>1, <3>2, <3>3
  <2>3. Keeps(p)
    <3>1. /\ UNCHANGED <<target, heard, late, goal>> /\ pc[p] = "syncItem"
          /\ \/ \E e \in First(view[p]) : NextItem(p, e)
             \/ Goto(p, "syncAdd")
      BY <1>5 DEF SyncItem
    <3>2. CASE \E e \in First(view[p]) : NextItem(p, e)
      BY <3>1, <3>2, LabelsTyped DEF NextItem, Keeps, Skipping, HasTarget
    <3>3. CASE Goto(p, "syncAdd")
      BY <3>1, <3>3 DEF Keeps, Skipping, HasTarget
    <3>. QED  BY <3>1, <3>2, <3>3
  <2>. QED  BY <2>1, <2>2, <2>3, OneHandler
<1>6. CASE SyncAdd(p)
  <2>1. SharedType' /\ songIndex' = songIndex
    BY <1>6, FirstIn, FlipTyped DEF SyncAdd
  <2>2. LocalType'
    BY <1>6 DEF SyncAdd, Labels
  <2>3. Keeps(p)
    BY <1>6 DEF SyncAdd, Keeps, Skipping, HasTarget
  <2>. QED  BY <2>1, <2>2, <2>3, OneHandler
<1>7. CASE SyncIndex(p)
  <2>1. SharedType' /\ songIndex' = songIndex
    BY <1>7, FirstIn, FlipTyped DEF SyncIndex
  <2>2. LocalType'
    BY <1>7, LabelsTyped DEF SyncIndex, Labels, NextItem
  <2>3. Keeps(p)
    BY <1>7, LabelsTyped DEF SyncIndex, Keeps, Skipping, HasTarget, NextItem
  <2>. QED  BY <2>1, <2>2, <2>3, OneHandler
<1>8. CASE SetDeadline(p)
  <2>1. SharedType' /\ songIndex' = songIndex
    BY <1>8 DEF SetDeadline, Deadlines
  <2>2. LocalType'
    BY <1>8 DEF SetDeadline, Labels
  <2>3. Keeps(p)
    BY <1>8 DEF SetDeadline, Keeps, Skipping, HasTarget
  <2>. QED  BY <2>1, <2>2, <2>3, OneHandler
<1>9. CASE YourTurn(p)
  <2>1. SharedType' /\ songIndex' = songIndex
    BY <1>9 DEF YourTurn
  <2>2. CASE Return(p)
    BY <2>1, <2>2, ReturnKeeps
  <2>3. CASE ~Return(p)
    <3>1. LocalType'
      BY <1>9, <2>3 DEF YourTurn, Labels
    <3>2. Keeps(p)
      BY <1>9, <2>3 DEF YourTurn, Keeps, Skipping, HasTarget
    <3>. QED  BY <2>1, <3>1, <3>2, OneHandler
  <2>. QED  BY <2>2, <2>3
<1>10. CASE SetPlayback(p)
  <2>1. SharedType' /\ songIndex' = songIndex
    BY <1>10 DEF SetPlayback
  <2>2. CASE Return(p)
    BY <2>1, <2>2, ReturnKeeps
  <2>3. CASE ~Return(p)
    <3>1. LocalType'
      BY <1>10, <2>3 DEF SetPlayback, Labels
    <3>2. Keeps(p)
      BY <1>10, <2>3 DEF SetPlayback, Keeps, Skipping, HasTarget
    <3>. QED  BY <2>1, <3>1, <3>2, OneHandler
  <2>. QED  BY <2>2, <2>3
<1>. QED  BY <1>1, <1>2, <1>3, <1>4, <1>5, <1>6, <1>7, <1>8, <1>9, <1>10 DEF SharedStep

(* The steps of SKIP_ROUND. *)
LEMMA SkipType ==
    ASSUME TypeInv, Skip \/ SkipQueue \/ SkipAnswerer \/ SkipDeadline \/ SkipPlayback \/ RoundStart \/ SkipCommit
    PROVE  TypeInv'
<1>. Owner \in Players
  BY TurnAssumption
<1>. USE DEF TypeInv, TypeOK, SharedType, LocalType, Goto, Step, db, keys, shown, locals
<1>1. CASE Skip
  <2>1. SharedType' /\ songIndex' = songIndex
    BY <1>1 DEF Skip, Receive
  <2>2. LocalType'
    BY <1>1 DEF Skip, Labels, Receive
  <2>3. Keeps(Owner)
    BY <1>1, TurnAssumption DEF Skip, Keeps, Skipping, HasTarget, Receive, Rounds
  <2>. QED  BY <2>1, <2>2, <2>3, OneHandler
<1>2. CASE SkipQueue
  <2>1. SharedType' /\ songIndex' = songIndex
    BY <1>2 DEF SkipQueue, EmptyQueue
  <2>2. LocalType'
    BY <1>2 DEF SkipQueue, Labels
  <2>3. Keeps(Owner)
    BY <1>2 DEF SkipQueue, Keeps, Skipping, HasTarget
  <2>. QED  BY <2>1, <2>2, <2>3, OneHandler
<1>3. CASE SkipAnswerer
  <2>1. SharedType' /\ songIndex' = songIndex
    BY <1>3 DEF SkipAnswerer
  <2>2. LocalType'
    BY <1>3 DEF SkipAnswerer, Labels
  <2>3. Keeps(Owner)
    BY <1>3 DEF SkipAnswerer, Keeps, Skipping, HasTarget
  <2>. QED  BY <2>1, <2>2, <2>3, OneHandler
<1>4. CASE SkipDeadline
  <2>1. SharedType' /\ songIndex' = songIndex
    BY <1>4 DEF SkipDeadline, Deadlines
  <2>2. LocalType'
    BY <1>4 DEF SkipDeadline, Labels
  <2>3. Keeps(Owner)
    BY <1>4 DEF SkipDeadline, Keeps, Skipping, HasTarget
  <2>. QED  BY <2>1, <2>2, <2>3, OneHandler
<1>5. CASE SkipPlayback
  <2>1. SharedType' /\ songIndex' = songIndex
    BY <1>5 DEF SkipPlayback, Playback, Skipping
  <2>2. LocalType'
    BY <1>5 DEF SkipPlayback, Labels, RoundStates
  <2>3. Keeps(Owner)
    BY <1>5 DEF SkipPlayback, Keeps, Skipping, HasTarget
  <2>. QED  BY <2>1, <2>2, <2>3, OneHandler
<1>6. CASE RoundStart
  <2>1. SharedType' /\ songIndex' = songIndex
    BY <1>6 DEF RoundStart, Skipping
  <2>2. LocalType'
    BY <1>6 DEF RoundStart, Labels
  <2>3. Keeps(Owner)
    BY <1>6 DEF RoundStart, Keeps, Skipping, HasTarget
  <2>. QED  BY <2>1, <2>2, <2>3, OneHandler
<1>7. CASE SkipCommit
  <2>1. SharedType'
    BY <1>7 DEF SkipCommit, Skipping
  <2>. QED  BY <1>7, <2>1, ReturnKeeps DEF SkipCommit
<1>. QED  BY <1>1, <1>2, <1>3, <1>4, <1>5, <1>6, <1>7

(* The end of GAME_START, the owner's other requests, and the steps of KICK_USER. *)
LEMMA OwnerType ==
    ASSUME TypeInv, StartPlayback \/ OwnerMove \/ (\E v \in Players : Kick(v)) \/ KickFind \/ KickRemove
           \/ KickIndex \/ KickTail \/ KickDelete
    PROVE  TypeInv'
<1>. Owner \in Players
  BY TurnAssumption
<1>. USE DEF TypeInv, TypeOK, SharedType, LocalType, Goto, Step, db, keys, shown, locals
<1>1. CASE OwnerMove
  <2>1. SharedType' /\ songIndex' = songIndex
    BY <1>1 DEF OwnerMove, Receive
  <2>2. LocalType'
    BY <1>1 DEF OwnerMove, Labels, Receive, RoundStates
  <2>3. Keeps(Owner)
    BY <1>1 DEF OwnerMove, Keeps, Skipping, HasTarget, Receive
  <2>. QED  BY <2>1, <2>2, <2>3, OneHandler
<1>2. CASE \E v \in Players : Kick(v)
  <2>0. PICK v \in Players : Kick(v)
    BY <1>2
  <2>1. SharedType' /\ songIndex' = songIndex
    BY <2>0 DEF Kick
  <2>2. LocalType'
    BY <2>0 DEF Kick, Labels
  <2>3. Keeps(Owner)
    BY <2>0 DEF Kick, Receive, Keeps, Skipping, HasTarget
  <2>. QED  BY <2>1, <2>2, <2>3, OneHandler
<1>3. CASE KickFind
  <2>. DEFINE v == target[Owner]
  <2>0. v \in Players
    BY <1>3 DEF KickFind, HasTarget
  <2>1. SharedType' /\ songIndex' = songIndex
    <3>1. CASE index[v] # None
      BY <1>3, <3>1 DEF KickFind
    <3>2. CASE index[v] = None
      <4>1. \A q \in Players :
               PlaceOf(queue, q) # {} => (CHOOSE e \in PlaceOf(queue, q) : TRUE) \in Entry
        BY DEF PlaceOf, First
      <4>2. index' = [q \in Players |->
                IF q = v \/ index[q] # None \/ PlaceOf(queue, q) = {} THEN index[q]
                ELSE CHOOSE e \in PlaceOf(queue, q) : TRUE]
        BY <1>3, <3>2 DEF KickFind
      <4>3. index' \in [Players -> Entry \cup {None}]
        BY <4>1, <4>2
      <4>4. queue' \subseteq queue /\ tail' \in {tail, None}
        BY <1>3, <3>2 DEF KickFind
      <4>. QED  BY <1>3, <3>2, <4>3, <4>4 DEF KickFind
    <3>. QED  BY <3>1, <3>2
  <2>2. LocalType'
    <3>1. pc' \in [Players -> Labels]
      BY <1>3 DEF KickFind, Labels
    <3>2. view' \in [Players -> SUBSET Entry]
      BY <1>3, <2>0 DEF KickFind
    <3>. QED  BY <1>3, <3>1, <3>2 DEF KickFind
  <2>3. Keeps(Owner)
    BY <1>3 DEF KickFind, Keeps, Skipping, HasTarget
  <2>. QED  BY <2>1, <2>2, <2>3, OneHandler
<1>4. CASE KickRemove
  <2>1. SharedType' /\ songIndex' = songIndex
    BY <1>4 DEF KickRemove
  <2>2. LocalType'
    BY <1>4 DEF KickRemove, Labels
  <2>3. Keeps(Owner)
    BY <1>4 DEF KickRemove, Keeps, Skipping, HasTarget
  <2>. QED  BY <2>1, <2>2, <2>3, OneHandler
<1>5. CASE KickIndex
  <2>1. SharedType' /\ songIndex' = songIndex
    BY <1>5 DEF KickIndex
  <2>2. LocalType'
    BY <1>5 DEF KickIndex, Labels
  <2>3. Keeps(Owner)
    BY <1>5 DEF KickIndex, Keeps, Skipping, HasTarget
  <2>. QED  BY <2>1, <2>2, <2>3, OneHandler
<1>6. CASE KickTail
  <2>1. SharedType' /\ songIndex' = songIndex
    BY <1>6 DEF KickTail
  <2>2. LocalType'
    BY <1>6 DEF KickTail, Labels
  <2>3. Keeps(Owner)
    BY <1>6 DEF KickTail, Keeps, Skipping, HasTarget
  <2>. QED  BY <2>1, <2>2, <2>3, OneHandler
<1>7. CASE KickDelete
  <2>1. target[Owner] \in Players
    BY <1>7 DEF KickDelete, HasTarget
  <2>2. [r \in Rounds |-> 0] \in [Rounds -> 0 .. AnswerCap]
    BY TurnAssumption
  <2>3. SharedType' /\ songIndex' = songIndex
    BY <1>7, <2>1, <2>2 DEF KickDelete
  <2>. QED  BY <1>7, <2>3, ReturnKeeps DEF KickDelete
<1>8. CASE StartPlayback
  <2>1. SharedType' /\ songIndex' = songIndex
    <3>1. [state |-> "playing", song |-> 0] \in Playback
      BY TurnAssumption DEF Playback, Rounds
    <3>. QED  BY <1>8, <3>1 DEF StartPlayback
  <2>. QED  BY <1>8, <2>1, ReturnKeeps DEF StartPlayback
<1>. QED  BY <1>1, <1>2, <1>3, <1>4, <1>5, <1>6, <1>7, <1>8

LEMMA TypeStep == TypeInv /\ [Next]_vars => TypeInv'
<1>. SUFFICES ASSUME TypeInv, [Next]_vars PROVE TypeInv'
  OBVIOUS
<1>1. CASE \E p \in Players : ClientRequest(p) \/ HandlerStep(p)
  <2>1. PICK p \in Players : ClientRequest(p) \/ HandlerStep(p)
    BY <1>1
  <2>2. CASE ClientRequest(p)
    BY <2>2, AttemptType, SubmitType, SharedStepType DEF ClientRequest
  <2>3. CASE HandlerStep(p)
    BY <2>3, AttemptType, SubmitType, SharedStepType, SkipType, OwnerType
       DEF HandlerStep, OwnerStep
  <2>. QED  BY <2>1, <2>2, <2>3
<1>2. CASE OwnerRequest
  <2>1. CASE ClearAnswerQueue
    <3>1. EmptyQueue /\ UNCHANGED <<db, answerer, deadline, playback, shown, pc, locals>>
      BY <2>1 DEF ClearAnswerQueue
    <3>. QED  BY <3>1 DEF EmptyQueue, TypeInv, TypeOK, SharedType, LocalType, Skipping, HasTarget,
                          db, shown, locals
  <2>. QED  BY <1>2, <2>1, SkipType, OwnerType DEF OwnerRequest
<1>3. CASE DeadlinePasses
  BY <1>3 DEF DeadlinePasses, TypeInv, TypeOK, SharedType, LocalType, Skipping, HasTarget,
              Deadlines, db, shown, locals
<1>4. CASE UNCHANGED vars
  BY <1>4 DEF TypeInv, TypeOK, SharedType, LocalType, Skipping, HasTarget, vars, db, keys,
              shown, locals
<1>. QED  BY <1>1, <1>2, <1>3, <1>4 DEF Next

(* Every reachable state is typed: the queue, its index and the handlers' views   *)
(* hold entries of the room's players, an elected or kicked user is a player, and *)
(* the song index that SKIP_ROUND announces and commits is one of the song queue. *)
THEOREM TypeCorrect == Spec => []TypeOK
<1>1. TypeInv => TypeOK
  BY DEF TypeInv
<1>. QED  BY <1>1, InitType, TypeStep, PTL DEF Spec

-----------------------------------------------------------------------------
(* What a step does to the turn: nothing, or one of four things. *)
TurnStays == UNCHANGED answerer /\ \A q \in Players : Serving(q)' <=> Serving(q)

TurnTaken ==
    /\ answerer = None /\ answerer' \in Players
    /\ \A q \in Players : Serving(q)' <=> Serving(q)

TurnReset ==
    /\ "SKIP_ROUND" \in Requests /\ answerer' = None
    /\ \A q \in Players : Serving(q)' <=> Serving(q)

SubmissionStarts(p) ==
    /\ answerer = p /\ UNCHANGED answerer
    /\ Serving(p)'
    /\ \A q \in Players \ {p} : Serving(q)' <=> Serving(q)

SubmissionEnds(p) ==
    /\ Serving(p) /\ ~Serving(p)'
    /\ answerer' = answerer \/ (answerer = p /\ answerer' \in Players \cup {None})
    /\ \A q \in Players \ {p} : Serving(q)' <=> Serving(q)

TurnEffect ==
    \/ TurnStays \/ TurnTaken \/ TurnReset
    \/ \E p \in Players : SubmissionStarts(p) \/ SubmissionEnds(p)

(* An attempt takes the turn in its election only. *)
LEMMA AttemptTurn ==
    ASSUME TypeInv, NEW p \in Players, Attempt(p) \/ AttemptStep(p)
    PROVE  TurnEffect
<1>. USE DEF TypeInv, TypeOK, SharedType, LocalType, Goto, Step, Return, db, keys, shown, locals, Serving
<1>1. Attempt(p) => TurnStays
  BY DEF Attempt, TurnStays, Receive
<1>2. Reserve(p) => TurnStays
  BY DEF Reserve, TurnStays
<1>3. Enqueue(p) => TurnStays
  BY DEF Enqueue, TurnStays
<1>4. ReadPlayback(p) => TurnStays
  BY DEF ReadPlayback, TurnStays
<1>5. ReadQueue(p) => TurnStays
  BY DEF ReadQueue, TurnStays
<1>6. ReadTail(p) => TurnStays
  BY DEF ReadTail, TurnStays
<1>7. Elect(p) => (TurnTaken \/ TurnStays)
  BY DEF Elect, TurnTaken, TurnStays, HasTarget
<1>8. Pause(p) => TurnStays
  BY DEF Pause, TurnStays
<1>. QED  BY <1>1, <1>2, <1>3, <1>4, <1>5, <1>6, <1>7, <1>8 DEF TurnEffect, AttemptStep

(* A submission starts when the answerer is checked, and ends where its handler leaves the queue. *)
LEMMA SubmitTurn ==
    ASSUME TypeInv, NEW p \in Players, Submit(p) \/ SubmitStep(p)
    PROVE  TurnEffect
<1>. USE DEF TypeInv, TypeOK, SharedType, LocalType, Goto, Step, Return, db, keys, shown, locals, Serving
<1>1. Submit(p) => TurnStays
  BY DEF Submit, TurnStays, Receive
<1>2. CheckTurn(p) => (TurnStays \/ SubmissionStarts(p))
  BY DEF CheckTurn, TurnStays, SubmissionStarts
<1>3. CheckDeadline(p) => TurnStays
  BY DEF CheckDeadline, TurnStays
<1>4. Save(p) => (TurnStays \/ SubmissionEnds(p))
  BY DEF Save, TurnStays, SubmissionEnds
<1>5. PickNext(p) => (TurnStays \/ SubmissionEnds(p))
  BY DEF PickNext, TurnStays, SubmissionEnds
<1>6. Pass(p) => SubmissionEnds(p)
  BY DEF Pass, SubmissionEnds, HasTarget
<1>7. DropDeadline(p) => TurnStays
  BY DEF DropDeadline, TurnStays
<1>8. Release(p) => SubmissionEnds(p)
  BY DEF Release, SubmissionEnds
<1>9. SetTail(p) => TurnStays
  BY DEF SetTail, TurnStays
<1>10. Resume(p) => TurnStays
  BY DEF Resume, TurnStays
<1>11. Play(p) => TurnStays
  BY DEF Play, TurnStays
<1>. QED  BY <1>1, <1>2, <1>3, <1>4, <1>5, <1>6, <1>7, <1>8, <1>9, <1>10, <1>11 DEF TurnEffect, SubmitStep

(* The shared steps leave the turn alone. *)
LEMMA SharedTurn ==
    ASSUME TypeInv, NEW p \in Players, Control(p) \/ SharedStep(p)
    PROVE  TurnEffect
<1>. USE DEF TypeInv, TypeOK, SharedType, LocalType, Goto, Step, Return, db, keys, shown, locals, Serving
<1>1. Control(p) => TurnStays
  BY DEF Control, TurnStays, Receive
<1>2. MoveRound(p) => TurnStays
  BY LabelsTyped DEF MoveRound, TurnStays
<1>3. CommitRound(p) => TurnStays
  BY LabelsTyped DEF CommitRound, TurnStays
<1>4. SyncRead(p) => TurnStays
  BY LabelsTyped DEF SyncRead, TurnStays
<1>5. SyncItem(p) => TurnStays
  BY LabelsTyped DEF SyncItem, TurnStays, NextItem
<1>6. SyncAdd(p) => TurnStays
  BY DEF SyncAdd, TurnStays
<1>7. SyncIndex(p) => TurnStays
  BY LabelsTyped DEF SyncIndex, TurnStays, NextItem
<1>8. SetDeadline(p) => TurnStays
  BY DEF SetDeadline, TurnStays
<1>9. YourTurn(p) => TurnStays
  BY DEF YourTurn, TurnStays
<1>10. SetPlayback(p) => TurnStays
  BY DEF SetPlayback, TurnStays
<1>. QED  BY <1>1, <1>2, <1>3, <1>4, <1>5, <1>6, <1>7, <1>8, <1>9, <1>10 DEF TurnEffect, SharedStep

(* Of the owner's steps, only SKIP_ROUND takes the turn away. *)
LEMMA OwnerTurn ==
    ASSUME TypeInv, OwnerRequest \/ OwnerStep
    PROVE  TurnEffect
<1>. USE DEF TypeInv, TypeOK, SharedType, LocalType, Goto, Step, Return, db, keys, shown, locals, Serving
<1>1. Skip => TurnStays
  BY TurnAssumption DEF Skip, TurnStays, Receive
<1>2. SkipQueue => TurnStays
  BY TurnAssumption DEF SkipQueue, TurnStays
<1>3. SkipAnswerer => TurnReset
  BY TurnAssumption DEF SkipAnswerer, TurnReset, Skipping
<1>4. SkipDeadline => TurnStays
  BY TurnAssumption DEF SkipDeadline, TurnStays
<1>5. SkipPlayback => TurnStays
  BY TurnAssumption DEF SkipPlayback, TurnStays
<1>6. RoundStart => TurnStays
  BY TurnAssumption DEF RoundStart, TurnStays
<1>7. SkipCommit => TurnStays
  BY TurnAssumption DEF SkipCommit, TurnStays
<1>8. ClearAnswerQueue => TurnStays
  BY TurnAssumption DEF ClearAnswerQueue, TurnStays
<1>9. OwnerMove => TurnStays
  BY TurnAssumption DEF OwnerMove, TurnStays, Receive
<1>10. ASSUME NEW v \in Players, Kick(v) PROVE TurnStays
  BY <1>10, TurnAssumption DEF Kick, Receive, TurnStays
<1>11. KickFind => TurnStays
  BY TurnAssumption DEF KickFind, TurnStays
<1>12. KickRemove => TurnStays
  BY TurnAssumption DEF KickRemove, TurnStays
<1>13. KickIndex => TurnStays
  BY TurnAssumption DEF KickIndex, TurnStays
<1>14. KickTail => TurnStays
  BY TurnAssumption DEF KickTail, TurnStays
<1>15. KickDelete => TurnStays
  BY TurnAssumption DEF KickDelete, TurnStays
<1>16. StartPlayback => TurnStays
  BY TurnAssumption DEF StartPlayback, TurnStays
<1>. QED  BY <1>1, <1>2, <1>3, <1>4, <1>5, <1>6, <1>7, <1>8, <1>9, <1>10, <1>11, <1>12, <1>13, <1>14, <1>15, <1>16 DEF TurnEffect, OwnerRequest, OwnerStep

LEMMA TurnStep == TypeInv /\ [Next]_vars => TurnEffect
<1>. SUFFICES ASSUME TypeInv, [Next]_vars PROVE TurnEffect
  OBVIOUS
<1>1. ASSUME NEW p \in Players, ClientRequest(p) \/ HandlerStep(p) PROVE TurnEffect
  BY <1>1, AttemptTurn, SubmitTurn, SharedTurn, OwnerTurn DEF ClientRequest, HandlerStep
<1>2. CASE OwnerRequest
  BY <1>2, OwnerTurn
<1>3. CASE DeadlinePasses \/ UNCHANGED vars
  BY <1>3 DEF DeadlinePasses, vars, keys, TurnEffect, TurnStays, Serving
<1>. QED  BY <1>1, <1>2, <1>3 DEF Next

(* The handlers implement the lock: whatever the requests and however the handlers *)
(* interleave, the turn is taken only when it is free, a submission is admitted    *)
(* only from its holder, and the holder loses it only to the compare-and-set at    *)
(* the end of such a submission, or to SKIP_ROUND.                                 *)
THEOREM LockImplemented == Spec => ImplementsLock
<1>1. Init => Lock!Init
  BY DEF Init, Lock!Init, Serving
<1>2. TypeInv /\ [Next]_vars => [Lock!Next]_<<answerer, {p \in Players : Serving(p)}>>
  <2>. SUFFICES ASSUME TypeInv, TurnEffect
                PROVE  [Lock!Next]_<<answerer, {p \in Players : Serving(p)}>>
    BY TurnStep
  <2>1. CASE TurnStays
    BY <2>1 DEF TurnStays
  <2>2. CASE TurnTaken
    BY <2>2 DEF TurnTaken, Lock!Next, Lock!Take
  <2>3. CASE TurnReset
    BY <2>3 DEF TurnReset, Lock!Next, Lock!Reset
  <2>4. ASSUME NEW p \in Players, SubmissionStarts(p)
        PROVE  Lock!Next
    BY <2>4 DEF SubmissionStarts, Lock!Next, Lock!Begin
  <2>5. ASSUME NEW p \in Players, SubmissionEnds(p)
        PROVE  Lock!Next
    BY <2>5 DEF SubmissionEnds, Lock!Next, Lock!Finish
  <2>. QED  BY <2>1, <2>2, <2>3, <2>4, <2>5 DEF TurnEffect
<1>. QED  BY <1>1, <1>2, InitType, TypeStep, PTL DEF Spec, ImplementsLock, Lock!Spec

(* In a room that is not skipped, the player whose submission was admitted is the *)
(* answerer until its compare-and-set: the check at the head of SUBMIT_ANSWER is  *)
(* not stale when it is used, and at most one submission is in process.           *)
THEOREM AdmittedHoldsTurn ==
    ASSUME "SKIP_ROUND" \notin Requests
    PROVE  Spec => []SubmitterHoldsTurn
<1>1. Init => SubmitterHoldsTurn
  BY DEF Init, SubmitterHoldsTurn, Serving
<1>2. TypeInv /\ SubmitterHoldsTurn /\ [Next]_vars => SubmitterHoldsTurn'
  <2>. SUFFICES ASSUME SubmitterHoldsTurn, TurnEffect
                PROVE  SubmitterHoldsTurn'
    BY TurnStep
  <2>. QED
    BY TurnAssumption DEF SubmitterHoldsTurn, TurnEffect, TurnStays, TurnTaken, TurnReset,
                          SubmissionStarts, SubmissionEnds
<1>. QED  BY <1>1, <1>2, InitType, TypeStep, PTL DEF Spec

-----------------------------------------------------------------------------
(* What a step of p's handler does to the deadline of the turn. *)
DeadlineEffect(p) ==
    /\ \A q \in Players \ {p} :
          (Seating(q)' <=> Seating(q)) /\ (pc'[q] = "release" <=> pc[q] = "release")
    /\ Seating(p) => Seating(p)' \/ deadline' # "none"
    /\ answerer' = answerer \/ answerer' = None \/ Seating(p)'
    /\ \/ deadline' # "none" \/ deadline' = deadline
       \/ pc[p] = "dropDeadline" /\ pc'[p] = "release" /\ UNCHANGED answerer
    /\ pc[p] = "release" => pc'[p] = "release" \/ answerer' = None \/ answerer # p

(* A seated player is on the way to a deadline. *)
LEMMA AttemptDeadline ==
    ASSUME TypeInv, NEW p \in Players, Attempt(p) \/ AttemptStep(p)
    PROVE  DeadlineEffect(p)
<1>. USE DEF TypeInv, TypeOK, SharedType, LocalType, Goto, Step, Return, db, keys, shown, locals, Seating
<1>1. CASE Attempt(p)
  BY <1>1 DEF Attempt, DeadlineEffect, Receive
<1>2. CASE Reserve(p)
  BY <1>2 DEF Reserve, DeadlineEffect
<1>3. CASE Enqueue(p)
  BY <1>3 DEF Enqueue, DeadlineEffect
<1>4. CASE ReadPlayback(p)
  BY <1>4 DEF ReadPlayback, DeadlineEffect
<1>5. CASE ReadQueue(p)
  BY <1>5 DEF ReadQueue, DeadlineEffect
<1>6. CASE ReadTail(p)
  BY <1>6 DEF ReadTail, DeadlineEffect
<1>7. CASE Elect(p)
  BY <1>7, TurnAssumption DEF Elect, DeadlineEffect, HasTarget
<1>8. CASE Pause(p)
  BY <1>8 DEF Pause, DeadlineEffect
<1>. QED  BY <1>1, <1>2, <1>3, <1>4, <1>5, <1>6, <1>7, <1>8 DEF AttemptStep

(* The deadline is dropped by the answerer, which gives the turn up next. *)
LEMMA SubmitDeadline ==
    ASSUME TypeInv, NEW p \in Players, Submit(p) \/ SubmitStep(p)
    PROVE  DeadlineEffect(p)
<1>. USE DEF TypeInv, TypeOK, SharedType, LocalType, Goto, Step, Return, db, keys, shown, locals, Seating
<1>1. CASE Submit(p)
  BY <1>1 DEF Submit, DeadlineEffect, Receive
<1>2. CASE CheckTurn(p)
  BY <1>2 DEF CheckTurn, DeadlineEffect
<1>3. CASE CheckDeadline(p)
  BY <1>3 DEF CheckDeadline, DeadlineEffect
<1>4. CASE Save(p)
  BY <1>4 DEF Save, DeadlineEffect
<1>5. CASE PickNext(p)
  BY <1>5 DEF PickNext, DeadlineEffect
<1>6. CASE Pass(p)
  BY <1>6, TurnAssumption DEF Pass, DeadlineEffect, HasTarget
<1>7. CASE DropDeadline(p)
  BY <1>7 DEF DropDeadline, DeadlineEffect
<1>8. CASE Release(p)
  BY <1>8 DEF Release, DeadlineEffect
<1>9. CASE SetTail(p)
  BY <1>9 DEF SetTail, DeadlineEffect
<1>10. CASE Resume(p)
  BY <1>10 DEF Resume, DeadlineEffect
<1>11. CASE Play(p)
  BY <1>11 DEF Play, DeadlineEffect
<1>. QED  BY <1>1, <1>2, <1>3, <1>4, <1>5, <1>6, <1>7, <1>8, <1>9, <1>10, <1>11 DEF SubmitStep

(* The shared steps lead a seated player to its deadline. *)
LEMMA SharedDeadline ==
    ASSUME TypeInv, NEW p \in Players, Control(p) \/ SharedStep(p)
    PROVE  DeadlineEffect(p)
<1>. USE DEF TypeInv, TypeOK, SharedType, LocalType, Goto, Step, Return, db, keys, shown, locals, Seating
<1>1. CASE Control(p)
  BY <1>1 DEF Control, DeadlineEffect, Receive
<1>2. CASE MoveRound(p)
  BY <1>2, TurnAssumption DEF MoveRound, DeadlineEffect, HasTarget, AfterMove
<1>3. CASE CommitRound(p)
  BY <1>3, TurnAssumption DEF CommitRound, DeadlineEffect, HasTarget, AfterMove
<1>4. CASE SyncRead(p)
  BY <1>4, LabelsTyped DEF SyncRead, DeadlineEffect
<1>5. CASE SyncItem(p)
  BY <1>5, LabelsTyped DEF SyncItem, DeadlineEffect, NextItem
<1>6. CASE SyncAdd(p)
  BY <1>6 DEF SyncAdd, DeadlineEffect
<1>7. CASE SyncIndex(p)
  BY <1>7, LabelsTyped DEF SyncIndex, DeadlineEffect, NextItem
<1>8. CASE SetDeadline(p)
  BY <1>8 DEF SetDeadline, DeadlineEffect
<1>9. CASE YourTurn(p)
  BY <1>9 DEF YourTurn, DeadlineEffect
<1>10. CASE SetPlayback(p)
  BY <1>10 DEF SetPlayback, DeadlineEffect
<1>. QED  BY <1>1, <1>2, <1>3, <1>4, <1>5, <1>6, <1>7, <1>8, <1>9, <1>10 DEF SharedStep

(* Without SKIP_ROUND, the owner's steps leave the deadline alone. *)
LEMMA OwnerDeadline ==
    ASSUME TypeInv, "SKIP_ROUND" \notin Requests, OwnerRequest \/ OwnerStep
    PROVE  DeadlineEffect(Owner)
<1>. Owner \in Players
  BY TurnAssumption
<1>. USE DEF TypeInv, TypeOK, SharedType, LocalType, Goto, Step, Return, db, keys, shown, locals, Seating
<1>1. CASE Skip
  BY <1>1 DEF Skip, DeadlineEffect, Receive
<1>2. CASE SkipQueue
  BY <1>2 DEF SkipQueue, DeadlineEffect, Skipping
<1>3. CASE SkipAnswerer
  BY <1>3 DEF SkipAnswerer, DeadlineEffect, Skipping
<1>4. CASE SkipDeadline
  BY <1>4 DEF SkipDeadline, DeadlineEffect, Skipping
<1>5. CASE SkipPlayback
  BY <1>5 DEF SkipPlayback, DeadlineEffect, Skipping
<1>6. CASE RoundStart
  BY <1>6 DEF RoundStart, DeadlineEffect, Skipping
<1>7. CASE SkipCommit
  BY <1>7 DEF SkipCommit, DeadlineEffect, Skipping
<1>8. CASE ClearAnswerQueue
  BY <1>8 DEF ClearAnswerQueue, DeadlineEffect
<1>9. CASE OwnerMove
  BY <1>9 DEF OwnerMove, DeadlineEffect, Receive
<1>10. ASSUME NEW v \in Players, Kick(v) PROVE DeadlineEffect(Owner)
  BY <1>10 DEF Kick, DeadlineEffect, Receive
<1>11. CASE KickFind
  BY <1>11 DEF KickFind, DeadlineEffect
<1>12. CASE KickRemove
  BY <1>12 DEF KickRemove, DeadlineEffect
<1>13. CASE KickIndex
  BY <1>13 DEF KickIndex, DeadlineEffect
<1>14. CASE KickTail
  BY <1>14 DEF KickTail, DeadlineEffect
<1>15. CASE KickDelete
  BY <1>15 DEF KickDelete, DeadlineEffect
<1>16. CASE StartPlayback
  BY <1>16 DEF StartPlayback, DeadlineEffect
<1>. QED  BY <1>1, <1>2, <1>3, <1>4, <1>5, <1>6, <1>7, <1>8, <1>9, <1>10, <1>11, <1>12, <1>13, <1>14, <1>15, <1>16 DEF OwnerRequest, OwnerStep

LEMMA DeadlineStep ==
    ASSUME TypeInv, "SKIP_ROUND" \notin Requests, SubmitterHoldsTurn, TurnHasDeadline,
           [Next]_vars
    PROVE  TurnHasDeadline'
<1>1. ASSUME NEW p \in Players, DeadlineEffect(p) PROVE TurnHasDeadline'
  BY <1>1 DEF DeadlineEffect, TurnHasDeadline, SubmitterHoldsTurn, Serving, TypeInv, TypeOK,
              SharedType
<1>2. ASSUME NEW p \in Players, ClientRequest(p) \/ HandlerStep(p) PROVE TurnHasDeadline'
  BY <1>1, <1>2, TurnAssumption, AttemptDeadline, SubmitDeadline, SharedDeadline, OwnerDeadline
     DEF ClientRequest, HandlerStep
<1>3. CASE OwnerRequest
  BY <1>1, <1>3, TurnAssumption, OwnerDeadline
<1>4. CASE DeadlinePasses
  BY <1>4 DEF DeadlinePasses, TurnHasDeadline
<1>5. CASE UNCHANGED vars
  BY <1>5 DEF vars, keys, locals, TurnHasDeadline, Seating
<1>. QED  BY <1>2, <1>3, <1>4, <1>5 DEF Next

(* In a room that is not skipped, a turn always has a deadline once it has been    *)
(* announced: no interleaving of a turn that ends with the next one that begins    *)
(* removes the deadline of the latter, which DEL of a shared key could well do.    *)
THEOREM AnnouncedTurnHasDeadline ==
    ASSUME "SKIP_ROUND" \notin Requests
    PROVE  Spec => []TurnHasDeadline
<1>1. Init => TurnHasDeadline
  BY DEF Init, TurnHasDeadline
<1>2. TypeInv /\ SubmitterHoldsTurn /\ TurnHasDeadline /\ [Next]_vars => TurnHasDeadline'
  BY DeadlineStep
<1>. QED  BY <1>1, <1>2, InitType, TypeStep, AdmittedHoldsTurn, PTL DEF Spec

-----------------------------------------------------------------------------
(* The song that was announced is the committed one, or the one about to be committed, *)
(* and answers are stored for songs that were committed.                               *)
Announced ==
    /\ songIndex <= roundShown
    /\ pc[Owner] = "skipCommit" => roundShown = songIndex + 1
    /\ \A p \in Players, r \in Rounds : answers[p][r] > 0 => r <= songIndex

(* What a step does to the rounds: nothing but store or delete answers of the committed *)
(* one, announce the next one, or commit what was announced.                            *)
RoundStays ==
    /\ UNCHANGED <<songIndex, roundShown>>
    /\ pc'[Owner] = "skipCommit" => pc[Owner] = "skipCommit"
    /\ \A p \in Players, r \in Rounds : answers'[p][r] \in {answers[p][r], 0} \/ r = songIndex

RoundAnnounced == roundShown' = songIndex + 1 /\ UNCHANGED <<songIndex, answers>>

RoundCommitted ==
    /\ pc[Owner] = "skipCommit" /\ pc'[Owner] = "idle"
    /\ songIndex' = songIndex + 1 /\ UNCHANGED <<roundShown, answers>>

RoundEffect == RoundStays \/ RoundAnnounced \/ RoundCommitted

LEMMA RequestRound ==
    ASSUME TypeInv, NEW p \in Players, ClientRequest(p) \/ OwnerRequest
    PROVE  RoundEffect
<1>. USE TurnAssumption DEF TypeInv, TypeOK, LocalType, Goto, db, shown, Receive, RoundStays
<1>1. Attempt(p) => RoundStays
  BY DEF Attempt
<1>2. Submit(p) => RoundStays
  BY DEF Submit
<1>3. Control(p) => RoundStays
  BY DEF Control
<1>4. Skip => RoundStays
  BY DEF Skip
<1>5. ClearAnswerQueue => RoundStays
  BY DEF ClearAnswerQueue
<1>6. OwnerMove => RoundStays
  BY DEF OwnerMove
<1>7. ASSUME NEW v \in Players, Kick(v) PROVE RoundStays
  BY <1>7 DEF Kick
<1>. QED  BY <1>1, <1>2, <1>3, <1>4, <1>5, <1>6, <1>7 DEF RoundEffect, ClientRequest, OwnerRequest

(* Most steps of the handlers touch neither the rounds nor the answers. *)
LEMMA HandlerRound ==
    ASSUME TypeInv, NEW p \in Players, AttemptStep(p) \/ SubmitStep(p) \/ SharedStep(p)
    PROVE  RoundEffect
<1>. USE TurnAssumption DEF TypeInv, TypeOK, LocalType, Goto, Step, Return, db, shown, RoundStays
<1>1. AttemptStep(p) => RoundStays
  <2>1. AttemptStep(p) =>
          /\ UNCHANGED <<db, shown>>
          /\ \E l : l # "skipCommit" /\ Goto(p, l)
    BY DEF AttemptStep, Reserve, Enqueue, ReadPlayback, ReadQueue, ReadTail, Elect, Pause
  <2>. QED  BY <2>1
<1>2. ASSUME Save(p) PROVE RoundStays
  <2>1. UNCHANGED <<songIndex, roundShown>> /\ (pc'[Owner] = "skipCommit" => pc[Owner] = "skipCommit")
    BY <1>2 DEF Save
  <2>2. \/ UNCHANGED answers
        \/ answers' = [answers EXCEPT ![p] =
               [answers[p] EXCEPT ![songIndex] = IF @ < AnswerCap THEN @ + 1 ELSE @]]
    BY <1>2 DEF Save
  <2>3. \A q \in Players, r \in Rounds : r # songIndex => answers'[q][r] = answers[q][r]
    <3>1. answers \in [Players -> [Rounds -> 0 .. AnswerCap]]
      BY DEF SharedType
    <3>2. \E row : /\ answers' = answers \/ answers' = [answers EXCEPT ![p] = row]
                  /\ \A r \in Rounds : r # songIndex => row[r] = answers[p][r]
      BY <2>2, <3>1
    <3>. QED  BY <3>1, <3>2
  <2>. QED  BY <2>1, <2>3
<1>3. SubmitStep(p) /\ ~Save(p) => RoundStays
  <2>1. SubmitStep(p) /\ ~Save(p) =>
          /\ UNCHANGED <<db, shown>>
          /\ \E l : l # "skipCommit" /\ Goto(p, l)
    BY DEF SubmitStep, CheckTurn, CheckDeadline, PickNext, Pass, DropDeadline, Release, SetTail,
           Resume, Play
  <2>. QED  BY <2>1
<1>4. SharedStep(p) => RoundStays
  <2>1. SharedStep(p) =>
          /\ UNCHANGED <<songIndex, answers, roundShown>>
          /\ \E l : l # "skipCommit" /\ Goto(p, l)
    <3>1. MoveRound(p) \/ CommitRound(p) =>
            /\ UNCHANGED <<songIndex, answers, roundShown>>
            /\ \E l : l # "skipCommit" /\ Goto(p, l)
      BY LabelsTyped DEF MoveRound, CommitRound
    <3>2. SyncRead(p) \/ SyncItem(p) \/ SyncAdd(p) \/ SyncIndex(p) =>
            /\ UNCHANGED <<songIndex, answers, roundShown>>
            /\ \E l : l # "skipCommit" /\ Goto(p, l)
      BY LabelsTyped DEF SyncRead, SyncItem, SyncAdd, SyncIndex, NextItem
    <3>3. SetDeadline(p) \/ YourTurn(p) \/ SetPlayback(p) =>
            /\ UNCHANGED <<songIndex, answers, roundShown>>
            /\ \E l : l # "skipCommit" /\ Goto(p, l)
      BY DEF SetDeadline, YourTurn, SetPlayback
    <3>. QED  BY <3>1, <3>2, <3>3 DEF SharedStep
  <2>. QED  BY <2>1
<1>. QED  BY <1>1, <1>2, <1>3, <1>4 DEF RoundEffect

LEMMA OwnerRound ==
    ASSUME TypeInv, OwnerStep
    PROVE  RoundEffect
<1>. USE TurnAssumption DEF TypeInv, TypeOK, LocalType, Goto, Step, Return, db, shown
<1>1. SkipQueue \/ SkipAnswerer \/ SkipDeadline \/ SkipPlayback => RoundStays
  BY DEF RoundStays, SkipQueue, SkipAnswerer, SkipDeadline, SkipPlayback
<1>2. RoundStart => RoundAnnounced
  BY DEF RoundAnnounced, RoundStart
<1>3. SkipCommit => RoundCommitted
  BY DEF RoundCommitted, SkipCommit
<1>4. KickFind \/ KickRemove \/ KickIndex \/ KickTail => RoundStays
  BY DEF RoundStays, KickFind, KickRemove, KickIndex, KickTail
<1>5. KickDelete => RoundStays
  BY DEF RoundStays, KickDelete, SharedType
<1>6. StartPlayback => RoundStays
  BY DEF RoundStays, StartPlayback
<1>. QED  BY <1>1, <1>2, <1>3, <1>4, <1>5, <1>6 DEF RoundEffect, OwnerStep

LEMMA AnnouncedStep ==
    ASSUME TypeInv, Announced, [Next]_vars
    PROVE  Announced'
<1>. USE DEF TypeInv, TypeOK, SharedType
<1>1. RoundEffect
  <2>1. ASSUME NEW p \in Players, ClientRequest(p) \/ HandlerStep(p) PROVE RoundEffect
    BY <2>1, RequestRound, HandlerRound, OwnerRound DEF HandlerStep
  <2>2. CASE OwnerRequest
    BY <2>2, TurnAssumption, RequestRound
  <2>3. CASE DeadlinePasses \/ UNCHANGED vars
    BY <2>3 DEF DeadlinePasses, vars, db, shown, RoundEffect, RoundStays
  <2>. QED  BY <2>1, <2>2, <2>3 DEF Next
<1>2. songIndex \in Nat /\ roundShown \in Nat /\ Rounds \subseteq Nat
  BY TurnAssumption DEF Rounds
<1>3. \A p \in Players, r \in Rounds : answers[p][r] \in Nat
  BY TurnAssumption
<1>4. CASE RoundStays
  BY <1>2, <1>4 DEF Announced, RoundStays
<1>5. CASE RoundAnnounced
  BY <1>2, <1>5 DEF Announced, RoundAnnounced
<1>6. CASE RoundCommitted
  <2>1. \A p \in Players, r \in Rounds : answers'[p][r] > 0 => r <= songIndex + 1
    BY <1>2, <1>6 DEF Announced, RoundCommitted
  <2>. QED  BY <1>2, <1>6, <2>1 DEF Announced, RoundCommitted
<1>. QED  BY <1>1, <1>4, <1>5, <1>6 DEF RoundEffect

(* No answer is stored for a round that was not announced, although ROUND_START is *)
(* sent before its index is committed and submissions read the committed one.      *)
THEOREM NoneAhead == Spec => []NoAnswerAhead
<1>1. Init => Announced
  BY TurnAssumption DEF Init, Announced, Rounds
<1>2. TypeInv /\ Announced => NoAnswerAhead
  <2>. SUFFICES ASSUME TypeInv, Announced PROVE NoAnswerAhead
    OBVIOUS
  <2>1. songIndex \in Nat /\ roundShown \in Nat /\ Rounds \subseteq Nat
    BY TurnAssumption DEF TypeInv, TypeOK, SharedType, Rounds
  <2>. QED  BY <2>1 DEF Announced, NoAnswerAhead
<1>. QED  BY <1>1, <1>2, InitType, TypeStep, AnnouncedStep, PTL DEF Spec

-----------------------------------------------------------------------------
(* The sorted set has a first member: scores and player ids are natural numbers. *)
LEMMA FirstExists ==
    ASSUME NEW S, S \subseteq Entry, S # {}
    PROVE  First(S) # {}
<1>. DEFINE R == {e.rank : e \in S}
<1>1. R \subseteq Nat /\ R # {}
  BY TurnAssumption DEF Entry
<1>2. PICK r \in R : \A k \in R : r <= k
  <2>. HIDE DEF R
  <2>. QED  BY <1>1, LeastNatural
<1>. DEFINE T == {e \in S : e.rank = r}
            Q == {e.player : e \in T}
<1>3. Q \subseteq Nat /\ Q # {}
  <2>1. \A e \in S : e.player \in Nat
    BY TurnAssumption DEF Entry
  <2>2. PICK e \in S : e.rank = r
    OBVIOUS
  <2>3. e.player \in Q
    BY <2>2
  <2>. QED  BY <2>1, <2>3
<1>4. PICK m \in Q : \A k \in Q : m <= k
  <2>. HIDE DEF Q
  <2>. QED  BY <1>3, LeastNatural
<1>5. PICK e \in T : e.player = m
  OBVIOUS
<1>6. PICK f \in T : f.player = m /\ (f.answering => \A g \in T : g.player = m => g.answering)
  <2>1. CASE e.answering => \A g \in T : g.player = m => g.answering
    BY <1>5, <2>1
  <2>2. CASE ~(e.answering => \A g \in T : g.player = m => g.answering)
    BY <2>2
  <2>. QED  BY <2>1, <2>2
<1>7. ASSUME NEW g \in S \ {f} PROVE Before(f, g)
  <2>1. /\ f \in Entry /\ g \in Entry /\ f.rank = r /\ r \in Nat /\ g.rank \in Nat
        /\ f.player \in Nat /\ g.player \in Nat /\ r <= g.rank
    BY <1>1, <1>2, TurnAssumption DEF Entry
  <2>2. CASE g.rank # r
    BY <2>1, <2>2 DEF Before
  <2>3. CASE g.rank = r /\ g.player # m
    <3>1. m <= g.player
      BY <1>4, <2>3
    <3>. QED  BY <1>6, <2>1, <2>3, <3>1 DEF Before
  <2>4. CASE g.rank = r /\ g.player = m
    <3>1. g \in T
      BY <2>4
    <3>2. f.answering \in BOOLEAN /\ g.answering \in BOOLEAN
      BY <2>1 DEF Entry
    <3>3. f.answering # g.answering
      <4>. SUFFICES ASSUME f.answering = g.answering PROVE f = g
        OBVIOUS
      <4>. QED  BY <1>6, <2>1, <2>4 DEF Entry
    <3>4. ~f.answering /\ g.answering
      BY Zenon, <1>6, <2>4, <3>1, <3>2, <3>3
    <3>. QED  BY <1>6, <2>1, <2>4, <3>4 DEF Before
  <2>. QED  BY <2>2, <2>3, <2>4
<1>. QED  BY <1>6, <1>7 DEF First

LEMMA FirstUnique ==
    ASSUME NEW S, S \subseteq Entry, NEW e \in First(S), NEW f \in First(S)
    PROVE  e = f
<1>1. e \in Entry /\ f \in Entry /\ (e # f => Before(e, f) /\ Before(f, e))
  BY DEF First
<1>2. /\ e.rank \in Nat /\ f.rank \in Nat /\ e.player \in Nat /\ f.player \in Nat
      /\ e.answering \in BOOLEAN /\ f.answering \in BOOLEAN
  BY <1>1, TurnAssumption DEF Entry
<1>. SUFFICES ASSUME Before(e, f), Before(f, e) PROVE FALSE
  BY <1>1
<1>3. e.rank = f.rank
  BY <1>2 DEF Before
<1>4. e.player = f.player
  BY <1>2, <1>3 DEF Before
<1>. QED  BY <1>2, <1>3, <1>4 DEF Before

LEMMA HasPlace ==
    ASSUME NEW S, S \subseteq Entry, NEW p
    PROVE  PlaceOf(S, p) # {} <=> \E e \in S : e.player = p
<1>. DEFINE T == {e \in S : e.player = p}
<1>1. T # {} <=> First(T) # {}
  <2>. HIDE DEF T
  <2>1. First({}) = {}
    BY DEF First
  <2>2. T \subseteq Entry
    BY DEF T
  <2>. QED  BY <2>1, <2>2, FirstExists
<1>. QED  BY <1>1 DEF PlaceOf

-----------------------------------------------------------------------------
(* p's place is not lost: the members that are stored, about to be stored, or in the *)
(* hands of a synchronisation.                                                        *)
Placed(p) ==
    \/ \E e \in queue : e.player = p
    \/ pc[p] = "enqueue"
    \/ \E q \in Players : \E e \in InHand(q) : e.player = p

KickLabels == {"kickFind", "kickRemove", "kickIndex", "kickTail", "kickDelete"}

(* Every entry that a handler holds belongs to a player who has a place; an attempt *)
(* that reserved holds its own.                                                     *)
PlacesInv ==
    \A p \in Players :
        /\ index[p] # None => Placed(p)
        /\ \A e \in view[p] : Placed(e.player)
        /\ pc[p] = "enqueue" => \E e \in view[p] : e.player = p
        /\ pc[p] \notin KickLabels

(* What a step does to the places: nobody loses one, and what is indexed or held by *)
(* a handler afterwards has one.                                                    *)
PlaceEffect ==
    /\ \A p \in Players : Placed(p) => Placed(p)'
    /\ \A p \in Players : index'[p] = index[p] \/ Placed(p)'
    /\ \A q \in Players : \A e \in view'[q] : e \in view[q] \cup queue \/ Placed(e.player)'
    /\ \A q \in Players : pc'[q] = "enqueue" =>
            \/ pc[q] = "enqueue" /\ view'[q] = view[q]
            \/ \E e \in view'[q] : e.player = q
    /\ \A q \in Players : pc'[q] \in KickLabels => pc[q] \in KickLabels

(* The steps that touch neither the queue nor the index. *)
PlaceFrame ==
    /\ UNCHANGED <<queue, index>>
    /\ \A q \in Players :
          /\ view'[q] \subseteq view[q] \cup queue
          /\ pc[q] \in {"enqueue", "syncAdd"} \/ pc'[q] \in {"enqueue", "syncAdd"} =>
                pc'[q] = pc[q] /\ view'[q] = view[q]
          /\ pc'[q] \in KickLabels => pc[q] \in KickLabels

LEMMA FrameIsEffect ==
    ASSUME PlaceFrame
    PROVE  PlaceEffect
<1>1. \A q \in Players : InHand(q)' = InHand(q)
  BY DEF PlaceFrame, InHand
<1>2. \A p \in Players : Placed(p) => Placed(p)'
  BY <1>1 DEF PlaceFrame, Placed
<1>. QED  BY <1>2 DEF PlaceFrame, PlaceEffect

LEMMA EffectKeepsPlaces ==
    ASSUME TypeInv, PlacesInv, PlaceEffect
    PROVE  PlacesInv'
<1>1. \A e \in queue : e.player \in Players /\ Placed(e.player)
  BY DEF Placed, TypeInv, TypeOK, SharedType, Entry
<1>2. \A q \in Players : \A e \in view[q] : e.player \in Players
  BY DEF TypeInv, TypeOK, LocalType, Entry
<1>3. ASSUME NEW q \in Players, NEW e \in view'[q] PROVE Placed(e.player)'
  BY <1>1, <1>2 DEF PlacesInv, PlaceEffect
<1>4. ASSUME NEW q \in Players, pc'[q] = "enqueue" PROVE \E e \in view'[q] : e.player = q
  BY <1>4 DEF PlacesInv, PlaceEffect
<1>5. ASSUME NEW q \in Players, index'[q] # None PROVE Placed(q)'
  BY <1>5 DEF PlacesInv, PlaceEffect
<1>6. \A q \in Players : pc'[q] \notin KickLabels
  BY DEF PlacesInv, PlaceEffect
<1>. QED  BY <1>3, <1>4, <1>5, <1>6 DEF PlacesInv

(* A reservation and the ZADD that follows it. *)
LEMMA AttemptPlaces ==
    ASSUME TypeInv, PlacesInv, NEW p \in Players, Attempt(p) \/ AttemptStep(p)
    PROVE  PlaceEffect
<1>. USE DEF TypeInv, TypeOK, LocalType, Goto, Step, Return, keys, locals, KickLabels
<1>1. CASE Reserve(p)
  <2>1. CASE Return(p)
    <3>1. UNCHANGED <<queue, index>>
      BY <1>1, <2>1 DEF Reserve, SharedType
    <3>2. PlaceFrame
      BY <1>1, <2>1, <3>1 DEF Reserve, PlaceFrame
    <3>. QED  BY <3>2, FrameIsEffect
  <2>2. CASE ~Return(p)
    <3>1. PICK e \in Entry : /\ e.player = p
                             /\ index' = [index EXCEPT ![p] = e]
                             /\ view' = [view EXCEPT ![p] = {e}]
                             /\ Goto(p, "enqueue") /\ pc[p] = "reserve" /\ UNCHANGED queue
      <4>1. PICK r \in Ranks :
               /\ index' = [index EXCEPT ![p] = [player |-> p, rank |-> r, answering |-> FALSE]]
               /\ view' = [view EXCEPT ![p] = {[player |-> p, rank |-> r, answering |-> FALSE]}]
               /\ Goto(p, "enqueue") /\ pc[p] = "reserve" /\ UNCHANGED queue
        BY <1>1, <2>2 DEF Reserve
      <4>2. [player |-> p, rank |-> r, answering |-> FALSE] \in Entry
        BY DEF Entry
      <4>. QED  BY <4>1, <4>2
    <3>2. \A q \in Players : InHand(q)' = InHand(q)
      BY <3>1 DEF InHand
    <3>3. /\ pc'[p] = "enqueue" /\ view'[p] = {e}
          /\ \A q \in Players \ {p} : pc'[q] = pc[q] /\ view'[q] = view[q] /\ index'[q] = index[q]
      BY <3>1 DEF SharedType
    <3>4. \A q \in Players : Placed(q) => Placed(q)'
      BY <3>1, <3>2, <3>3 DEF Placed
    <3>5. Placed(p)'
      BY <3>3 DEF Placed
    <3>. QED  BY <3>1, <3>3, <3>4, <3>5 DEF PlaceEffect
  <2>. QED  BY <2>1, <2>2
<1>2. CASE Enqueue(p)
  <2>1. /\ pc[p] = "enqueue" /\ pc'[p] = "readPlayback" /\ view'[p] = {}
        /\ queue' = queue \cup view[p] /\ UNCHANGED index
        /\ \A q \in Players \ {p} : pc'[q] = pc[q] /\ view'[q] = view[q]
    BY <1>2 DEF Enqueue
  <2>2. \A q \in Players : InHand(q)' = InHand(q)
    BY <2>1 DEF InHand
  <2>3. \E e \in view[p] : e.player = p
    BY <2>1 DEF PlacesInv
  <2>4. \A q \in Players : Placed(q) => Placed(q)'
    BY <2>1, <2>2, <2>3 DEF Placed
  <2>. QED  BY <2>1, <2>4 DEF PlaceEffect
<1>3. CASE Attempt(p) \/ ReadPlayback(p) \/ ReadQueue(p) \/ ReadTail(p) \/ Elect(p) \/ Pause(p)
  <2>1. Attempt(p) => PlaceFrame
    BY DEF Attempt, Receive, PlaceFrame
  <2>2. ReadPlayback(p) => PlaceFrame
    BY DEF ReadPlayback, PlaceFrame
  <2>3. ReadQueue(p) => PlaceFrame
    BY DEF ReadQueue, PlaceFrame
  <2>4. ReadTail(p) => PlaceFrame
    BY DEF ReadTail, PlaceFrame
  <2>5. Elect(p) => PlaceFrame
    BY DEF Elect, PlaceFrame
  <2>6. Pause(p) => PlaceFrame
    BY DEF Pause, PlaceFrame
  <2>. QED  BY <1>3, <2>1, <2>2, <2>3, <2>4, <2>5, <2>6, FrameIsEffect
<1>. QED  BY <1>1, <1>2, <1>3 DEF AttemptStep

(* Submissions read the queue, and leave it alone. *)
LEMMA SubmitPlaces ==
    ASSUME TypeInv, NEW p \in Players, Submit(p) \/ SubmitStep(p) \/ Control(p)
    PROVE  PlaceEffect
<1>. USE DEF TypeInv, TypeOK, LocalType, Goto, Step, Return, keys, locals, KickLabels, PlaceFrame
<1>1. Submit(p) \/ Control(p) => PlaceFrame
  BY DEF Submit, Control, Receive
<1>2. CheckTurn(p) \/ CheckDeadline(p) => PlaceFrame
  BY DEF CheckTurn, CheckDeadline
<1>3. Save(p) => PlaceFrame
  BY DEF Save
<1>4. PickNext(p) => PlaceFrame
  BY DEF PickNext
<1>5. Pass(p) \/ Release(p) => PlaceFrame
  BY DEF Pass, Release
<1>6. DropDeadline(p) \/ SetTail(p) => PlaceFrame
  BY DEF DropDeadline, SetTail
<1>7. Resume(p) \/ Play(p) => PlaceFrame
  BY DEF Resume, Play
<1>8. PlaceFrame
  BY <1>1, <1>2, <1>3, <1>4, <1>5, <1>6, <1>7 DEF SubmitStep
<1>. QED  BY <1>8, FrameIsEffect

(* A synchronisation holds the member it removes until it adds it again. *)
LEMMA SharedPlaces ==
    ASSUME TypeInv, PlacesInv, NEW p \in Players, SharedStep(p)
    PROVE  PlaceEffect
<1>. USE DEF TypeInv, TypeOK, LocalType, Goto, Step, Return, keys, locals, KickLabels
<1>0. view[p] \subseteq Entry /\ queue \subseteq Entry /\ \A e \in First(view[p]) : e \in view[p]
  BY FirstIn DEF SharedType
<1>1. CASE SyncItem(p)
  <2>1. PICK e \in First(view[p]) :
          \/ /\ index' = [index EXCEPT ![e.player] = e]
             /\ NextItem(p, e)
             /\ UNCHANGED queue
          \/ /\ queue' = queue \ {e}
             /\ Goto(p, "syncAdd")
             /\ UNCHANGED <<index, view>>
    BY <1>1 DEF SyncItem
  <2>2. e \in view[p] /\ e.player \in Players /\ Placed(e.player) /\ pc[p] = "syncItem"
    BY <1>0, <1>1, <2>1 DEF SyncItem, PlacesInv, Entry
  <2>3. CASE index' = [index EXCEPT ![e.player] = e] /\ NextItem(p, e) /\ UNCHANGED queue
    <3>1. /\ pc'[p] \in {"syncItem", "setTail", "setDeadline"} /\ view'[p] \subseteq view[p]
          /\ \A q \in Players \ {p} : pc'[q] = pc[q] /\ view'[q] = view[q]
      BY <2>3, LabelsTyped DEF NextItem
    <3>2. \A q \in Players : InHand(q)' = InHand(q)
      BY <2>2, <3>1 DEF InHand
    <3>3. \A q \in Players : Placed(q) => Placed(q)'
      BY <2>2, <2>3, <3>1, <3>2 DEF Placed
    <3>4. \A q \in Players : index'[q] = index[q] \/ Placed(q)'
      BY <2>2, <2>3, <3>3 DEF SharedType
    <3>. QED  BY <2>2, <3>1, <3>3, <3>4 DEF PlaceEffect
  <2>4. CASE queue' = queue \ {e} /\ Goto(p, "syncAdd") /\ UNCHANGED <<index, view>>
    <3>1. pc'[p] = "syncAdd" /\ \A q \in Players \ {p} : pc'[q] = pc[q]
      BY <2>4
    <3>2. e \in InHand(p)' /\ \A q \in Players \ {p} : InHand(q)' = InHand(q)
      BY <2>1, <2>4, <3>1 DEF InHand
    <3>3. InHand(p) = {}
      BY <2>2 DEF InHand
    <3>4. \A q \in Players : Placed(q) => Placed(q)'
      BY <2>2, <2>4, <3>1, <3>2, <3>3 DEF Placed
    <3>. QED  BY <2>2, <2>4, <3>1, <3>4 DEF PlaceEffect
  <2>. QED  BY <2>1, <2>3, <2>4
<1>2. CASE SyncAdd(p)
  <2>1. PICK e \in First(view[p]) : queue' = queue \cup {Flip(e)}
    BY <1>2 DEF SyncAdd
  <2>2. /\ pc[p] = "syncAdd" /\ pc'[p] = "syncIndex" /\ UNCHANGED <<index, view>>
        /\ \A q \in Players \ {p} : pc'[q] = pc[q]
    BY <1>2 DEF SyncAdd
  <2>3. e \in Entry /\ Flip(e).player = e.player
    BY <1>0, <2>1 DEF Flip, Entry
  <2>4. \A f \in InHand(p) : f = e
    BY <1>0, <2>1, <2>2, FirstUnique DEF InHand
  <2>5. \A q \in Players \ {p} : InHand(q)' = InHand(q)
    BY <2>2 DEF InHand
  <2>6. ASSUME NEW q \in Players, Placed(q) PROVE Placed(q)'
    <3>1. CASE \E f \in InHand(p) : f.player = q
      BY <2>1, <2>3, <2>4, <3>1 DEF Placed
    <3>2. CASE ~\E f \in InHand(p) : f.player = q
      BY <2>1, <2>2, <2>5, <2>6, <3>2 DEF Placed
    <3>. QED  BY <3>1, <3>2
  <2>. QED  BY <2>2, <2>6 DEF PlaceEffect
<1>3. CASE SyncIndex(p)
  <2>1. PICK e \in First(view[p]) : index' = [index EXCEPT ![e.player] = Flip(e)] /\ NextItem(p, e)
    BY <1>3 DEF SyncIndex
  <2>2. /\ e \in view[p] /\ e.player \in Players /\ Placed(e.player) /\ pc[p] = "syncIndex"
        /\ UNCHANGED queue
    BY <1>0, <1>3, <2>1 DEF SyncIndex, PlacesInv, Entry
  <2>3. /\ pc'[p] \in {"syncItem", "setTail", "setDeadline"} /\ view'[p] \subseteq view[p]
        /\ \A q \in Players \ {p} : pc'[q] = pc[q] /\ view'[q] = view[q]
    BY <2>1, LabelsTyped DEF NextItem
  <2>4. \A q \in Players : InHand(q)' = InHand(q)
    BY <2>2, <2>3 DEF InHand
  <2>5. \A q \in Players : Placed(q) => Placed(q)'
    BY <2>2, <2>3, <2>4 DEF Placed
  <2>6. \A q \in Players : index'[q] = index[q] \/ Placed(q)'
    BY <2>1, <2>2, <2>5 DEF SharedType
  <2>. QED  BY <2>2, <2>3, <2>5, <2>6 DEF PlaceEffect
<1>4. CASE ~(SyncItem(p) \/ SyncAdd(p) \/ SyncIndex(p))
  <2>1. MoveRound(p) \/ CommitRound(p) => PlaceFrame
    BY LabelsTyped DEF MoveRound, CommitRound, PlaceFrame
  <2>2. SyncRead(p) => PlaceFrame
    BY LabelsTyped DEF SyncRead, PlaceFrame
  <2>3. SetDeadline(p) => PlaceFrame
    BY DEF SetDeadline, PlaceFrame
  <2>4. YourTurn(p) \/ SetPlayback(p) => PlaceFrame
    BY DEF YourTurn, SetPlayback, PlaceFrame
  <2>. QED  BY <1>4, <2>1, <2>2, <2>3, <2>4, FrameIsEffect DEF SharedStep
<1>. QED  BY <1>1, <1>2, <1>3, <1>4

(* Nobody resets the queue, empties it, or is kicked. *)
NoRemoval == Requests \cap {"SKIP_ROUND", "CLEAR_ANSWER_QUEUE", "KICK_USER"} = {}

LEMMA OwnerPlaces ==
    ASSUME TypeInv, PlacesInv, NoRemoval, OwnerRequest \/ OwnerStep
    PROVE  PlaceEffect
<1>. Owner \in Players
  BY TurnAssumption
<1>1. ~Skip /\ ~ClearAnswerQueue /\ \A v \in Players : ~Kick(v)
  BY DEF NoRemoval, Skip, ClearAnswerQueue, Kick, Receive
<1>2. ~Skipping(Owner) /\ pc[Owner] \notin KickLabels
  BY DEF NoRemoval, TypeInv, PlacesInv
<1>3. OwnerStep => StartPlayback
  BY <1>2 DEF OwnerStep, Skipping, KickLabels, SkipQueue, SkipAnswerer, SkipDeadline, SkipPlayback,
              RoundStart, SkipCommit, KickFind, KickRemove, KickIndex, KickTail, KickDelete, Step
<1>4. OwnerMove => PlaceFrame
  BY DEF OwnerMove, PlaceFrame, Receive, Goto, TypeInv, TypeOK, LocalType, keys, KickLabels
<1>5. StartPlayback => PlaceFrame
  BY DEF StartPlayback, PlaceFrame, Return, Goto, TypeInv, TypeOK, LocalType, keys, KickLabels
<1>. QED  BY <1>1, <1>3, <1>4, <1>5, FrameIsEffect DEF OwnerRequest

LEMMA PlacesStep ==
    ASSUME TypeInv, PlacesInv, NoRemoval, [Next]_vars
    PROVE  PlacesInv'
<1>1. ASSUME NEW p \in Players, ClientRequest(p) \/ HandlerStep(p) PROVE PlaceEffect
  BY <1>1, AttemptPlaces, SubmitPlaces, SharedPlaces, OwnerPlaces DEF ClientRequest, HandlerStep
<1>2. CASE OwnerRequest
  BY <1>2, OwnerPlaces, EffectKeepsPlaces
<1>3. CASE DeadlinePasses \/ UNCHANGED vars
  <2>1. PlaceFrame
    BY <1>3 DEF DeadlinePasses, vars, keys, locals, PlaceFrame
  <2>. QED  BY <2>1, FrameIsEffect, EffectKeepsPlaces
<1>. QED  BY <1>1, <1>2, <1>3, EffectKeepsPlaces DEF Next

(* As long as nobody removes members on purpose, a reservation never outlives its   *)
(* place: however many synchronisations run at the same time, each from a reading   *)
(* of its own, the member that one of them removes is in its hands until it is back. *)
THEOREM ReservationsKept ==
    ASSUME NoRemoval
    PROVE  Spec => []ReservedIsQueued
<1>1. Init => PlacesInv
  BY DEF Init, PlacesInv, KickLabels
<1>2. TypeInv /\ PlacesInv => ReservedIsQueued
  <2>. SUFFICES ASSUME TypeInv, PlacesInv PROVE ReservedIsQueued
    OBVIOUS
  <2>1. queue \subseteq Entry
    BY DEF TypeInv, TypeOK, SharedType
  <2>. QED  BY <2>1, HasPlace DEF PlacesInv, Placed, ReservedIsQueued
<1>3. TypeInv /\ PlacesInv /\ [Next]_vars => PlacesInv'
  BY PlacesStep
<1>. QED  BY <1>1, <1>2, <1>3, InitType, TypeStep, PTL DEF Spec
=============================================================================
