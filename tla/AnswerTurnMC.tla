---------------------------- MODULE AnswerTurnMC ----------------------------
(***************************************************************************)
(* Constants of the instances of AnswerTurn that TLC checks.               *)
(***************************************************************************)
EXTENDS AnswerTurnClaims

TwoPlayers == {1, 2}
ThreePlayers == {1, 2, 3}

(* All attempts get the same score; or one may be made at an earlier position of *)
(* the song than another.                                                        *)
OneRank == {1}
TwoRanks == {1, 2}

Answering == {"ATTEMPT_ANSWER", "SUBMIT_ANSWER"}
Skipping == Answering \cup {"SKIP_ROUND"}
Kicking == Answering \cup {"KICK_USER"}
Clearing == Answering \cup {"CLEAR_ANSWER_QUEUE"}
Controlling == Answering \cup {"PLAY", "PAUSE"}
Managing ==
    Answering \cup {"KICK_USER", "CLEAR_ANSWER_QUEUE", "JUDGING", "ROUND_END"}
=============================================================================
