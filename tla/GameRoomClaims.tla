--------------------------- MODULE GameRoomClaims ---------------------------
(***************************************************************************)
(* Statements that the repository's documents and comments make about the  *)
(* life of a room and that the code does not keep, each checked by a run   *)
(* of its own, whose counterexample is the finding.                        *)
(***************************************************************************)
EXTENDS GameRoom

(* handlers/round_events_3x.py:169: GAME_START brings the round to PLAYING_AUDIO. So  *)
(* when a running game's handlers have returned, its round is not still to come.  The *)
(* transition is committed by a session of its own, and the PENDING that start_game   *)
(* left in the outer session is written over it when the round was not PENDING at     *)
(* the beginning: after a SKIP_ROUND in the lobby, or when two players start at once. *)
StartedRoundPlays ==
    row.status = "RUNNING" /\ (\A p \in Players : pc[p] = "idle") => row.round # "PENDING"

(* docs/DESIGN.md:429, the final_scores of GAME_OVER: a player and its score.  Each *)
(* player is listed once.  end_game lists every row of the scores table.            *)
FinalOncePerPlayer ==
    \A p \in Players : \A k, l \in DOMAIN finalShown :
        finalShown[k].delta[p] > 0 /\ finalShown[l].delta[p] > 0 => k = l

(* room_state/state_machine.py:18, the allowed moves of the room: an ended game goes to *)
(* WAITING only.  The rules are applied to the row as it was loaded; where two players  *)
(* start the game, the commit of the later handler writes RUNNING over whatever the     *)
(* game has become, ENDED included.                                                     *)
LegalRoomMoves ==
    [][row'.status # row.status => RoomAllows(row.status, row'.status)]_row
=============================================================================
