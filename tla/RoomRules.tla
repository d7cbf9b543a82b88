------------------------------ MODULE RoomRules ------------------------------
(***************************************************************************)
(* The two state machines of room_state/state_machine.py as data: the      *)
(* statuses of a room, the states of a round, and the transitions that     *)
(* transition() accepts.  transition() on the round answers TRUE without   *)
(* writing when the target is the current state; the room machine has no   *)
(* such exception.                                                         *)
(***************************************************************************)

RoomStatuses == {"WAITING", "RUNNING", "ENDED"}

RoundStates == {"PENDING", "PLAYING_AUDIO", "ANSWERING", "JUDGING", "COMPLETED"}

RoomTargets ==
    [WAITING |-> {"RUNNING"}, RUNNING |-> {"ENDED"}, ENDED |-> {"WAITING"}]

RoundTargets ==
    [PENDING       |-> {"PLAYING_AUDIO"},
     PLAYING_AUDIO |-> {"ANSWERING", "COMPLETED"},
     ANSWERING     |-> {"PLAYING_AUDIO", "JUDGING", "COMPLETED"},
     JUDGING       |-> {"COMPLETED", "PLAYING_AUDIO"},
     COMPLETED     |-> {"PENDING", "PLAYING_AUDIO"}]

RoomAllows(current, next) == next \in RoomTargets[current]

RoundAllows(current, next) == next \in RoundTargets[current]

(* The states in which ATTEMPT_ANSWER and SUBMIT_ANSWER are accepted. *)
OpenStates == {"PLAYING_AUDIO", "ANSWERING"}
=============================================================================
