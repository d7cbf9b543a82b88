-------------------------- MODULE AnswerTurnClaims --------------------------
(***************************************************************************)
(* Statements that the repository's documents, comments and messages make  *)
(* about the answering phase and that the code does not keep.  Each is     *)
(* checked by a run of its own, whose counterexample is the finding.       *)
(***************************************************************************)
EXTENDS AnswerTurn

Quiet == \A p \in Players : pc[p] = "idle"

(* docs/DESIGN.md:16: who attempts while another player answers is queued and   *)
(* served afterwards, in turn.  So when a phase is over, its boundary is stored  *)
(* and no handler runs, no queued player stands behind the boundary.  An attempt *)
(* that queues itself after the last answerer read the queue, and loses the      *)
(* election before that answerer gives up the turn, is left there by both        *)
(* handlers.                                                                     *)
NobodyForgotten ==
    Quiet /\ answerer = None /\ tail # None =>
        \A e \in queue : \E t \in PlaceOf(queue, tail) : ~Before(t, e)

(* handlers/round_events_3x.py:422: an attempt that finds no playback state is told *)
(* "Failed to join answer queue".  So whom the handler refuses there has no place.  *)
(* But the place was taken before the playback was read.                            *)
RefusedHasNoPlace ==
    [][\A p \in Players :
          pc[p] = "readPlayback" /\ pc'[p] = "idle" => PlaceOf(queue', p) = {}]_vars

(* cache/room_cache.py:337, append_attempt_answer_player: a player already in the *)
(* queue is refused, so nobody has two places.                                    *)
OneEntryEach == \A e, f \in queue : e.player = f.player => e = f

(* handlers/connection_lifespan.py:359: a kick clears the answering state so that *)
(* nothing of the kicked player remains.                                          *)
KickReleasesTurn == Quiet => answerer \notin kicked

(* handlers/round_events_3x.py:762: an empty queue means the answering phase is *)
(* over.  So when all handlers returned and the queue is empty, it is nobody's  *)
(* turn, except for a turn whose player has yet to submit.                      *)
EmptyQueueEndsPhase ==
    Quiet /\ queue = {} /\ answerer # None => answers[answerer][songIndex] = 0
=============================================================================
