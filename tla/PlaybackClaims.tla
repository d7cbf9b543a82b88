----------------------------- MODULE PlaybackClaims -----------------------------
(***************************************************************************)
(* What the comments and messages of the code say of the playback and TLC  *)
(* refutes.                                                                *)
(***************************************************************************)
EXTENDS Playback

(* router/room.py:312 refuses a change of the test audio outside WAITING: "test     *)
(* audio modifications are not allowed".  A running game does not play it.          *)
NoTestInGame == RoundOn => hash # Test

(* cache/room_cache.py:239: the snapshot makes sure that the playback can be        *)
(* recovered after Redis evicted it.  What is recovered can be streamed.            *)
RecoveredOpens ==
    \A p \in Processes : pc[p] = "refill" /\ got[p] \in Tokens => Opens(got[p]) # 0

(* handlers/audio_events_2x.py:29: playback_status is always a complete state in    *)
(* Redis.                                                                           *)
StateIsComplete == hash # NoUrl
=============================================================================
