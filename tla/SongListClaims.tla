----------------------------- MODULE SongListClaims -----------------------------
(* What a message and two docstrings of router/room_songs.py say, which SongList *)
(* violates.                                                                     *)
EXTENDS SongListMC

(* "Room is not in WAITING state; song list modifications are not allowed"       *)
(* (room_songs.py:59): the requests leave the list of a running game alone.  One *)
(* that passed the check before GAME_START committed goes on.                    *)
ListFrozenInGame ==
    [][status = "RUNNING" => list' = list]_vars

(* "Trigger the download of the first three songs after the list changed"         *)
(* (room_songs.py:64).  A clear triggers nothing, and a song added meanwhile stays *)
(* in the room, to be refused by GAME_START.                                      *)
EveryListAsked ==
    Quiet => \E q \in Queues(list) : FirstSongs(q) \subseteq asked

(* The same of a list that nobody cleared: where two requests wait for each other's *)
(* rows, the database ends one, and in a preload that error is logged and nothing   *)
(* is enqueued (audio_preload_and_token.py:238, room_songs.py:89).                  *)
UnclearedListAsked ==
    Quiet /\ ~Cleared => \E q \in Queues(list) : FirstSongs(q) \subseteq asked

(* "Refresh the song the playback begins with by the latest order"               *)
(* (room_songs.py:95): of two shuffles the one that read the queue first may be   *)
(* the last to write the playback.                                               *)
PlaybackFollowsOrder ==
    Quiet /\ (\A r \in Requests : pc[r] = "done" /\ job[r].kind = "shuffle") =>
        playing = None \/ \E q \in Queues(list) : q # <<>> /\ playing = q[1]
=============================================================================
