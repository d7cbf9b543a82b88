--------------------------- MODULE DownloadsClaims ---------------------------
(***************************************************************************)
(* Statements of the repository about downloads that the code of Downloads *)
(* does not keep.                                                          *)
(***************************************************************************)
EXTENDS Downloads

(* handle_game_start: the first songs of the queue must have been downloaded. *)
StartedIsDownloaded == [][started' /\ ~started => Cached]_vars

(* set_test_audio: "Test audio download task is in progress" *)
InProgressIsTrue ==
    row \in InProgress =>
        \/ \E j \in Jobs : pc[j] # "free"
        \/ \E r \in Requests : req[r] = "record"
=============================================================================
