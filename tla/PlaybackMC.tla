----------------------------- MODULE PlaybackMC -----------------------------
(* The module that TLC checks Playback with. *)
EXTENDS Playback
=============================================================================
