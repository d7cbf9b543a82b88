------------------------------ MODULE SongListMC ------------------------------
(* Instances of SongList for TLC. *)
EXTENDS SongList, TLC

(* Requests are alike; not for runs with a liveness property. *)
Symmetry == Permutations(Requests)
=============================================================================
