------------------------------ MODULE GameLife ------------------------------
(***************************************************************************)
(* The game that docs/DESIGN.md promises, as two variables: it is started  *)
(* once, from the first song; the songs follow one another in the order of *)
(* the list, none is left out or played again; it ends once, at the last   *)
(* song.                                                                   *)
(***************************************************************************)
EXTENDS Naturals

CONSTANTS Songs, None

VARIABLES
    phase,      \* status of the room
    song        \* position in the song list, None before one was set

Init == phase = "WAITING" /\ song = None

Begin == phase = "WAITING" /\ phase' = "RUNNING" /\ song' = 0

(* From no position the next one is the second: the first is the one a game begins at. *)
NextSong ==
    /\ song' = IF song = None THEN 1 ELSE song + 1
    /\ song' < Songs
    /\ UNCHANGED phase

End ==
    /\ phase = "RUNNING" /\ phase' = "ENDED"
    /\ song = Songs - 1
    /\ UNCHANGED song

Next == Begin \/ NextSong \/ End

Spec == Init /\ [][Next]_<<phase, song>>
=============================================================================
