------------------------- MODULE SonglistImportClaims -------------------------
(* What the documentation says of the cookies, and the code does not keep. *)
EXTENDS SonglistImport

(* docs/COOKIE_ROTATION_IMPLEMENTATION.md:178, the failed cookie is followed by *)
(* "the next healthy cookie".  rotate takes the next one of the list.           *)
RotatesToHealthy ==
    [][current' # current /\ mishaps' = mishaps =>
        failed'[current'] < 3 \/ \A c \in Pool : failed'[c] = 3]_vars

(* docs/COOKIE_ROTATION_IMPLEMENTATION.md:176-177, the current cookie is marked *)
(* when a call made with it fails.  With two workers another one may be current. *)
BlamedWasUsed == BlamesTheUsed
=============================================================================
