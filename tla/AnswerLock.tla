----------------------------- MODULE AnswerLock -----------------------------
(***************************************************************************)
(* What the answerer key promises, without the Redis keys and the steps    *)
(* that implement it: a lock that a player is given when it is free, that  *)
(* admits a submission of its holder only, and that leaves its holder only *)
(* at the end of a submission of that holder -- or by a reset, where the   *)
(* room's requests include one.                                            *)
(***************************************************************************)
CONSTANTS Players, None, Resettable

VARIABLES
    holder,     \* the player whose turn it is
    busy        \* players one of whose submissions was admitted and is not over

Init == holder = None /\ busy = {}

(* A free lock is given to a player. *)
Take ==
    /\ holder = None
    /\ holder' \in Players
    /\ UNCHANGED busy

(* A submission is admitted. *)
Begin(p) ==
    /\ holder = p
    /\ busy' = busy \cup {p}
    /\ UNCHANGED holder

(* An admitted submission ends.  If its player still holds the lock it may hand *)
(* it on or free it; a submission that lost the lock changes nothing.           *)
Finish(p) ==
    /\ p \in busy
    /\ busy' = busy \ {p}
    /\ holder' = holder \/ (holder = p /\ holder' \in Players \cup {None})

Reset ==
    /\ Resettable
    /\ holder' = None
    /\ UNCHANGED busy

Next == Take \/ Reset \/ \E p \in Players : Begin(p) \/ Finish(p)

Spec == Init /\ [][Next]_<<holder, busy>>

(* Nobody but the holder has an admitted submission, so at most one submission *)
(* is in process and the compare-and-set that ends it succeeds.                *)
Exclusive == busy \subseteq {holder}
=============================================================================
