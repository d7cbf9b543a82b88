---------------------------- MODULE PresenceClaims ----------------------------
(***************************************************************************)
(* A statement of the repository about connections that the code of        *)
(* Presence does not keep.                                                 *)
(***************************************************************************)
EXTENDS PresenceMC

(* docs/DESIGN.md, main.py: a user has one connection to a room, "Duplicate   *)
(* connection is not allowed".  Admit and Push are apart by the handshake.     *)
AtMostOne == Cardinality(registered) <= 1
=============================================================================
