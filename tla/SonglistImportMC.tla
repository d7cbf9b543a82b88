--------------------------- MODULE SonglistImportMC ---------------------------
(* Instances of SonglistImport for TLC. *)
EXTENDS SonglistImport
=============================================================================
