---------------------------- MODULE MCFileAssets ----------------------------
(* Instance of FileAssets for TLC. *)
EXTENDS FileAssets
=============================================================================
