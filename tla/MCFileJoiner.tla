---------------------------- MODULE MCFileJoiner ----------------------------
(* FileJoiner on small instances.                                          *)
EXTENDS FileJoiner
=============================================================================
