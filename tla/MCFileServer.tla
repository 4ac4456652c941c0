---------------------------- MODULE MCFileServer ----------------------------
(* The constants of the runs of FileServer that a cfg cannot write. *)
EXTENDS FileServer
MCBlocks == {1, 2}
=============================================================================
