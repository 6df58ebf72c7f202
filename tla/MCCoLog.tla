------------------------------- MODULE MCCoLog -------------------------------
(* Small instances of CoLog for TLC.  No symmetry: the runs check liveness. *)
EXTENDS CoLog
=============================================================================
