------------------------------- MODULE MCNifo -------------------------------
(* Small instances of Nifo for TLC.                                        *)
EXTENDS Nifo, TLC

(* Nodes are alike, and so are processes.                                  *)
Alike == Permutations(Proc) \cup Permutations(Node)
=============================================================================
