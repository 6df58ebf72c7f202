----------------------------- MODULE MCMemsPool -----------------------------
(* Small instances of MemsPool for TLC.                                    *)
EXTENDS MemsPool, TLC

(* Clients are alike, so states that differ by their names are one.        *)
ClientSymmetry == Permutations(Client)
=============================================================================
