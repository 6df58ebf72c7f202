------------------------------ MODULE MCCorrelate ------------------------------
(* Instances of Correlate for TLC: the values of a field are alike.        *)
EXTENDS Correlate

SmallIp == [ucTMSI |-> 2, ucIMSI |-> 2, uiIP |-> 1]
Alike == UNION {Permutations(S) : S \in {Times, Tmsis, Imsis, Ips}}
=============================================================================
