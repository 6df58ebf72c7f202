------------------------------ MODULE PoolSpec ------------------------------
(***************************************************************************)
(* What a shared pool of memory nodes promises its users, with no word on  *)
(* how: a node is at any time granted to nobody, to one client, or lost    *)
(* (its client died holding it).  Only a free node is granted, only the    *)
(* client that holds a node gives it back, and only a lost node is         *)
(* collected.  A death at the wrong moment may ruin the pool: from then on *)
(* it may also grant the places behind its nodes, which it never takes     *)
(* back.                                                                   *)
(* MemsPool implements this specification.                                 *)
(***************************************************************************)
CONSTANTS
  Client,   (* the processes that allocate and free nodes                  *)
  Node,     (* the nodes of the pool                                       *)
  Place,    (* the nodes, and the places behind them                       *)
  Nobody,   (* the grant of a free node                                    *)
  Lost      (* the grant of a node whose client died                       *)

VARIABLES
  grant,    (* of each place                                               *)
  overrun   (* has a death ruined the pool?                                *)

Init == grant = [n \in Place |-> Nobody] /\ overrun = FALSE

Grant(p, n) ==
  /\ grant[n] = Nobody
  /\ n \in Node \/ overrun
  /\ grant' = [grant EXCEPT ![n] = p]
  /\ UNCHANGED overrun

GiveBack(p, n) ==
  /\ grant[n] = p
  /\ grant' = [grant EXCEPT ![n] = IF n \in Node THEN Nobody ELSE Lost]
  /\ UNCHANGED overrun

Die(p) ==
  /\ grant' = [n \in Place |-> IF grant[n] = p THEN Lost ELSE grant[n]]
  /\ overrun' \in {overrun, TRUE}

Collect(n) ==
  /\ n \in Node
  /\ grant[n] = Lost
  /\ grant' = [grant EXCEPT ![n] = Nobody]
  /\ UNCHANGED overrun

Next ==
  \/ \E p \in Client, n \in Place : Grant(p, n) \/ GiveBack(p, n)
  \/ \E p \in Client : Die(p)
  \/ \E n \in Node : Collect(n)

Spec == Init /\ [][Next]_<<grant, overrun>>
=============================================================================
