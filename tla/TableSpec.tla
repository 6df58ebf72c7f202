------------------------------ MODULE TableSpec ------------------------------
(***************************************************************************)
(* What a hash table in shared memory promises the process that uses it:   *)
(* each call takes effect at one instant or, if the process dies in it,    *)
(* perhaps not at all; find and add answer by the keys that are in the     *)
(* table; and an add is refused only when the keys and the deaths together *)
(* are as many as the nodes, a death costing at most one node.  A death at *)
(* the wrong moment ruins the pool of the table: from then on an add may   *)
(* be refused at any time, or kill the process; the keys are kept.         *)
(***************************************************************************)
EXTENDS Integers, FiniteSets

CONSTANTS
  Key,
  Capacity    (* the nodes the table was made with                         *)

VARIABLES
  table,      (* the keys in the table                                     *)
  request,    (* the call that has not yet taken effect                    *)
  reply,      (* whether the call that has just ended returned a node      *)
  deaths,     (* how often the process died                                *)
  overrun     (* has a death ruined the pool?                              *)

vars == <<table, request, reply, deaths, overrun>>

NoRequest == <<"none">>

Init ==
  /\ table = {} /\ request = NoRequest /\ reply = FALSE /\ deaths = 0
  /\ overrun = FALSE

Call(kind, k) ==
  /\ request = NoRequest
  /\ request' = <<kind, k>>
  /\ reply' = FALSE
  /\ UNCHANGED <<table, deaths, overrun>>

Find(k) ==
  /\ request = <<"find", k>>
  /\ reply' = (k \in table)
  /\ request' = NoRequest
  /\ UNCHANGED <<table, deaths, overrun>>

Add(k) ==
  /\ request = <<"add", k>>
  /\ \/ k \notin table /\ table' = table \cup {k} /\ reply' = TRUE
     \/ k \in table /\ UNCHANGED table /\ reply' = FALSE
     \/ /\ overrun \/ Cardinality(table) + deaths >= Capacity
        /\ UNCHANGED table /\ reply' = FALSE
  /\ request' = NoRequest
  /\ UNCHANGED <<deaths, overrun>>

Del(k) ==
  /\ request = <<"del", k>>
  /\ table' = table \ {k}
  /\ request' = NoRequest
  /\ UNCHANGED <<reply, deaths, overrun>>

Die ==
  /\ deaths' = deaths + 1
  /\ request' = NoRequest
  /\ reply' = FALSE
  /\ overrun' \in {overrun, TRUE}
  /\ UNCHANGED table

(* An add in a ruined pool kills the process, not for the last time.       *)
Fault ==
  /\ overrun
  /\ request' = NoRequest
  /\ reply' = FALSE
  /\ UNCHANGED <<table, deaths, overrun>>

Next ==
  \/ \E kind \in {"find", "add", "del"}, k \in Key : Call(kind, k)
  \/ \E k \in Key : Find(k) \/ Add(k) \/ Del(k)
  \/ Die \/ Fault

Spec == Init /\ [][Next]_vars
=============================================================================
