------------------------------ MODULE MsgSpec ------------------------------
(***************************************************************************)
(* What passing messages in shared memory promises, with no word on how: a *)
(* node belongs at any time to nobody, to one process, to one queue, or is *)
(* lost with a process that died.  A message goes from hand to hand as a   *)
(* whole, and nothing is copied.  Nifo implements this specification.      *)
(***************************************************************************)
CONSTANTS
  Proc,      (* the processes, each with a queue of its own                *)
  Node,      (* the nodes of the pool                                      *)
  Nobody,    (* the holder of a free node                                  *)
  Lost       (* the holder of a node whose process died                    *)

VARIABLE holder

Hand(p) == <<"process", p>>
Queue(p) == <<"queue", p>>

Init == holder = [n \in Node |-> Nobody]

(* Hand-overs of one node: it is granted, given back, or collected.        *)
OneByOne ==
  {<<Nobody, Hand(p)>> : p \in Proc} \cup {<<Hand(p), Nobody>> : p \in Proc}
    \cup {<<Lost, Nobody>>}

(* Hand-overs of a message: it is sent or received.                        *)
AsAWhole ==
  {<<Hand(p), Queue(r)>> : p, r \in Proc} \cup {<<Queue(p), Hand(p)>> : p \in Proc}

(* Process p dies, with all it has.                                        *)
Deaths == {<<Hand(p), Lost>> : p \in Proc}

(* From now to then, some nodes went from one holder to another.           *)
HandOver(now, then) ==
  LET moved == {n \in Node : now[n] # then[n]}
      ways == {<<now[n], then[n]>> : n \in moved}
  IN \E w \in OneByOne \cup AsAWhole \cup Deaths :
       /\ ways = {w}
       /\ w \in OneByOne => \A m, n \in moved : m = n
       /\ w \in Deaths => moved = {n \in Node : now[n] = w[1]}

Next == HandOver(holder, holder')

Spec == Init /\ [][Next]_holder
=============================================================================
