-------------------------------- MODULE Nifo --------------------------------
(***************************************************************************)
(* Messages of ref_lib/nifo/nifo.c: nodes of the shared pool, linked by    *)
(* offsets (ref_lib/clisto/clisto.stg), whose head's offset goes from      *)
(* process to process over System V queues while the nodes stay where they *)
(* are.  Processes die anywhere and start again, with empty hands; mems's  *)
(* collector frees what nobody stamped for long.                           *)
(*                                                                         *)
(* Abstractions.  A node is its offset; what it carries is left out.       *)
(* mems_alloc and mems_free are one step each, as MemsPool shows they may  *)
(* be taken while no death lets its scan out of the pool (mems.c:390-392;  *)
(* taken not to happen here), and the collector two, its look and its      *)
(* free.  A message is checked in one step.  TimeSec is the set stale, as  *)
(* in MemsPool.  Each process reads one queue of its own and sends to any. *)
(* Callers build messages of fresh nodes, give a message up when           *)
(* nifo_msg_write took it, and keep it when it was refused.  nifo_msg_read *)
(* is called with no READ_VAL_LIST (with one, a failing malloc loses the   *)
(* message).                                                               *)
(***************************************************************************)
EXTENDS Integers, Sequences, FiniteSets

CONSTANTS
  Proc,     (* the processes                                               *)
  Node,     (* the nodes of the pool                                       *)
  NULL,     (* the offset of no node                                       *)
  QMax,     (* messages a queue takes                                      *)
  Prompt    (* TRUE: what a live process or a queue has is never left      *)
            (* unstamped for timegap                                       *)

ASSUME NifoAssumption ==
  /\ IsFiniteSet(Node) /\ NULL \notin Node
  /\ QMax \in Nat
  /\ Prompt \in BOOLEAN

FREE == "MEMS_FREE"
ALLOCED == "MEMS_ALLOCED"

VARIABLES
  ucIsFree,   (* per node: FREE or ALLOCED                                 *)
  stale,      (* allocated nodes with TimeSec + timegap < time(0)          *)
  nont,       (* per node: its clist_head nont, the ring of a message's    *)
              (* nodes                                                     *)
  cont,       (* per node: its clist_head cont, the ring of the nodes that *)
              (* continue it                                               *)
  msgq,       (* per process: the heads in its queue                       *)
  held,       (* per process: the heads of the messages its caller has     *)
  pc,         (* where each process is                                     *)
  cur,        (* the head or node the call under way is about, or NULL     *)
  pNext,      (* nifo_node_delete's next node of the nont ring, or NULL    *)
  dest,       (* whose queue nifo_msg_write is about                       *)
  gc,         (* the node the collector is about to free, or NULL          *)
  sent        (* history: per head on its way, the message's nodes as sent *)

pool == <<ucIsFree, stale>>
rings == <<nont, cont>>
local == <<pc, cur, pNext, dest>>
vars == <<pool, rings, msgq, held, local, gc, sent>>

-----------------------------------------------------------------------------
(* clisto: circular lists by offset.                                       *)

CINIT_LIST_HEAD(n) == [offset_next |-> n, offset_prev |-> n]

(* Mutant: the next entry keeps its old offset_prev.                       *)
clist_add_NoPrev(list, new, prev, next) ==
  [list EXCEPT ![new] = [offset_next |-> next, offset_prev |-> prev],
               ![prev].offset_next = new]

clist_add(list, new, prev, next) ==
  [list EXCEPT ![next].offset_prev = new,
               ![new] = [offset_next |-> next, offset_prev |-> prev],
               ![prev].offset_next = new]

clist_add_head(list, new, head) == clist_add(list, new, head, list[head].offset_next)
clist_add_tail(list, new, head) == clist_add(list, new, list[head].offset_prev, head)

(* Mutant: the entry is reinitialised, its neighbours are not joined.      *)
clist_del_init_NoJoin(list, n) == [list EXCEPT ![n] = CINIT_LIST_HEAD(n)]

clist_del_init(list, n) ==
  [list EXCEPT ![list[n].offset_next].offset_prev = list[n].offset_prev,
               ![list[n].offset_prev].offset_next = list[n].offset_next,
               ![n] = CINIT_LIST_HEAD(n)]

(* The entries of the ring that n is in: the smallest set with n that no   *)
(* offset_next leads out of.                                               *)
Ring(list, n) ==
  LET Closed == {S \in SUBSET Node :
                   n \in S /\ \A m \in S : list[m].offset_next \in S \cup {NULL}}
  IN IF list[n].offset_next = n THEN {n} ELSE {m \in Node : \A S \in Closed : m \in S}

(* The entry after n, or NULL if n is alone.                               *)
After(list, n) == IF list[n].offset_next = n THEN NULL ELSE list[n].offset_next

(* The nodes of the message with head h.                                   *)
Parts(h) == UNION {Ring(cont, b) : b \in Ring(nont, h)}

(* nifo_node_check: all nodes of the message are allocated.                *)
Valid(h) == \A n \in Parts(h) : ucIsFree[n] = ALLOCED

-----------------------------------------------------------------------------
Init ==
  /\ ucIsFree = [n \in Node |-> FREE]
  /\ stale = {}
  /\ nont = [n \in Node |-> [offset_next |-> NULL, offset_prev |-> NULL]]
  /\ cont = nont
  /\ msgq = [p \in Proc |-> <<>>]
  /\ held = [p \in Proc |-> {}]
  /\ pc = [p \in Proc |-> "idle"]
  /\ cur = [p \in Proc |-> NULL]
  /\ pNext = [p \in Proc |-> NULL]
  /\ dest = [p \in Proc |-> p]
  /\ gc = NULL
  /\ sent = [n \in Node |-> {}]

(* exit(0), or a kill: what the process had in hand stays allocated.  One  *)
(* that is down differs in nothing from one that is idle and takes no      *)
(* step, so its restart needs no step of its own.                          *)
Exit(p) ==
  /\ pc' = [pc EXCEPT ![p] = "idle"]
  /\ held' = [held EXCEPT ![p] = {}]
  /\ cur' = [cur EXCEPT ![p] = NULL]
  /\ pNext' = [pNext EXCEPT ![p] = NULL]
  /\ dest' = [dest EXCEPT ![p] = p]

-----------------------------------------------------------------------------
(* Building a message                                                      *)

nifo_node_alloc(p, n) ==
  /\ pc[p] = "idle"
  /\ ucIsFree[n] = FREE
  /\ ucIsFree' = [ucIsFree EXCEPT ![n] = ALLOCED]
  /\ stale' = stale \ {n}
  /\ nont' = [nont EXCEPT ![n] = CINIT_LIST_HEAD(n)]
  /\ cont' = [cont EXCEPT ![n] = CINIT_LIST_HEAD(n)]
  /\ held' = [held EXCEPT ![p] = @ \cup {n}]
  /\ UNCHANGED <<msgq, local, gc, sent>>

(* p links its fresh node n to node b of its message h.                    *)
Link(p, h, b, n) ==
  /\ pc[p] = "idle"
  /\ h \in held[p] /\ n \in held[p] /\ n # h
  /\ Parts(n) = {n}
  /\ b \in Ring(nont, h)
  /\ held' = [held EXCEPT ![p] = @ \ {n}]
  /\ UNCHANGED <<pool, msgq, local, gc, sent>>

nifo_node_link_cont(p, h, b, n) ==
  /\ Link(p, h, b, n)
  /\ cont' \in {clist_add_tail(cont, n, b), clist_add_head(cont, n, b)}
  /\ UNCHANGED nont

nifo_node_link_nont(p, h, n) ==
  /\ Link(p, h, h, n)
  /\ nont' \in {clist_add_tail(nont, n, h), clist_add_head(nont, n, h)}
  /\ UNCHANGED cont

(* Node b, with the nodes that continue it, becomes a message of its own.  *)
nifo_node_unlink_nont(p, h, b) ==
  /\ pc[p] = "idle"
  /\ h \in held[p]
  /\ b \in Ring(nont, h) \ {h}
  /\ nont' = clist_del_init(nont, b)
  /\ held' = [held EXCEPT ![p] = @ \cup {b}]
  /\ UNCHANGED <<pool, cont, msgq, local, gc, sent>>

(* Node c, which continues node b, becomes a message of its own.           *)
nifo_node_unlink_cont(p, h, b, c) ==
  /\ pc[p] = "idle"
  /\ h \in held[p]
  /\ b \in Ring(nont, h) /\ c \in Ring(cont, b) \ {b}
  /\ cont' = clist_del_init(cont, c)
  /\ held' = [held EXCEPT ![p] = @ \cup {c}]
  /\ UNCHANGED <<pool, nont, msgq, local, gc, sent>>

-----------------------------------------------------------------------------
(* nifo_msg_write: the check, which stamps the nodes, then msgsnd.         *)

WriteCheck(p, h, r) ==
  /\ pc[p] = "idle"
  /\ h \in held[p]
  /\ IF Valid(h)
       THEN /\ pc' = [pc EXCEPT ![p] = "send"]
            /\ cur' = [cur EXCEPT ![p] = h]
            /\ dest' = [dest EXCEPT ![p] = r]
            /\ stale' = stale \ Parts(h)
            /\ UNCHANGED <<held, pNext>>
       ELSE Exit(p) /\ UNCHANGED stale
  /\ UNCHANGED <<ucIsFree, rings, msgq, gc, sent>>

(* Mutant: the queue is full at one message more.                          *)
QueueFull_OneMore(r) == Len(msgq[r]) > QMax

(* msgsnd with IPC_NOWAIT fails.                                           *)
QueueFull(r) == Len(msgq[r]) >= QMax

(* Mutant: the caller takes the node count returned for a failure, the doc *)
(* (nifo.c:1036) naming 0 as success, and keeps a message that was sent.   *)
Handed_Keep(p) == held

(* The caller's messages when msgsnd took the message.                     *)
Handed(p) == [held EXCEPT ![p] = @ \ {cur[p]}]

WriteSend(p) ==
  /\ pc[p] = "send"
  /\ IF QueueFull(dest[p])
       THEN UNCHANGED <<msgq, held, sent>>
       ELSE /\ msgq' = [msgq EXCEPT ![dest[p]] = Append(@, cur[p])]
            /\ held' = Handed(p)
            /\ sent' = [sent EXCEPT ![cur[p]] = Parts(cur[p])]
  /\ pc' = [pc EXCEPT ![p] = "idle"]
  /\ cur' = [cur EXCEPT ![p] = NULL]
  /\ dest' = [dest EXCEPT ![p] = p]
  /\ UNCHANGED <<pool, rings, pNext, gc>>

-----------------------------------------------------------------------------
(* nifo_msg_read: msgrcv, then the check.                                  *)

ReadReceive(p) ==
  /\ pc[p] = "idle"
  /\ msgq[p] # <<>>
  /\ msgq' = [msgq EXCEPT ![p] = Tail(@)]
  /\ pc' = [pc EXCEPT ![p] = "receive"]
  /\ cur' = [cur EXCEPT ![p] = Head(msgq[p])]
  /\ UNCHANGED <<pool, rings, held, pNext, dest, gc, sent>>

ReadCheck(p) ==
  /\ pc[p] = "receive"
  /\ IF Valid(cur[p])
       THEN /\ pc' = [pc EXCEPT ![p] = "idle"]
            /\ held' = [held EXCEPT ![p] = @ \cup {cur[p]}]
            /\ cur' = [cur EXCEPT ![p] = NULL]
            /\ stale' = stale \ Parts(cur[p])
            /\ UNCHANGED <<pNext, dest>>
       ELSE Exit(p) /\ UNCHANGED stale
  /\ sent' = [sent EXCEPT ![cur[p]] = {}]
  /\ UNCHANGED <<ucIsFree, rings, msgq, gc>>

-----------------------------------------------------------------------------
(* nifo_node_delete: node by node, each unlinked and freed.                *)

(* nifo_nont_delete of node n, whose continuing nodes come first.          *)
nifo_nont_delete(p, n) ==
  /\ pNext' = [pNext EXCEPT ![p] = After(nont, n)]
  /\ nont' = clist_del_init(nont, n)
  /\ cur' = [cur EXCEPT ![p] = n]

DeleteCall(p, h) ==
  /\ pc[p] = "idle"
  /\ h \in held[p]
  /\ held' = [held EXCEPT ![p] = @ \ {h}]
  /\ pc' = [pc EXCEPT ![p] = "delete"]
  /\ nifo_nont_delete(p, h)
  /\ UNCHANGED <<pool, cont, msgq, dest, gc, sent>>

(* Mutant: the rest of the nont ring is forgotten.                         *)
DeleteNext_One(p) ==
  /\ pc' = [pc EXCEPT ![p] = "idle"]
  /\ cur' = [cur EXCEPT ![p] = NULL]
  /\ pNext' = [pNext EXCEPT ![p] = NULL]
  /\ UNCHANGED nont

(* On to the next node of the nont ring, or the end of nifo_node_delete.   *)
DeleteNext(p) ==
  IF pNext[p] # NULL
    THEN nifo_nont_delete(p, pNext[p]) /\ UNCHANGED pc
    ELSE /\ pc' = [pc EXCEPT ![p] = "idle"]
         /\ cur' = [cur EXCEPT ![p] = NULL]
         /\ UNCHANGED <<pNext, nont>>

(* nifo_cont_delete: the node is unlinked and freed; if it was not         *)
(* allocated any more, the process ends.                                   *)
nifo_cont_delete(p) ==
  LET n == cur[p] IN
  /\ pc[p] = "delete"
  /\ cont' = clist_del_init(cont, n)
  /\ IF ucIsFree[n] = ALLOCED
       THEN /\ ucIsFree' = [ucIsFree EXCEPT ![n] = FREE]
            /\ stale' = stale \ {n}
            /\ IF After(cont, n) # NULL
                 THEN /\ cur' = [cur EXCEPT ![p] = After(cont, n)]
                      /\ UNCHANGED <<pc, pNext, nont>>
                 ELSE DeleteNext(p)
            /\ UNCHANGED <<held, dest>>
       ELSE Exit(p) /\ UNCHANGED <<pool, nont>>
  /\ UNCHANGED <<msgq, gc, sent>>

-----------------------------------------------------------------------------
(* Deaths, time and the collector of mems                                  *)

Crash(p) ==
  /\ Exit(p)
  /\ UNCHANGED <<pool, rings, msgq, gc, sent>>

(* What p still has to delete.                                             *)
Rest(p) ==
  IF pc[p] = "delete"
    THEN Ring(cont, cur[p]) \cup (IF pNext[p] = NULL THEN {} ELSE Parts(pNext[p]))
    ELSE {}

(* The nodes process p has in hand, and those in its queue.                *)
InHand(p) ==
  (UNION {Parts(h) : h \in held[p]}) \cup Rest(p)
    \cup (IF pc[p] = "receive" THEN Parts(cur[p]) ELSE {})

InQueue(p) == UNION {Parts(msgq[p][i]) : i \in DOMAIN msgq[p]}

Leaked(n) ==
  ucIsFree[n] = ALLOCED /\ \A p \in Proc : n \notin InHand(p) \cup InQueue(p)

Age(n) ==
  /\ ucIsFree[n] = ALLOCED /\ n \notin stale
  /\ Prompt => Leaked(n)
  /\ stale' = stale \cup {n}
  /\ UNCHANGED <<ucIsFree, rings, msgq, held, local, gc, sent>>

GcLook(n) ==
  /\ gc = NULL
  /\ ucIsFree[n] = ALLOCED /\ n \in stale
  /\ gc' = n
  /\ UNCHANGED <<pool, rings, msgq, held, local, sent>>

GcFree ==
  /\ gc # NULL
  /\ gc' = NULL
  /\ ucIsFree' = [ucIsFree EXCEPT ![gc] = FREE]
  /\ stale' = stale \ {gc}
  /\ UNCHANGED <<rings, msgq, held, local, sent>>

-----------------------------------------------------------------------------
Build(p) ==
  \/ \E n \in Node : nifo_node_alloc(p, n)
  \/ \E h, b, n \in Node : nifo_node_link_cont(p, h, b, n)
  \/ \E h, n \in Node : nifo_node_link_nont(p, h, n)
  \/ \E h, b \in Node : nifo_node_unlink_nont(p, h, b)
  \/ \E h, b, c \in Node : nifo_node_unlink_cont(p, h, b, c)

Write(p) == WriteSend(p) \/ \E h \in Node, r \in Proc : WriteCheck(p, h, r)
Read(p) == ReadReceive(p) \/ ReadCheck(p)
Delete(p) == nifo_cont_delete(p) \/ \E h \in Node : DeleteCall(p, h)
Collector == GcFree \/ \E n \in Node : GcLook(n)

Next ==
  \/ \E p \in Proc : Build(p) \/ Write(p) \/ Read(p) \/ Delete(p) \/ Crash(p)
  \/ \E n \in Node : Age(n)
  \/ Collector

Spec == Init /\ [][Next]_vars
-----------------------------------------------------------------------------
(* Properties                                                              *)

Links == [offset_next : Node \cup {NULL}, offset_prev : Node \cup {NULL}]

(* Every variable keeps its type, and no queue its limit exceeded.         *)
TypeOK ==
  /\ ucIsFree \in [Node -> {FREE, ALLOCED}]
  /\ stale \in SUBSET Node
  /\ nont \in [Node -> Links] /\ cont \in [Node -> Links]
  /\ msgq \in [Proc -> Seq(Node)] /\ \A p \in Proc : Len(msgq[p]) <= QMax
  /\ held \in [Proc -> SUBSET Node]
  /\ pc \in [Proc -> {"idle", "send", "receive", "delete"}]
  /\ cur \in [Proc -> Node \cup {NULL}] /\ pNext \in [Proc -> Node \cup {NULL}]
  /\ dest \in [Proc -> Proc]
  /\ gc \in Node \cup {NULL}
  /\ sent \in [Node -> SUBSET Node]

(* The messages there are: where each is, and its head.                    *)
Messages ==
  (UNION {{<<"held", p, h>> : h \in held[p]} : p \in Proc})
    \cup (UNION {{<<"queued", i, msgq[p][i]>> : i \in DOMAIN msgq[p]} : p \in Proc})

(* A node belongs to one message at most, a message to one process or one  *)
(* queue, and whoever has a node has it ALLOCED, through every transfer,   *)
(* refusal, deletion and death.                                            *)
OneHolder ==
  /\ \A a, b \in Messages : a # b => Parts(a[3]) \cap Parts(b[3]) = {}
  /\ \A p, q \in Proc :
       /\ p # q => InHand(p) \cap InHand(q) = {} /\ InQueue(p) \cap InQueue(q) = {}
       /\ InHand(p) \cap InQueue(q) = {}
  /\ \A p \in Proc : \A n \in InHand(p) \cup InQueue(p) : ucIsFree[n] = ALLOCED

(* The two rings of every node somebody has lead back and forth, so that   *)
(* unlinking a node joins its neighbours.                                  *)
RingsSound ==
  \A p \in Proc : \A n \in InHand(p) \cup InQueue(p) :
    \A list \in {nont, cont} :
      /\ list[list[n].offset_next].offset_prev = n
      /\ list[list[n].offset_prev].offset_next = n

(* The inductive invariant.  It speaks of the heads of the messages that   *)
(* somebody has: a process that deletes one has two, the node it is at and *)
(* the rest of the message.                                                *)
Owns(p) ==
  held[p] \cup (IF pc[p] \in {"receive", "delete"} THEN {cur[p]} ELSE {})
    \cup ({pNext[p]} \ {NULL})
Queued(p) == {msgq[p][i] : i \in DOMAIN msgq[p]}
Heads == UNION {Owns(p) \cup Queued(p) : p \in Proc}

(* R is a ring of the list: its links lead back and forth and, from any of *)
(* its entries, through all of it.                                         *)
IsRing(list, R) ==
  \A n \in R :
    /\ Ring(list, n) = R
    /\ list[n].offset_next \in R /\ list[list[n].offset_next].offset_prev = n
    /\ list[n].offset_prev \in R /\ list[list[n].offset_prev].offset_next = n

(* A message is a nont ring, each of its nodes is in a cont ring, and      *)
(* whoever continues a node is in no other nont ring.                      *)
Whole(h) ==
  /\ IsRing(nont, Ring(nont, h))
  /\ \A b \in Ring(nont, h) :
       /\ IsRing(cont, Ring(cont, b))
       /\ \A c \in Ring(cont, b) \ {b} : nont[c] = CINIT_LIST_HEAD(c)

(* What the call of p under way is about.                                  *)
CallSound(p) ==
  /\ pc[p] # "idle" => cur[p] \in Node
  /\ pc[p] = "send" => cur[p] \in held[p]
  /\ pc[p] \in {"receive", "delete"} => cur[p] \notin held[p] \cup {pNext[p]}
  /\ pc[p] = "delete" => nont[cur[p]] = CINIT_LIST_HEAD(cur[p])
  /\ pNext[p] # NULL => pc[p] = "delete" /\ pNext[p] \notin held[p]

CallInv == \A p \in Proc : CallSound(p)

(* Each head is in one place.                                              *)
PlaceInv ==
  /\ \A p, q \in Proc :
       /\ p # q => Owns(p) \cap Owns(q) = {} /\ Queued(p) \cap Queued(q) = {}
       /\ Owns(p) \cap Queued(q) = {}
  /\ \A p \in Proc : \A i, j \in DOMAIN msgq[p] : msgq[p][i] = msgq[p][j] => i = j

(* The messages are whole and have no node in common.                      *)
MessageInv ==
  /\ \A h \in Heads : Whole(h)
  /\ \A g, h \in Heads : g # h => Parts(g) \cap Parts(h) = {}

(* What somebody has is allocated; what the collector is after is          *)
(* allocated and nobody's.                                                 *)
PoolInv ==
  /\ \A h \in Heads : \A n \in Parts(h) : ucIsFree[n] = ALLOCED
  /\ \A n \in stale \cup ({gc} \ {NULL}) :
       ucIsFree[n] = ALLOCED /\ \A h \in Heads : n \notin Parts(h)

(* A message on its way has the nodes it was sent with.                    *)
SentInv ==
  \A p \in Proc :
    /\ \A h \in Queued(p) : sent[h] = Parts(h)
    /\ pc[p] = "receive" => sent[cur[p]] = Parts(cur[p])

(* All of it, if what a live process or a queue has is never left          *)
(* unstamped: no message loses a node or gains one while it is passed on.  *)
IInv == TypeOK /\ CallInv /\ PlaceInv /\ MessageInv /\ PoolInv /\ SentInv

(* nifo_node_check judges whether the nodes are valid (nifo.c:113): a      *)
(* message nifo_msg_read accepts still has the nodes it was sent with, and *)
(* no other process has any of them.  With Prompt FALSE it fails: a node   *)
(* freed under the message and allocated again is ALLOCED too.             *)
AcceptedIsValid ==
  [][\A p \in Proc : pc[p] = "receive" /\ cur[p] \in held'[p] =>
       /\ Parts(cur[p]) = sent[cur[p]]
       /\ \A q \in Proc \ {p} : Parts(cur[p]) \cap InHand(q) = {}]_vars

Nobody == <<"nobody">>
Lost == <<"lost">>

(* Who has each node, as MsgSpec sees it.                                  *)
holder ==
  LET hand == [p \in Proc |-> InHand(p)]
      queue == [p \in Proc |-> InQueue(p)]
      Has(f, n) == {p \in Proc : n \in f[p]}
      The(S) == CHOOSE p \in S : TRUE
  IN [n \in Node |->
        IF ucIsFree[n] = FREE THEN Nobody
        ELSE IF Has(hand, n) # {} THEN <<"process", The(Has(hand, n))>>
        ELSE IF Has(queue, n) # {} THEN <<"queue", The(Has(queue, n))>>
        ELSE Lost]

Passing == INSTANCE MsgSpec

(* Every step of Nifo is a step of MsgSpec or none: nodes change hands one *)
(* by one only from and to the pool, a message in a whole, a death loses   *)
(* all a process had and nothing else, the collector takes lost nodes      *)
(* only, and no node is lost while everyone lives.                         *)
ImplementsMessages == Passing!Spec
=============================================================================
