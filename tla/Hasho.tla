-------------------------------- MODULE Hasho --------------------------------
(***************************************************************************)
(* The hash table in shared memory (ref_lib/hasho/hasho.c) over its pool   *)
(* of nodes (ref_lib/memg/memg.c): chains doubly linked by offsets, one    *)
(* process that finds, adds and deletes, and that may die between any two  *)
(* stores.  The segment survives it: memg_init of the next process attaches*)
(* it as it is (memg.c:131-145), and hasho_init stores the same sizes      *)
(* again.                                                                  *)
(*                                                                         *)
(* Abstractions.  An offset is the number of a place the size of a node, 0 *)
(* the NULL offset: the nodes are the first TotCnt places, and place       *)
(* TotCnt + 1 is at offsetNodeEnd.  As in MemsPool, Past places behind the *)
(* last node are mapped, zeros at first; touching what lies behind them    *)
(* kills the process, and the offsets from Last + 2 on are one.  Data,     *)
(* sizes and debug strings are left out, and so is a pool in the process's *)
(* own memory, which dies with it.  One step is one store into what the    *)
(* next process will read, with the reads and the private stores before    *)
(* it: a node is private until a head or a prev has its offset.            *)
(***************************************************************************)
EXTENDS Integers, FiniteSets

CONSTANTS
  Key,
  Bucket,      (* 0 .. uiHashSize - 1                                      *)
  hasho_func,  (* the bucket of each key                                   *)
  TotCnt,      (* uiMemNodeTotCnt                                          *)
  Past,        (* places behind the last node in the segment's pages       *)
  Torn,        (* may the process die between the two stores of a link or  *)
               (* an unlink?                                               *)
  MaxDeaths    (* bound: deaths                                            *)

Node == 1 .. TotCnt
Last == TotCnt + Past
Place == 1 .. Last

ASSUME HashoAssumption ==
  /\ Key # {} /\ hasho_func \in [Key -> Bucket]
  /\ TotCnt \in Nat \ {0}
  /\ Past \in Nat
  /\ Torn \in BOOLEAN
  /\ MaxDeaths \in Nat

VARIABLES
  (* The segment.                                                          *)
  alloced,              (* the places whose ucIsFree is MEMG_ALLOCED        *)
  uiMemNodeAllocedCnt,
  offsetFreeList,
  pNodeHead,            (* the array of chain heads                        *)
  next, prev,           (* offset_next and offset_prev of the places       *)
  key,                  (* the key copied into each place                  *)
  (* The process.                                                          *)
  pc, kind, pKey,       (* where it is, in which call, for which key       *)
  p,                    (* its node, or pOff of hasho_find                 *)
  iDebug,               (* occupied nodes memg_alloc has met               *)
  ret,                  (* what the call that has just ended returned      *)
  (* History.                                                              *)
  deaths,
  chain                 (* per node in the table: itself and the nodes     *)
                        (* linked into its chain before it                 *)

memg == <<alloced, uiMemNodeAllocedCnt, offsetFreeList>>
links == <<pNodeHead, next, prev, key, chain>>
call == <<kind, pKey>>
vars == <<memg, links, pc, call, p, iDebug, ret, deaths>>

Linked == {n \in Place : n \in chain[n]}
Table == {key[n] : n \in Linked}
In(b) == {n \in Linked : hasho_func[key[n]] = b}
Head == pNodeHead[hasho_func[pKey]]

SomeKey == CHOOSE x \in Key : TRUE

Init ==
  /\ alloced = {} /\ uiMemNodeAllocedCnt = 0 /\ offsetFreeList = 1
  /\ pNodeHead = [b \in Bucket |-> 0]
  /\ next = [n \in Place |-> 0] /\ prev = [n \in Place |-> 0]
  /\ key = [n \in Place |-> SomeKey]
  /\ pc = "idle" /\ kind = "find" /\ pKey = SomeKey
  /\ p = 0 /\ iDebug = 0 /\ ret = 0
  /\ deaths = 0
  /\ chain = [n \in Place |-> {}]

(* A call ends; its arguments and local variables are no more.             *)
Leave ==
  /\ pc' = "idle"
  /\ kind' = "find" /\ pKey' = SomeKey /\ p' = 0 /\ iDebug' = 0

Return(r) == Leave /\ ret' = r

(* The call goes on at l, with node n.                                     *)
Goto(l, n) ==
  /\ pc' = l /\ p' = n
  /\ UNCHANGED <<call, iDebug, ret>>

Call(o, x) ==
  /\ pc = "idle"
  /\ kind' = o /\ pKey' = x
  /\ p' = pNodeHead[hasho_func[x]]
  /\ pc' = "find" /\ ret' = 0
  /\ UNCHANGED <<memg, links, iDebug, deaths>>

-----------------------------------------------------------------------------
(* hasho_find, and what its three callers do with the answer.              *)

Walk ==
  /\ pc = "find" /\ p # 0 /\ key[p] # pKey
  /\ Goto("find", next[p])
  /\ UNCHANGED <<memg, links, deaths>>

Found ==
  /\ pc = "find" /\ p # 0 /\ key[p] = pKey
  /\ \/ kind = "find" /\ Return(p)
     \/ kind = "add" /\ Return(0)
     \/ kind = "del" /\ Goto("unlink", p)
  /\ UNCHANGED <<memg, links, deaths>>

Missed ==
  /\ pc = "find" /\ p = 0
  /\ \/ kind = "find" /\ Return(0)
     \/ kind = "add" /\ Goto("alloc", 0)
     \/ kind = "del" /\ Return(ret)
  /\ UNCHANGED <<memg, links, deaths>>

-----------------------------------------------------------------------------
(* memg_alloc, called by hasho_add.                                        *)

AllFull ==
  /\ pc = "alloc" /\ uiMemNodeAllocedCnt >= TotCnt
  /\ Return(0)
  /\ UNCHANGED <<memg, links, deaths>>

(* Mutant: the end of the pool is noticed one place too late.              *)
AtEnd_Beyond(n) == n = TotCnt + 2

(* offsetFreeList has come to offsetNodeEnd.                               *)
AtEnd(n) == n = TotCnt + 1

(* The turn of the loop takes its place and moves offsetFreeList on, in    *)
(* the first of two stores ...                                             *)
Advance ==
  /\ pc = "alloc" /\ uiMemNodeAllocedCnt < TotCnt
  /\ offsetFreeList' = IF offsetFreeList > Last + 1 THEN offsetFreeList
                                                   ELSE offsetFreeList + 1
  /\ Goto(IF AtEnd(offsetFreeList') THEN "wrap" ELSE "look", offsetFreeList)
  /\ UNCHANGED <<alloced, uiMemNodeAllocedCnt, links, deaths>>

(* ... of which the second starts the pool over.                           *)
Wrap ==
  /\ pc = "wrap"
  /\ offsetFreeList' = 1
  /\ Goto("look", p)
  /\ UNCHANGED <<alloced, uiMemNodeAllocedCnt, links, deaths>>

(* Mutant: a node is taken without a look at ucIsFree.                     *)
Take_Blind ==
  /\ pc = "look" /\ p \in Place
  /\ alloced' = alloced \cup {p}
  /\ Goto("count", p)
  /\ UNCHANGED <<uiMemNodeAllocedCnt, offsetFreeList, links, deaths>>

Take ==
  /\ pc = "look" /\ p \in Place \ alloced
  /\ alloced' = alloced \cup {p}
  /\ Goto("count", p)
  /\ UNCHANGED <<uiMemNodeAllocedCnt, offsetFreeList, links, deaths>>

(* Mutant: the scan gives up two nodes early.                              *)
GiveUp_Early(seen) == seen >= TotCnt - 1

(* The loop gives up once it has seen this many occupied nodes.            *)
GiveUp(seen) == seen > TotCnt

Skip ==
  /\ pc = "look" /\ p \in alloced
  /\ \/ GiveUp(iDebug + 1) /\ Return(0)
     \/ /\ ~GiveUp(iDebug + 1)
        /\ pc' = "alloc" /\ p' = 0 /\ iDebug' = iDebug + 1
        /\ UNCHANGED <<call, ret>>
  /\ UNCHANGED <<memg, links, deaths>>

(* The place the scan has come to is not mapped: the process dies.         *)
Fault ==
  /\ pc = "look" /\ p \notin Place
  /\ Return(0)
  /\ UNCHANGED <<memg, links, deaths>>

(* The node is counted; hasho_add clears it and copies the key.            *)
Count ==
  /\ pc = "count"
  /\ uiMemNodeAllocedCnt' = uiMemNodeAllocedCnt + 1
  /\ next' = [next EXCEPT ![p] = 0] /\ prev' = [prev EXCEPT ![p] = 0]
  /\ key' = [key EXCEPT ![p] = pKey]
  /\ Goto("link", p)
  /\ UNCHANGED <<alloced, offsetFreeList, pNodeHead, chain, deaths>>

-----------------------------------------------------------------------------
(* hasho_link_node, called by hasho_add: p goes before the first node.     *)

(* Mutant: the first node is not told of its new neighbour.                *)
LinkPrev_Forgot ==
  /\ pc = "link" /\ Head # 0
  /\ Goto("linked", p)
  /\ UNCHANGED <<memg, links, deaths>>

LinkPrev ==
  /\ pc = "link" /\ Head # 0
  /\ prev' = [prev EXCEPT ![p] = prev[Head], ![Head] = p]
  /\ Goto("linked", p)
  /\ UNCHANGED <<memg, pNodeHead, next, key, chain, deaths>>

LinkHead ==
  /\ pc = "linked" \/ (pc = "link" /\ Head = 0)
  /\ next' = [next EXCEPT ![p] = Head]
  /\ pNodeHead' = [pNodeHead EXCEPT ![hasho_func[pKey]] = p]
  /\ chain' = [chain EXCEPT ![p] = {p} \cup In(hasho_func[pKey])]
  /\ Return(p)
  /\ UNCHANGED <<memg, prev, key, deaths>>

-----------------------------------------------------------------------------
(* hasho_unlink_node and memg_free, called by hasho_del.                   *)

UnlinkNext ==
  /\ pc = "unlink"
  /\ IF prev[p] # 0
       THEN next' = [next EXCEPT ![prev[p]] = next[p]] /\ UNCHANGED pNodeHead
       ELSE /\ pNodeHead' = [pNodeHead EXCEPT ![hasho_func[key[p]]] = next[p]]
            /\ UNCHANGED next
  /\ chain' = [n \in Place |-> IF n = p THEN {} ELSE chain[n] \ {p}]
  /\ Goto(IF next[p] # 0 THEN "unlinked" ELSE "free", p)
  /\ UNCHANGED <<memg, prev, key, deaths>>

UnlinkPrev ==
  /\ pc = "unlinked"
  /\ prev' = [prev EXCEPT ![next[p]] = prev[p]]
  /\ Goto("free", p)
  /\ UNCHANGED <<memg, pNodeHead, next, key, chain, deaths>>

(* Of all places memg_init gave the nodes, and only them, their MEMG_ID;   *)
(* memg_free refuses the others, and hasho_del does not look.              *)
Free ==
  /\ pc = "free"
  /\ \/ p \in Node \cap alloced /\ alloced' = alloced \ {p} /\ Goto("uncount", p)
     \/ p \notin Node \cap alloced /\ UNCHANGED alloced /\ Return(ret)
  /\ UNCHANGED <<uiMemNodeAllocedCnt, offsetFreeList, links, deaths>>

(* Mutant: the count is not lowered.                                       *)
Uncount_Not ==
  /\ pc = "uncount"
  /\ Return(ret)
  /\ UNCHANGED <<memg, links, deaths>>

Uncount ==
  /\ pc = "uncount"
  /\ uiMemNodeAllocedCnt' = uiMemNodeAllocedCnt - 1
  /\ Return(ret)
  /\ UNCHANGED <<alloced, offsetFreeList, links, deaths>>

-----------------------------------------------------------------------------
(* The process dies, and the next one attaches the segment: every chain,   *)
(* count, mark and offset is what the last store left.                     *)
Die ==
  /\ deaths < MaxDeaths
  /\ pc \in {"linked", "unlinked"} => Torn
  /\ deaths' = deaths + 1
  /\ Return(0)
  /\ UNCHANGED <<memg, links>>

hasho_find == Walk \/ Found \/ Missed
memg_alloc == AllFull \/ Advance \/ Wrap \/ Take \/ Skip \/ Fault \/ Count
hasho_link_node == LinkPrev \/ LinkHead
hasho_unlink_node == UnlinkNext \/ UnlinkPrev
memg_free == Free \/ Uncount

Step ==
  hasho_find \/ memg_alloc \/ hasho_link_node \/ hasho_unlink_node \/ memg_free

Next ==
  \/ \E o \in {"find", "add", "del"}, x \in Key : Call(o, x)
  \/ Step
  \/ Die

Spec == Init /\ [][Next]_vars

(* A call runs on unless the process dies.                                 *)
FairSpec == Spec /\ WF_vars(Step)

-----------------------------------------------------------------------------
(* Properties                                                              *)

Labels == {"idle", "find", "alloc", "wrap", "look", "count", "link", "linked",
           "unlink", "unlinked", "free", "uncount"}

(* Every variable keeps its type.                                          *)
TypeOK ==
  /\ alloced \in SUBSET Place
  /\ uiMemNodeAllocedCnt \in 0 .. TotCnt
  /\ offsetFreeList \in 1 .. Last + 2
  /\ pNodeHead \in [Bucket -> Place \cup {0}]
  /\ next \in [Place -> Place \cup {0}] /\ prev \in [Place -> Place \cup {0}]
  /\ key \in [Place -> Key]
  /\ pc \in Labels /\ kind \in {"find", "add", "del"} /\ pKey \in Key
  /\ p \in 0 .. Last + 2 /\ iDebug \in 0 .. TotCnt
  /\ ret \in Place \cup {0}
  /\ deaths \in 0 .. MaxDeaths
  /\ chain \in [Place -> SUBSET Place]

From(n) == IF n = 0 THEN {} ELSE chain[n]

(* The head of a chain leads by next to every node added and not deleted,  *)
(* to each once and to no other, whatever was interrupted before.          *)
NextSound ==
  /\ \A b \in Bucket :
       pNodeHead[b] \in Linked \cup {0} /\ In(b) = From(pNodeHead[b])
  /\ \A n \in Linked :
       /\ next[n] \in Linked \cup {0} /\ n \notin From(next[n])
       /\ chain[n] = {n} \cup From(next[n])
       /\ chain[n] \subseteq In(hasho_func[key[n]])
  /\ \A n \in Place \ Linked : chain[n] = {}

(* The one node whose prev is wrong, between the two stores.               *)
PrevPending(n) ==
  \/ pc = "linked" /\ n = Head
  \/ pc = "unlinked" /\ n = next[p]

(* A prev of NULL marks the first node of its chain, and only that one     *)
(* (hasho_unlink_node relies on it to find the store that skips a node);   *)
(* every other leads back to where next came from.                         *)
PrevSound ==
  /\ \A n \in Linked :
       IF PrevPending(n) THEN prev[n] = p
       ELSE IF prev[n] = 0 THEN pNodeHead[hasho_func[key[n]]] = n
       ELSE prev[n] \in Linked /\ next[prev[n]] = n
  /\ \A n \in Linked :
       next[n] # 0 /\ ~PrevPending(next[n]) => prev[next[n]] = n

ChainsSound == NextSound /\ PrevSound

(* What hasho_find finds was added and is not deleted (hasho_del, "deletes *)
(* the node from the hash", hasho.c:432).                                  *)
FoundIsPresent == pc = "find" /\ p # 0 /\ key[p] = pKey => p \in Linked

(* offsetFreeList is out of the pool, and nobody is about to bring it back *)
(* to the first node.                                                      *)
Overrun == offsetFreeList > TotCnt /\ pc # "wrap"

(* The scan leaves the pool in one way only: the process dies when it has  *)
(* just moved offsetFreeList to offsetNodeEnd (memg.c:241-243), whatever   *)
(* other deaths left behind.                                               *)
LeavesByDeathOnly == [][~Overrun /\ Overrun' => pc = "wrap" /\ Die]_vars

(* A call ends: no walk runs in a circle, no scan for ever.                *)
CallEnds == pc # "idle" ~> pc = "idle"

(* Deaths and two-store updates do not show in what the table holds: the   *)
(* calls take effect at one instant each.  What the death of               *)
(* LeavesByDeathOnly costs is told there: adds refused without need, and   *)
(* processes that die in an add.                                           *)
Pending == {"find", "alloc", "wrap", "look", "count", "link", "linked", "unlink"}
Request == IF pc \in Pending THEN <<kind, pKey>> ELSE <<"none">>
Promised == INSTANCE TableSpec WITH
  table <- Table, request <- Request, reply <- ret # 0, overrun <- Overrun,
  Capacity <- TotCnt
ImplementsTable == Promised!Spec

-----------------------------------------------------------------------------
(* The inductive invariant                                                 *)

(* The walk has not passed the key.                                        *)
WalkInv ==
  pc = "find" =>
    /\ p # 0 => p \in In(hasho_func[pKey])
    /\ \A n \in Linked : key[n] = pKey => n \in From(p)

(* The place of the turn; the nodes memg_alloc has met are those before.   *)
Turn == IF pc = "alloc" THEN offsetFreeList ELSE p
Met == {n \in Node : \/ n < Turn /\ Turn - n <= iDebug
                     \/ n >= Turn /\ Turn + TotCnt - n <= iDebug}
Scanning == {"alloc", "wrap", "look"}
ScanInv ==
  /\ pc \in {"idle", "find"} => iDebug = 0
  /\ pc \in Scanning /\ ~Overrun => Met \subseteq alloced
  /\ pc = "look" => p > 0
  /\ pc = "look" /\ ~Overrun =>
       p \in Node /\ offsetFreeList = IF p = TotCnt THEN 1 ELSE p + 1
  /\ pc = "wrap" => p = TotCnt /\ offsetFreeList = TotCnt + 1
  /\ pc \in {"wrap", "look", "count"} => uiMemNodeAllocedCnt < TotCnt
  /\ alloced \subseteq Node \/ Overrun

(* The keys in the table are different, and an add adds another.           *)
KeysDiffer ==
  /\ \A m, n \in Linked : key[m] = key[n] => m = n
  /\ pc \in Scanning \cup {"count", "link", "linked"} => kind = "add" /\ pKey \notin Table

(* Where the node of the call is.                                          *)
Holding == {"count", "link", "linked", "unlinked", "free"}
Counted == {"link", "linked", "unlinked", "free", "uncount"}
PlaceInv ==
  /\ pc \in Holding => p \in alloced \ Linked
  /\ pc \in {"unlink", "unlinked", "free", "uncount"} => kind = "del"
  /\ pc = "unlink" => p \in Linked /\ key[p] = pKey
  /\ pc = "uncount" => p \in Node \ alloced
  /\ pc \in {"link", "linked"} => key[p] = pKey /\ prev[p] = 0 /\ next[p] = 0
  /\ pc = "linked" => Head # 0
  /\ pc = "unlinked" =>
       /\ next[p] \in In(hasho_func[pKey])
       /\ IF prev[p] = 0 THEN Head = next[p]
          ELSE prev[p] \in Linked /\ next[prev[p]] = next[p]
       /\ \A n \in Linked : next[n] = next[p] => n = prev[p]

(* A death costs at most one node and one count, unless one ruins the      *)
(* pool; and whatever happens, every node of the table is counted.         *)
CountInv ==
  /\ Linked \subseteq alloced
  /\ uiMemNodeAllocedCnt >= Cardinality(Linked) + (IF pc \in Counted THEN 1 ELSE 0)
  /\ ~Overrun =>
       /\ Cardinality(alloced) <=
            Cardinality(Linked) + deaths + (IF pc \in Holding THEN 1 ELSE 0)
       /\ uiMemNodeAllocedCnt <=
            Cardinality(Linked) + deaths + (IF pc \in Counted THEN 1 ELSE 0)

IInv ==
  /\ TypeOK /\ ChainsSound /\ WalkInv /\ ScanInv /\ KeysDiffer /\ PlaceInv
  /\ CountInv
=============================================================================
