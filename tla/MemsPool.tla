------------------------------ MODULE MemsPool ------------------------------
(***************************************************************************)
(* The shared-memory node pool of ref_lib/mems/mems.c, as many processes   *)
(* use it at once: mems_alloc (under the semaphore), mems_free (without    *)
(* it) and mems_garbage_collector (without it), each in the steps between  *)
(* which another process may run, with processes that die at any step and  *)
(* the SEM_UNDO adjustments the kernel then applies.                       *)
(*                                                                         *)
(* Abstractions.  An offset is the number of a place the size of a node:   *)
(* place n is at offsetNodeStart + (n-1) * (header + body), the nodes are  *)
(* the first TotCnt places, and place TotCnt + 1 is at offsetNodeEnd.  The *)
(* kernel maps whole pages, filled with zeros: Past places behind the last *)
(* node can be read and written as well, whose ucIsFree is 0, MEMS_FREE,   *)
(* and whose uiID is not MEMS_ID; touching what lies behind them kills the *)
(* process (no other memory is taken to be mapped there), and the offsets  *)
(* from Last + 2 on are one.  TimeSec is kept as the one fact the code     *)
(* reads from it, whether TimeSec + timegap < time(0) (the set stale).     *)
(* The debugging strings are left out.  A request larger than the body     *)
(* size returns NULL at mems.c:373 before anything is touched; it changes  *)
(* no state and is no action.                                              *)
(***************************************************************************)
EXTENDS Integers

CONSTANTS
  Client,        (* processes that call mems_alloc and mems_free           *)
  Collector,     (* processes that call mems_garbage_collector             *)
  TotCnt,        (* uiMemNodeTotCnt, the number of nodes                   *)
  Past,          (* places behind the last node in the segment's pages     *)
  CntMod,        (* createCnt and delCnt wrap at this value (2^64 in C)    *)
  OwnersPrompt   (* TRUE: no live process holds a node longer than timegap *)

ASSUME MemsAssumption ==
  /\ Client \cap Collector = {}
  /\ TotCnt \in Nat \ {0}
  /\ Past \in Nat
  /\ CntMod \in Nat \ {0}
  /\ OwnersPrompt \in BOOLEAN

Proc == Client \cup Collector
Node == 1 .. TotCnt
Last == TotCnt + Past
Place == 1 .. Last
NULL == 0
FREE == "MEMS_FREE"
ALLOCED == "MEMS_ALLOCED"

VARIABLES
  semval,          (* value of the semaphore iSemID                        *)
  semadj,          (* per process: what SEM_UNDO adds back when it dies    *)
  ucIsFree,        (* per place: FREE or ALLOCED                           *)
  stale,           (* allocated nodes with TimeSec + timegap < time(0)     *)
  offsetFreeList,  (* the place mems_alloc looks at next                   *)
  createCnt,       (* allocations, modulo CntMod                           *)
  delCnt,          (* frees, modulo CntMod                                 *)
  pc,              (* where each process is                                *)
  cur,             (* pstMEMSNODEHDR of the call under way, or NULL        *)
  iDebug,          (* mems_alloc's count of occupied nodes seen            *)
  delTmp,          (* delCnt as read by the ++ of mems_free                *)
  iIndex,          (* mems_garbage_collector's loop index                  *)
  owned,           (* places whose pointer the caller holds                *)
  freeAtEntry      (* history: nodes free when the semaphore was taken     *)

shm == <<ucIsFree, stale, offsetFreeList, createCnt, delCnt>>
sem == <<semval, semadj>>
local == <<pc, cur, iDebug, delTmp, iIndex, owned>>
vars == <<shm, sem, local, freeAtEntry>>

(* Between P and V of mems_alloc.                                          *)
InCS(p) == pc[p] \in {"scan", "wrap", "look", "mark", "count", "unlock"}

(* p has place n: mems_alloc marked it for p, and p did not free it yet.   *)
Has(p, n) == n \in owned[p] \/ (n = cur[p] /\ pc[p] \in {"count", "unlock"})

Init ==
  /\ semval = 1
  /\ semadj = [p \in Proc |-> 0]
  /\ ucIsFree = [n \in Place |-> FREE]
  /\ stale = {}
  /\ offsetFreeList = 1
  /\ createCnt = 0
  /\ delCnt = 0
  /\ pc = [p \in Proc |-> "idle"]
  /\ cur = [p \in Proc |-> NULL]
  /\ iDebug = [p \in Proc |-> 0]
  /\ delTmp = [p \in Proc |-> 0]
  /\ iIndex = [p \in Proc |-> 1]
  /\ owned = [p \in Proc |-> {}]
  /\ freeAtEntry = {}

Goto(p, from, to) == pc[p] = from /\ pc' = [pc EXCEPT ![p] = to]

-----------------------------------------------------------------------------
(* mems_alloc                                                              *)

AllocCall(p) ==
  /\ Goto(p, "idle", "lock")
  /\ UNCHANGED <<shm, sem, cur, iDebug, delTmp, iIndex, owned, freeAtEntry>>

(* P(iSemID): semop -1 with SEM_UNDO, sleeping while the value is 0.       *)
AllocLock(p) ==
  /\ Goto(p, "lock", "scan")
  /\ semval > 0
  /\ semval' = semval - 1
  /\ semadj' = [semadj EXCEPT ![p] = @ + 1]
  /\ iDebug' = [iDebug EXCEPT ![p] = 0]
  /\ freeAtEntry' = {n \in Node : ucIsFree[n] = FREE}
  /\ UNCHANGED <<shm, cur, delTmp, iIndex, owned>>

(* Mutant: the end of the pool is noticed one place too late.              *)
AtEnd_Beyond(n) == n = TotCnt + 2

(* offsetFreeList has come to offsetNodeEnd.                               *)
AtEnd(n) == n = TotCnt + 1

(* The turn of the loop takes its place and moves offsetFreeList on, in    *)
(* the first of two stores ...                                             *)
Advance(p) ==
  /\ pc[p] = "scan"
  /\ cur' = [cur EXCEPT ![p] = offsetFreeList]
  /\ offsetFreeList' = IF offsetFreeList > Last + 1 THEN offsetFreeList
                                                   ELSE offsetFreeList + 1
  /\ pc' = [pc EXCEPT ![p] = IF AtEnd(offsetFreeList') THEN "wrap" ELSE "look"]
  /\ UNCHANGED <<ucIsFree, stale, createCnt, delCnt, sem, iDebug, delTmp,
                 iIndex, owned, freeAtEntry>>

(* ... of which the second starts the pool over.                           *)
Wrap(p) ==
  /\ Goto(p, "wrap", "look")
  /\ offsetFreeList' = 1
  /\ UNCHANGED <<ucIsFree, stale, createCnt, delCnt, sem, cur, iDebug, delTmp,
                 iIndex, owned, freeAtEntry>>

(* The place is free.                                                      *)
ScanHit(p) ==
  /\ Goto(p, "look", "mark")
  /\ cur[p] \in Place /\ ucIsFree[cur[p]] = FREE
  /\ UNCHANGED <<shm, sem, cur, iDebug, delTmp, iIndex, owned, freeAtEntry>>

(* Mutant: the scan gives up one node too early.                           *)
GiveUp_Early(seen) == seen >= TotCnt - 1

(* The loop gives up once it has seen this many occupied nodes.            *)
GiveUp(seen) == seen > TotCnt

(* The place is occupied: the next turn, or none.                          *)
ScanMiss(p) ==
  /\ Goto(p, "look", IF GiveUp(iDebug[p] + 1) THEN "unlock" ELSE "scan")
  /\ cur[p] \in Place /\ ucIsFree[cur[p]] # FREE
  /\ iDebug' = [iDebug EXCEPT ![p] = @ + 1]
  /\ cur' = [cur EXCEPT ![p] = NULL]
  /\ UNCHANGED <<shm, sem, delTmp, iIndex, owned, freeAtEntry>>

(* TimeSec, then ucIsFree.  Nobody reads TimeSec of a node that is not     *)
(* ALLOCED, so the two stores are one step.                                *)
Mark(p) ==
  /\ Goto(p, "mark", "count")
  /\ ucIsFree' = [ucIsFree EXCEPT ![cur[p]] = ALLOCED]
  /\ stale' = stale \ {cur[p]}
  /\ UNCHANGED <<offsetFreeList, createCnt, delCnt, sem, cur, iDebug, delTmp,
                 iIndex, owned, freeAtEntry>>

Count(p) ==
  /\ Goto(p, "count", "unlock")
  /\ createCnt' = (createCnt + 1) % CntMod
  /\ UNCHANGED <<ucIsFree, stale, offsetFreeList, delCnt, sem, cur, iDebug,
                 delTmp, iIndex, owned, freeAtEntry>>

(* Mutant: V without SEM_UNDO.                                             *)
Unlock_NoUndo(p) ==
  /\ Goto(p, "unlock", "idle")
  /\ semval' = semval + 1
  /\ owned' = [owned EXCEPT ![p] = @ \cup ({cur[p]} \ {NULL})]
  /\ cur' = [cur EXCEPT ![p] = NULL]
  /\ iDebug' = [iDebug EXCEPT ![p] = 0]
  /\ freeAtEntry' = {}
  /\ UNCHANGED <<semadj, shm, delTmp, iIndex>>

(* V(iSemID) and the return: the caller gets the node, or NULL.            *)
Unlock(p) ==
  /\ Goto(p, "unlock", "idle")
  /\ semval' = semval + 1
  /\ semadj' = [semadj EXCEPT ![p] = @ - 1]
  /\ owned' = [owned EXCEPT ![p] = @ \cup ({cur[p]} \ {NULL})]
  /\ cur' = [cur EXCEPT ![p] = NULL]
  /\ iDebug' = [iDebug EXCEPT ![p] = 0]
  /\ freeAtEntry' = {}
  /\ UNCHANGED <<shm, delTmp, iIndex>>

-----------------------------------------------------------------------------
(* mems_free, called by a client for a node it holds or by the collector.  *)
(* Its P and V are commented out (mems.c:450, 466, 480).                   *)

FreeCall(p, n) ==
  /\ Goto(p, "idle", "check")
  /\ n \in owned[p]
  /\ cur' = [cur EXCEPT ![p] = n]
  /\ UNCHANGED <<shm, sem, iDebug, delTmp, iIndex, owned, freeAtEntry>>

(* Where mems_free returns to: the client, or the collector's loop.        *)
Back(p) == IF p \in Collector THEN "gc" ELSE "idle"

NextIndex(p) == [iIndex EXCEPT ![p] = IF p \in Collector THEN @ + 1 ELSE @]

(* Of all places mems_init gave the nodes, and only them, their MEMS_ID.   *)
Freeable(n) == n \in Node /\ ucIsFree[n] = ALLOCED

FreeCheck(p) ==
  /\ Goto(p, "check", "clear")
  /\ Freeable(cur[p])
  /\ UNCHANGED <<shm, sem, cur, iDebug, delTmp, iIndex, owned, freeAtEntry>>

(* The place is no node, or is not allocated: mems_free returns 1.         *)
FreeRefuse(p) ==
  /\ Goto(p, "check", Back(p))
  /\ ~Freeable(cur[p])
  /\ owned' = [owned EXCEPT ![p] = @ \ {cur[p]}]
  /\ cur' = [cur EXCEPT ![p] = NULL]
  /\ iIndex' = NextIndex(p)
  /\ UNCHANGED <<shm, sem, iDebug, delTmp, freeAtEntry>>

FreeClear(p) ==
  /\ Goto(p, "clear", "read")
  /\ ucIsFree' = [ucIsFree EXCEPT ![cur[p]] = FREE]
  /\ stale' = stale \ {cur[p]}
  /\ owned' = [owned EXCEPT ![p] = @ \ {cur[p]}]
  /\ cur' = [cur EXCEPT ![p] = NULL]
  /\ UNCHANGED <<offsetFreeList, createCnt, delCnt, sem, iDebug, delTmp,
                 iIndex, freeAtEntry>>

(* delCnt++ outside the semaphore: a read and a write.                     *)
FreeRead(p) ==
  /\ Goto(p, "read", "write")
  /\ delTmp' = [delTmp EXCEPT ![p] = delCnt]
  /\ UNCHANGED <<shm, sem, cur, iDebug, iIndex, owned, freeAtEntry>>

FreeWrite(p) ==
  /\ Goto(p, "write", Back(p))
  /\ delCnt' = (delTmp[p] + 1) % CntMod
  /\ delTmp' = [delTmp EXCEPT ![p] = 0]
  /\ iIndex' = NextIndex(p)
  /\ UNCHANGED <<ucIsFree, stale, offsetFreeList, createCnt, sem, cur, iDebug,
                 owned, freeAtEntry>>

-----------------------------------------------------------------------------
(* mems_garbage_collector                                                  *)

(* Mutant: the collector's loop starts at the second node.                 *)
GcStart_Second(g) ==
  /\ Goto(g, "idle", "gc")
  /\ iIndex' = [iIndex EXCEPT ![g] = 2]
  /\ UNCHANGED <<shm, sem, cur, iDebug, delTmp, owned, freeAtEntry>>

GcStart(g) ==
  /\ Goto(g, "idle", "gc")
  /\ iIndex' = [iIndex EXCEPT ![g] = 1]
  /\ UNCHANGED <<shm, sem, cur, iDebug, delTmp, owned, freeAtEntry>>

(* Mutant: the collector does not look at TimeSec.                         *)
Expired_AnyAge(n) == ucIsFree[n] = ALLOCED

(* The node under the index is to be freed.                                *)
Expired(n) == ucIsFree[n] = ALLOCED /\ n \in stale

GcTake(g) ==
  /\ Goto(g, "gc", "check")
  /\ iIndex[g] <= TotCnt
  /\ Expired(iIndex[g])
  /\ cur' = [cur EXCEPT ![g] = iIndex[g]]
  /\ UNCHANGED <<shm, sem, iDebug, delTmp, iIndex, owned, freeAtEntry>>

GcSkip(g) ==
  /\ pc[g] = "gc"
  /\ iIndex[g] <= TotCnt
  /\ ~Expired(iIndex[g])
  /\ iIndex' = [iIndex EXCEPT ![g] = @ + 1]
  /\ UNCHANGED <<shm, sem, pc, cur, iDebug, delTmp, owned, freeAtEntry>>

GcEnd(g) ==
  /\ Goto(g, "gc", "idle")
  /\ iIndex[g] > TotCnt
  /\ iIndex' = [iIndex EXCEPT ![g] = 1]
  /\ UNCHANGED <<shm, sem, cur, iDebug, delTmp, owned, freeAtEntry>>

-----------------------------------------------------------------------------
(* The surroundings: time, and processes that die and start again.         *)

(* timegap seconds have passed since node n was stamped.  When owners are  *)
(* prompt this happens only to a node that no live process has.            *)
Age(n) ==
  /\ ucIsFree[n] = ALLOCED
  /\ n \notin stale
  /\ OwnersPrompt => \A p \in Client : ~Has(p, n)
  /\ stale' = stale \cup {n}
  /\ UNCHANGED <<ucIsFree, offsetFreeList, createCnt, delCnt, sem, local,
                 freeAtEntry>>

(* Mutant: P without SEM_UNDO, so that nothing is added when it dies.      *)
Crash_NoUndo(p) ==
  /\ pc[p] # "dead"
  /\ pc' = [pc EXCEPT ![p] = "dead"]
  /\ semadj' = [semadj EXCEPT ![p] = 0]
  /\ cur' = [cur EXCEPT ![p] = NULL]
  /\ iDebug' = [iDebug EXCEPT ![p] = 0]
  /\ delTmp' = [delTmp EXCEPT ![p] = 0]
  /\ iIndex' = [iIndex EXCEPT ![p] = 1]
  /\ owned' = [owned EXCEPT ![p] = {}]
  /\ freeAtEntry' = IF InCS(p) THEN {} ELSE freeAtEntry
  /\ UNCHANGED <<semval, shm>>

(* A kill, or one of the exit() calls; the kernel adds semadj to the       *)
(* semaphore.  The nodes it held stay ALLOCED.                             *)
Crash(p) ==
  /\ pc[p] # "dead"
  /\ pc' = [pc EXCEPT ![p] = "dead"]
  /\ semval' = semval + semadj[p]
  /\ semadj' = [semadj EXCEPT ![p] = 0]
  /\ cur' = [cur EXCEPT ![p] = NULL]
  /\ iDebug' = [iDebug EXCEPT ![p] = 0]
  /\ delTmp' = [delTmp EXCEPT ![p] = 0]
  /\ iIndex' = [iIndex EXCEPT ![p] = 1]
  /\ owned' = [owned EXCEPT ![p] = {}]
  /\ freeAtEntry' = IF InCS(p) THEN {} ELSE freeAtEntry
  /\ UNCHANGED shm

(* The place the scan has come to is not mapped.                           *)
ScanFault(p) ==
  /\ pc[p] = "look"
  /\ cur[p] \notin Place
  /\ Crash(p)

Restart(p) ==
  /\ Goto(p, "dead", "idle")
  /\ UNCHANGED <<shm, sem, cur, iDebug, delTmp, iIndex, owned, freeAtEntry>>

-----------------------------------------------------------------------------
AllocStep(p) ==
  \/ Advance(p) \/ Wrap(p) \/ ScanHit(p) \/ ScanMiss(p) \/ ScanFault(p)
  \/ Mark(p) \/ Count(p) \/ Unlock(p)

FreeStep(p) ==
  FreeCheck(p) \/ FreeRefuse(p) \/ FreeClear(p) \/ FreeRead(p) \/ FreeWrite(p)

GcStep(g) == GcTake(g) \/ GcSkip(g) \/ GcEnd(g)

Next ==
  \/ \E p \in Client : AllocCall(p) \/ AllocLock(p) \/ AllocStep(p)
  \/ \E p \in Client : \E n \in Place : FreeCall(p, n)
  \/ \E p \in Proc : FreeStep(p) \/ Crash(p) \/ Restart(p)
  \/ \E g \in Collector : GcStart(g) \/ GcStep(g)
  \/ \E n \in Node : Age(n)

Spec == Init /\ [][Next]_vars

(* A process that runs keeps running; the kernel wakes the sleepers of a   *)
(* semaphore in turn, so a waiter that is let in again and again gets in;  *)
(* the collector is started again and again; time passes.                  *)
Fairness ==
  /\ \A p \in Client : SF_vars(AllocLock(p)) /\ WF_vars(AllocStep(p))
  /\ \A p \in Proc : WF_vars(FreeStep(p))
  /\ \A g \in Collector : WF_vars(GcStart(g)) /\ WF_vars(GcStep(g)) /\ WF_vars(Restart(g))
  /\ \A n \in Node : WF_vars(Age(n))

FairSpec == Spec /\ Fairness
-----------------------------------------------------------------------------
(* Properties                                                              *)

Labels == {"idle", "lock", "scan", "wrap", "look", "mark", "count", "unlock",
           "check", "clear", "read", "write", "gc", "dead"}

(* Every variable keeps its type.                                          *)
TypeOK ==
  /\ semval \in 0 .. 1
  /\ semadj \in [Proc -> 0 .. 1]
  /\ ucIsFree \in [Place -> {FREE, ALLOCED}]
  /\ stale \in SUBSET Node
  /\ offsetFreeList \in 1 .. Last + 2
  /\ createCnt \in 0 .. CntMod - 1
  /\ delCnt \in 0 .. CntMod - 1
  /\ pc \in [Proc -> Labels]
  /\ cur \in [Proc -> 0 .. Last + 2]
  /\ iDebug \in [Proc -> 0 .. TotCnt + 1]
  /\ delTmp \in [Proc -> 0 .. CntMod - 1]
  /\ iIndex \in [Proc -> 1 .. TotCnt + 1]
  /\ owned \in [Proc -> SUBSET Place]
  /\ freeAtEntry \in SUBSET Node

(* The semaphore is never lost and never multiplied, whoever dies where:   *)
(* one process at most is between P and V, and the value is 1 exactly when *)
(* none is.                                                                *)
SemaphoreSafe ==
  /\ \A p, q \in Proc : InCS(p) /\ InCS(q) => p = q
  /\ semval = 1 <=> \A p \in Proc : ~InCS(p)

(* A node has one owner, and is ALLOCED as long as it has one, although    *)
(* mems_free and the collector change nodes outside the semaphore; so has  *)
(* what lies behind the nodes, should it ever be handed out.               *)
ExclusiveOwnership ==
  /\ \A p, q \in Proc : p # q => owned[p] \cap owned[q] = {}
  /\ \A p \in Proc : \A n \in owned[p] : ucIsFree[n] = ALLOCED

(* offsetFreeList is out of the pool, and no one is about to bring it back *)
(* to the first node.                                                      *)
Overrun == offsetFreeList > TotCnt /\ \A p \in Client : pc[p] # "wrap"

(* The scan leaves the pool in one way only: the process that has just     *)
(* moved offsetFreeList to offsetNodeEnd dies before it starts the pool    *)
(* over (mems.c:390-392).  No other death, no interleaving and no length   *)
(* of the pool does it.                                                    *)
LeavesByDeathOnly ==
  [][~Overrun /\ Overrun' => \E p \in Client : pc[p] = "wrap" /\ Crash(p)]_vars

(* As long as that has not happened, mems_alloc returns NULL only if every *)
(* node was taken when it got the semaphore: the scan misses none,         *)
(* wherever it starts and whatever is freed meanwhile.                     *)
NoSpuriousFailure ==
  \A p \in Client :
    ~Overrun /\ pc[p] = "unlock" /\ cur[p] = NULL => freeAtEntry = {}

(* The inductive invariant behind the properties above when owners are     *)
(* prompt and there is one collector.  Each part names what a step of one  *)
(* process leaves true for the others.                                     *)
SemInv ==
  /\ \A p \in Proc : semadj[p] = IF InCS(p) THEN 1 ELSE 0
  /\ \A p, q \in Proc : InCS(p) /\ InCS(q) => p = q
  /\ semval = 1 <=> \A p \in Proc : ~InCS(p)

(* Which labels go with which kind of process, and which with a node.      *)
PlaceInv ==
  /\ \A p \in Client : pc[p] # "gc"
  /\ \A g \in Collector : ~InCS(g) /\ pc[g] # "lock" /\ owned[g] = {}
  /\ \A p \in Proc :
        /\ pc[p] \in {"mark", "count", "check"} => cur[p] \in Place
        /\ pc[p] = "unlock" => cur[p] \in Place \cup {NULL}
        /\ pc[p] = "clear" => cur[p] \in Node
        /\ pc[p] \in {"idle", "lock", "scan", "read", "write", "gc", "dead"} =>
             cur[p] = NULL
  /\ \A p \in Client : pc[p] \in {"scan", "wrap", "look"} => iDebug[p] <= TotCnt
  /\ \A p \in Client :
        /\ pc[p] = "wrap" => cur[p] = TotCnt /\ offsetFreeList = TotCnt + 1
        /\ pc[p] \in {"look", "mark"} /\ cur[p] > TotCnt => offsetFreeList > TotCnt
  /\ \A g \in Collector :
        pc[g] \in {"check", "clear", "read", "write"} => iIndex[g] <= TotCnt

CoreInv == TypeOK /\ SemInv /\ PlaceInv

(* A node being granted is in nobody else's hands.                         *)
GrantInv ==
  \A p \in Client :
    /\ pc[p] = "mark" => ucIsFree[cur[p]] = FREE
    /\ pc[p] \in {"count", "unlock"} /\ cur[p] # NULL =>
         /\ ucIsFree[cur[p]] = ALLOCED
         /\ cur[p] \notin stale
         /\ \A q \in Proc : cur[p] \notin owned[q]

(* A node being freed is the client's own, or one past the time limit.     *)
FreeInv ==
  \A p \in Proc : pc[p] \in {"check", "clear"} =>
    IF p \in Client THEN cur[p] \in owned[p] ELSE cur[p] \in stale

(* Only allocated nodes that nobody owns are past the time limit.          *)
OwnerInv ==
  /\ ExclusiveOwnership
  /\ \A n \in stale : ucIsFree[n] = ALLOCED
  /\ \A p \in Proc : owned[p] \cap stale = {}

OwnershipInv == GrantInv /\ FreeInv /\ OwnerInv

IInv == CoreInv /\ OwnershipInv

(* The collector frees only nodes that are past the time limit at the very *)
(* moment it frees them (mems.c:615), not merely when it looked.           *)
GcFreesOnlyExpired ==
  [][\A g \in Collector : FreeClear(g) => cur[g] \in stale]_vars

(* Whoever waits for the semaphore gets it, or dies: also when a process   *)
(* that holds it dies.                                                     *)
WaiterServed == \A p \in Client : pc[p] = "lock" ~> pc[p] # "lock"

(* An allocated node no live client has: also while the collector looks    *)
(* at it, and until mems_free has stored MEMS_FREE.                        *)
Leaked(n) == ucIsFree[n] = ALLOCED /\ \A p \in Client : ~Has(p, n)

(* A node whose owner died is free or in use again at some time, if a      *)
(* collector stays alive.                                                  *)
LeakReclaimed ==
  (\E g \in Collector : <>[](pc[g] # "dead"))
     => \A n \in Node : Leaked(n) ~> ~Leaked(n)

(* Who has place n, as PoolSpec sees it.  It is granted when ucIsFree      *)
(* becomes ALLOCED, and given back when it becomes FREE.                   *)
Nobody == "nobody"
Lost == "lost"

GrantOf(n) ==
  IF ucIsFree[n] = FREE THEN Nobody
  ELSE IF \E p \in Client : Has(p, n) THEN CHOOSE p \in Client : Has(p, n)
  ELSE Lost

ASSUME GrantAssumption == Nobody \notin Client /\ Lost \notin Client

Pool == INSTANCE PoolSpec WITH
  grant <- [n \in Place |-> GrantOf(n)], overrun <- Overrun

(* The pool of mems.c keeps the promise of PoolSpec.                       *)
ImplementsPool == Pool!Spec
=============================================================================
