--------------------------- MODULE MemsPoolProofs ---------------------------
(* Theorems about MemsPool, for every set of clients and collectors, every *)
(* number of nodes and every width of the counters.                        *)
EXTENDS MemsPool, TLAPS

LEMMA InitCore == Init => CoreInv
  BY MemsAssumption DEF Init, CoreInv, TypeOK, SemInv, PlaceInv, InCS, Proc, Node, Place,
     Last, NULL, FREE, ALLOCED, Labels

LEMMA NextCore == CoreInv /\ [Next]_vars => CoreInv'
<1> SUFFICES ASSUME CoreInv, [Next]_vars PROVE CoreInv'
  OBVIOUS
<1> USE MemsAssumption DEF CoreInv, TypeOK, SemInv, PlaceInv, InCS, Goto, Proc,
    Node, Place, Last, NULL, FREE, ALLOCED, Labels, shm, sem, local
<1>1. ASSUME NEW p \in Client, AllocCall(p) PROVE CoreInv'
  BY <1>1 DEF AllocCall
<1>2. ASSUME NEW p \in Client, AllocLock(p) PROVE CoreInv'
  BY <1>2 DEF AllocLock
<1>a. ASSUME NEW p \in Client, Advance(p) PROVE CoreInv'
  BY <1>a DEF Advance, AtEnd
<1>b. ASSUME NEW p \in Client, Wrap(p) PROVE CoreInv'
  BY SMTT(30), <1>b DEF Wrap
<1>3. ASSUME NEW p \in Client, ScanHit(p) PROVE CoreInv'
  BY <1>3 DEF ScanHit
<1>4. ASSUME NEW p \in Client, ScanMiss(p) PROVE CoreInv'
  BY SMTT(30), <1>4 DEF ScanMiss, GiveUp
<1>5. ASSUME NEW p \in Client, Mark(p) PROVE CoreInv'
  BY <1>5 DEF Mark
<1>6. ASSUME NEW p \in Client, Count(p) PROVE CoreInv'
  BY <1>6 DEF Count
<1>7. ASSUME NEW p \in Client, Unlock(p) PROVE CoreInv'
  BY SMTT(30), <1>7 DEF Unlock
<1>8. ASSUME NEW p \in Client, NEW n \in Place, FreeCall(p, n) PROVE CoreInv'
  <2>1. cur' \in [Proc -> 0 .. Last + 2]
    BY <1>8 DEF FreeCall
  <2>2. pc' \in [Proc -> Labels]
    BY <1>8 DEF FreeCall
  <2>3. TypeOK'
    BY <1>8, <2>1, <2>2 DEF FreeCall
  <2>4. SemInv'
    BY <1>8 DEF FreeCall
  <2>5. PlaceInv'
    BY <1>8 DEF FreeCall
  <2>6. QED
    BY <2>3, <2>4, <2>5
<1>9. ASSUME NEW p \in Proc, FreeCheck(p) PROVE CoreInv'
  BY <1>9 DEF FreeCheck, Freeable
<1>10. ASSUME NEW p \in Proc, FreeRefuse(p) PROVE CoreInv'
  <2>1. /\ p \in Client => pc' = [pc EXCEPT ![p] = "idle"] /\ iIndex' = iIndex
        /\ p \in Collector => /\ pc' = [pc EXCEPT ![p] = "gc"]
                              /\ iIndex' = [iIndex EXCEPT ![p] = iIndex[p] + 1]
    BY <1>10 DEF FreeRefuse, Back, NextIndex
  <2>2. pc' \in [Proc -> Labels]
    BY <2>1
  <2>3. iIndex' \in [Proc -> 1 .. TotCnt + 1]
    <3>1. CASE p \in Client
      BY <2>1, <3>1
    <3>2. CASE p \in Collector
      <4>1. iIndex[p] + 1 \in 1 .. TotCnt + 1
        BY <1>10, <3>2 DEF FreeRefuse
      <4>2. QED
        BY <2>1, <3>2, <4>1
    <3>3. QED
      BY <3>1, <3>2
  <2>4. TypeOK'
    BY SMTT(30), <1>10, <2>2, <2>3 DEF FreeRefuse
  <2>5. SemInv'
    BY <1>10, <2>1 DEF FreeRefuse
  <2>6. PlaceInv'
    BY SMTT(30), <1>10, <2>1 DEF FreeRefuse
  <2>7. QED
    BY <2>4, <2>5, <2>6
<1>11. ASSUME NEW p \in Proc, FreeClear(p) PROVE CoreInv'
  <2>1. cur' \in [Proc -> 0 .. Last + 2] /\ owned' \in [Proc -> SUBSET Place]
    BY <1>11 DEF FreeClear
  <2>2. pc' \in [Proc -> Labels] /\ ucIsFree' \in [Place -> {FREE, ALLOCED}]
    BY <1>11 DEF FreeClear
  <2>3. TypeOK'
    BY <1>11, <2>1, <2>2 DEF FreeClear
  <2>4. SemInv'
    BY <1>11 DEF FreeClear
  <2>5. PlaceInv'
    BY <1>11 DEF FreeClear
  <2>6. QED
    BY <2>3, <2>4, <2>5
<1>12. ASSUME NEW p \in Proc, FreeRead(p) PROVE CoreInv'
  BY <1>12 DEF FreeRead
<1>13. ASSUME NEW p \in Proc, FreeWrite(p) PROVE CoreInv'
  <2>1. /\ p \in Client => pc' = [pc EXCEPT ![p] = "idle"] /\ iIndex' = iIndex
        /\ p \in Collector => /\ pc' = [pc EXCEPT ![p] = "gc"]
                              /\ iIndex' = [iIndex EXCEPT ![p] = iIndex[p] + 1]
    BY <1>13 DEF FreeWrite, Back, NextIndex
  <2>2. pc' \in [Proc -> Labels]
    BY <2>1
  <2>3. iIndex' \in [Proc -> 1 .. TotCnt + 1]
    <3>1. CASE p \in Client
      BY <2>1, <3>1
    <3>2. CASE p \in Collector
      <4>1. iIndex[p] + 1 \in 1 .. TotCnt + 1
        BY <1>13, <3>2 DEF FreeWrite
      <4>2. QED
        BY <2>1, <3>2, <4>1
    <3>3. QED
      BY <3>1, <3>2
  <2>9. /\ delCnt' \in 0 .. CntMod - 1 /\ delTmp' \in [Proc -> 0 .. CntMod - 1]
        /\ UNCHANGED <<ucIsFree, stale, offsetFreeList, createCnt, sem, cur, iDebug, owned, freeAtEntry>>
    BY <1>13 DEF FreeWrite
  <2>4. TypeOK'
    BY <2>2, <2>3, <2>9
  <2>5. SemInv'
    BY SMTT(30), <1>13, <2>1 DEF FreeWrite
  <2>6. PlaceInv'
    BY SMTT(30), <1>13, <2>1 DEF FreeWrite
  <2>7. QED
    BY <2>4, <2>5, <2>6
<1>14. ASSUME NEW g \in Collector, GcStart(g) PROVE CoreInv'
  BY SMTT(30), <1>14 DEF GcStart
<1>15. ASSUME NEW g \in Collector, GcTake(g) PROVE CoreInv'
  BY SMTT(30), <1>15 DEF GcTake, Expired
<1>16. ASSUME NEW g \in Collector, GcSkip(g) PROVE CoreInv'
  BY SMTT(30), <1>16 DEF GcSkip
<1>17. ASSUME NEW g \in Collector, GcEnd(g) PROVE CoreInv'
  <2>1. TypeOK'
    BY <1>17 DEF GcEnd
  <2>2. SemInv'
    BY <1>17 DEF GcEnd
  <2>3. PlaceInv'
    BY <1>17 DEF GcEnd
  <2>4. QED
    BY <2>1, <2>2, <2>3
<1>18. ASSUME NEW n \in Node, Age(n) PROVE CoreInv'
  BY <1>18 DEF Age
<1>19. ASSUME NEW p \in Proc, Crash(p) PROVE CoreInv'
  BY SMTT(30), <1>19 DEF Crash
<1>20. ASSUME NEW p \in Proc, Restart(p) PROVE CoreInv'
  BY <1>20 DEF Restart
<1>21. CASE UNCHANGED vars
  BY <1>21 DEF vars
<1>22. QED
  BY <1>a, <1>b, <1>1, <1>2, <1>3, <1>4, <1>5, <1>6, <1>7, <1>8, <1>9, <1>10, <1>11, <1>12,
     <1>13, <1>14, <1>15, <1>16, <1>17, <1>18, <1>19, <1>20, <1>21
     DEF Next, AllocStep, ScanFault, FreeStep, GcStep, Proc

(* Every variable keeps its type, whatever the interleaving and the        *)
(* crashes: the scan may leave the pool (mems.c:390-392), but what is held *)
(* lies in the segment's pages, and counters and indexes stay in range.    *)
THEOREM TypeCorrect == Spec => []TypeOK
<1>1. Init => CoreInv
  BY InitCore
<1>2. CoreInv /\ [Next]_vars => CoreInv'
  BY NextCore
<1>3. CoreInv => TypeOK
  BY DEF CoreInv
<1>4. QED
  BY <1>1, <1>2, <1>3, PTL DEF Spec

(* mems_alloc's P and V let one process at a time between them, and a      *)
(* process that dies there gives the semaphore back exactly once.          *)
THEOREM SemaphoreCorrect == Spec => []SemaphoreSafe
<1>1. Init => CoreInv
  BY InitCore
<1>2. CoreInv /\ [Next]_vars => CoreInv'
  BY NextCore
<1>3. CoreInv => SemaphoreSafe
  BY DEF CoreInv, SemInv, SemaphoreSafe
<1>4. QED
  BY <1>1, <1>2, <1>3, PTL DEF Spec

-----------------------------------------------------------------------------
(* The scan and the pool.                                                  *)

(* A step that goes out of the pool is a death at the wrap, and none comes *)
(* back into it.                                                           *)
LEMMA OverrunSteps ==
  ASSUME CoreInv, [Next]_vars
  PROVE  /\ Overrun => Overrun'
         /\ ~Overrun /\ Overrun' => \E p \in Client : pc[p] = "wrap" /\ Crash(p)
<1> DEFINE Goal == /\ Overrun => Overrun'
                   /\ ~Overrun /\ Overrun' => \E p \in Client : pc[p] = "wrap" /\ Crash(p)
<1>1. ASSUME UNCHANGED offsetFreeList, \A p \in Client : pc[p]' = "wrap" <=> pc[p] = "wrap"
      PROVE  Goal
  BY <1>1 DEF Overrun
<1> USE MemsAssumption DEF CoreInv, TypeOK, SemInv, PlaceInv, InCS, Goto, Proc, shm, Last
<1>2. ASSUME NEW p \in Client, Advance(p) PROVE Goal
  BY <1>2 DEF Advance, AtEnd, Overrun
<1>3. ASSUME NEW p \in Client, Wrap(p) PROVE Goal
  BY <1>3 DEF Wrap, Overrun
<1>4. ASSUME NEW p \in Proc, Crash(p) PROVE Goal
  <2>1. CASE pc[p] = "wrap"
    BY <1>4, <2>1 DEF Crash, Overrun
  <2>2. CASE pc[p] # "wrap"
    BY <1>1, <1>4, <2>2 DEF Crash
  <2>3. QED
    BY <2>1, <2>2
<1>5. ASSUME NEW p \in Client, AllocCall(p) \/ AllocLock(p) \/ ScanHit(p) \/ ScanMiss(p)
             \/ Mark(p) \/ Count(p) \/ Unlock(p)
      PROVE  UNCHANGED offsetFreeList /\ \A q \in Client : pc[q]' = "wrap" <=> pc[q] = "wrap"
  BY <1>5 DEF AllocCall, AllocLock, ScanHit, ScanMiss, Mark, Count, Unlock
<1>6. ASSUME NEW p \in Client, NEW n \in Place, FreeCall(p, n)
      PROVE  UNCHANGED offsetFreeList /\ \A q \in Client : pc[q]' = "wrap" <=> pc[q] = "wrap"
  BY <1>6 DEF FreeCall
<1>7. ASSUME NEW p \in Proc, FreeStep(p) \/ Restart(p)
      PROVE  UNCHANGED offsetFreeList /\ \A q \in Client : pc[q]' = "wrap" <=> pc[q] = "wrap"
  BY <1>7 DEF FreeStep, FreeCheck, FreeRefuse, FreeClear, FreeRead, FreeWrite, Restart, Back
<1>8. ASSUME NEW g \in Collector, GcStart(g) \/ GcStep(g)
      PROVE  UNCHANGED offsetFreeList /\ \A q \in Client : pc[q]' = "wrap" <=> pc[q] = "wrap"
  BY <1>8 DEF GcStep, GcStart, GcTake, GcSkip, GcEnd
<1>9. ASSUME NEW n \in Node, Age(n)
      PROVE  UNCHANGED offsetFreeList /\ \A q \in Client : pc[q]' = "wrap" <=> pc[q] = "wrap"
  BY <1>9 DEF Age, local
<1>10. ASSUME UNCHANGED vars
       PROVE  UNCHANGED offsetFreeList /\ \A q \in Client : pc[q]' = "wrap" <=> pc[q] = "wrap"
  BY <1>10 DEF vars, local
<1> HIDE DEF Goal
<1>11. Goal
  BY <1>1, <1>2, <1>3, <1>4, <1>5, <1>6, <1>7, <1>8, <1>9, <1>10
     DEF Next, AllocStep, ScanFault
<1>12. QED
  BY <1>11 DEF Goal

(* Whatever dies, and whatever runs outside the semaphore: the scan leaves *)
(* the pool only with a process that dies between the two stores of        *)
(* mems.c:390-392.                                                         *)
THEOREM PoolKept == Spec => LeavesByDeathOnly
<1>1. Init => CoreInv
  BY InitCore
<1>2. CoreInv /\ [Next]_vars => CoreInv'
  BY NextCore
<1>3. CoreInv /\ [Next]_vars =>
        [~Overrun /\ Overrun' => \E p \in Client : pc[p] = "wrap" /\ Crash(p)]_vars
  BY OverrunSteps
<1>4. QED
  BY <1>1, <1>2, <1>3, PTL DEF Spec, LeavesByDeathOnly

(* Node n is among the d nodes before place q, going round at the start.   *)
Behind(n, q, d) == IF n < q THEN q - n <= d ELSE q + TotCnt - n <= d

(* The place of the turn that process p is in, or about to begin.          *)
Turn(p) == IF pc[p] = "scan" THEN offsetFreeList ELSE cur[p]

(* What was free when the semaphore was taken is still free, and ahead.    *)
ScanAhead ==
  \A p \in Client :
    /\ pc[p] \in {"wrap", "look"} => cur[p] \in Node
    /\ pc[p] = "look" => offsetFreeList = IF cur[p] = TotCnt THEN 1 ELSE cur[p] + 1
    /\ pc[p] \in {"scan", "wrap", "look"} =>
         \A n \in freeAtEntry : ucIsFree[n] = FREE /\ ~Behind(n, Turn(p), iDebug[p])

ScanInv == (~Overrun => ScanAhead) /\ NoSpuriousFailure

LEMMA InitScan == Init => ScanInv
  BY DEF Init, ScanInv, ScanAhead, NoSpuriousFailure, Proc

LEMMA NextScan ==
  ASSUME CoreInv, ScanInv, [Next]_vars
  PROVE  ScanInv'
<1> SUFFICES ASSUME ~Overrun' PROVE ScanInv'
  BY DEF ScanInv, NoSpuriousFailure
<1>0. ~Overrun /\ ScanAhead
  BY OverrunSteps DEF ScanInv
<1>c. ASSUME NEW p \in Client, InCS(p), pc[p] # "wrap" PROVE offsetFreeList \in Node
  <2>1. \A q \in Client : pc[q] # "wrap"
    BY <1>c DEF CoreInv, SemInv, InCS, Proc
  <2>2. offsetFreeList <= TotCnt /\ offsetFreeList \in 1 .. Last + 2
    BY <1>0, <2>1, MemsAssumption DEF Overrun, CoreInv, TypeOK, Last
  <2>3. QED
    BY <2>2, MemsAssumption DEF Node, Last
<1> USE <1>0, MemsAssumption DEF CoreInv, TypeOK, SemInv, PlaceInv, InCS, Goto, Proc,
    NULL, FREE, ALLOCED, ScanInv, ScanAhead, NoSpuriousFailure, Behind, Turn, shm, sem, local
<1>1. ASSUME NEW p \in Client, AllocCall(p) PROVE ScanInv'
  BY <1>1 DEF AllocCall
<1>2. ASSUME NEW p \in Client, AllocLock(p) PROVE ScanInv'
  <2>1. offsetFreeList \in Node
    BY <1>2 DEF AllocLock, Overrun, Node
  <2>2. QED
    BY <1>2, <2>1 DEF AllocLock, Node, Place
<1>a. ASSUME NEW p \in Client, Advance(p) PROVE ScanInv'
  <2>1. offsetFreeList \in Node
    BY <1>a, <1>c DEF Advance
  <2>2. QED
    BY <1>a, <2>1 DEF Advance, AtEnd, Node, Last
<1>b. ASSUME NEW p \in Client, Wrap(p) PROVE ScanInv'
  BY <1>b DEF Wrap, Node
<1>3. ASSUME NEW p \in Client, ScanHit(p) PROVE ScanInv'
  BY <1>3 DEF ScanHit, Node, Place
<1>4. ASSUME NEW p \in Client, ScanMiss(p) PROVE ScanInv'
  <2>1. cur[p] \in Node /\ iDebug[p] \in 0 .. TotCnt /\ cur[p] \notin freeAtEntry
    BY <1>4 DEF ScanMiss
  <2>2. offsetFreeList = IF cur[p] = TotCnt THEN 1 ELSE cur[p] + 1
    BY <1>4 DEF ScanMiss
  <2>3. ASSUME NEW n \in freeAtEntry PROVE n \in Node /\ ~Behind(n, offsetFreeList, iDebug[p] + 1)
    <3>1. n \in Node /\ n # cur[p] /\ ~Behind(n, cur[p], iDebug[p])
      BY <1>4, <2>1 DEF ScanMiss
    <3>2. QED
      BY <2>1, <2>2, <3>1 DEF Node
  <2>4. iDebug[p] + 1 > TotCnt => freeAtEntry = {}
    BY <2>1, <2>2, <2>3 DEF Node
  <2>5. \A q \in Client : q # p => pc[q] \notin {"scan", "wrap", "look", "unlock"}
    BY <1>4 DEF ScanMiss
  <2>6. NoSpuriousFailure'
    BY <1>4, <2>4, <2>5 DEF ScanMiss, GiveUp
  <2>7. ScanAhead'
    BY <1>4, <2>3, <2>5 DEF ScanMiss, GiveUp
  <2>8. QED
    BY <2>6, <2>7
<1>5. ASSUME NEW p \in Client, Mark(p) PROVE ScanInv'
  BY <1>5 DEF Mark
<1>6. ASSUME NEW p \in Client, Count(p) PROVE ScanInv'
  BY <1>6 DEF Count, Place
<1>7. ASSUME NEW p \in Client, Unlock(p) PROVE ScanInv'
  BY <1>7 DEF Unlock
<1>8. ASSUME NEW p \in Client, NEW n \in Place, FreeCall(p, n) PROVE ScanInv'
  BY <1>8 DEF FreeCall
<1>9. ASSUME NEW p \in Proc, FreeCheck(p) PROVE ScanInv'
  BY <1>9 DEF FreeCheck
<1>10. ASSUME NEW p \in Proc, FreeRefuse(p) PROVE ScanInv'
  BY <1>10 DEF FreeRefuse, Back, NextIndex
<1>11. ASSUME NEW p \in Proc, FreeClear(p) PROVE ScanInv'
  BY <1>11 DEF FreeClear
<1>12. ASSUME NEW p \in Proc, FreeRead(p) PROVE ScanInv'
  BY <1>12 DEF FreeRead
<1>13. ASSUME NEW p \in Proc, FreeWrite(p) PROVE ScanInv'
  BY <1>13 DEF FreeWrite, Back, NextIndex
<1>14. ASSUME NEW g \in Collector, GcStart(g) PROVE ScanInv'
  BY <1>14 DEF GcStart
<1>15. ASSUME NEW g \in Collector, GcTake(g) PROVE ScanInv'
  BY <1>15 DEF GcTake
<1>16. ASSUME NEW g \in Collector, GcSkip(g) PROVE ScanInv'
  BY <1>16 DEF GcSkip
<1>17. ASSUME NEW g \in Collector, GcEnd(g) PROVE ScanInv'
  BY <1>17 DEF GcEnd
<1>18. ASSUME NEW n \in Node, Age(n) PROVE ScanInv'
  BY <1>18 DEF Age
<1>19. ASSUME NEW p \in Proc, Crash(p) PROVE ScanInv'
  BY <1>19 DEF Crash
<1>20. ASSUME NEW p \in Proc, Restart(p) PROVE ScanInv'
  BY <1>20 DEF Restart
<1>21. CASE UNCHANGED vars
  BY <1>21 DEF vars
<1>22. QED
  BY <1>a, <1>b, <1>1, <1>2, <1>3, <1>4, <1>5, <1>6, <1>7, <1>8, <1>9, <1>10, <1>11, <1>12,
     <1>13, <1>14, <1>15, <1>16, <1>17, <1>18, <1>19, <1>20, <1>21
     DEF Next, AllocStep, ScanFault, FreeStep, GcStep, Proc

(* mems_alloc fails only when every node was taken, wherever its scan      *)
(* starts, and whatever is freed, collected or dies meanwhile, as long as  *)
(* no death has let the scan out of the pool.                              *)
THEOREM FailureIsReal == Spec => []NoSpuriousFailure
<1>1. Init => CoreInv /\ ScanInv
  BY InitCore, InitScan
<1>2. CoreInv /\ ScanInv /\ [Next]_vars => CoreInv' /\ ScanInv'
  BY NextCore, NextScan
<1>3. ScanInv => NoSpuriousFailure
  BY DEF ScanInv
<1>4. QED
  BY <1>1, <1>2, <1>3, PTL DEF Spec

-----------------------------------------------------------------------------
(* The rest holds when no live process keeps a node longer than timegap    *)
(* and one process at most collects.                                       *)
Disciplined == OwnersPrompt /\ \A g, h \in Collector : g = h

LEMMA InitOwnership == Init => OwnershipInv
  BY DEF Init, OwnershipInv, GrantInv, FreeInv, OwnerInv, ExclusiveOwnership, Proc

LEMMA NextOwnership ==
  ASSUME Disciplined, CoreInv, OwnershipInv, [Next]_vars
  PROVE  OwnershipInv'
<1> USE MemsAssumption DEF CoreInv, TypeOK, SemInv, PlaceInv, InCS, Goto, Proc,
    NULL, FREE, ALLOCED, OwnershipInv, GrantInv, FreeInv, OwnerInv,
    ExclusiveOwnership, shm, sem, local
<1>1. ASSUME NEW p \in Client, AllocCall(p) PROVE OwnershipInv'
  BY <1>1 DEF AllocCall
<1>2. ASSUME NEW p \in Client, AllocLock(p) PROVE OwnershipInv'
  BY <1>2 DEF AllocLock
<1>a. ASSUME NEW p \in Client, Advance(p) PROVE OwnershipInv'
  BY <1>a DEF Advance
<1>b. ASSUME NEW p \in Client, Wrap(p) PROVE OwnershipInv'
  BY <1>b DEF Wrap
<1>3. ASSUME NEW p \in Client, ScanHit(p) PROVE OwnershipInv'
  BY <1>3 DEF ScanHit
<1>4. ASSUME NEW p \in Client, ScanMiss(p) PROVE OwnershipInv'
  BY <1>4 DEF ScanMiss, GiveUp
<1>5. ASSUME NEW p \in Client, Mark(p) PROVE OwnershipInv'
  BY <1>5 DEF Mark
<1>6. ASSUME NEW p \in Client, Count(p) PROVE OwnershipInv'
  BY <1>6 DEF Count
<1>7. ASSUME NEW p \in Client, Unlock(p) PROVE OwnershipInv'
  BY <1>7 DEF Unlock
<1>8. ASSUME NEW p \in Client, NEW n \in Place, FreeCall(p, n) PROVE OwnershipInv'
  BY <1>8 DEF FreeCall
<1>9. ASSUME NEW p \in Proc, FreeCheck(p) PROVE OwnershipInv'
  BY <1>9 DEF FreeCheck
<1>10. ASSUME NEW p \in Proc, FreeRefuse(p) PROVE OwnershipInv'
  BY <1>10 DEF FreeRefuse, Back, NextIndex
<1>11. ASSUME NEW p \in Proc, FreeClear(p) PROVE OwnershipInv'
  BY <1>11 DEF FreeClear, Disciplined
<1>12. ASSUME NEW p \in Proc, FreeRead(p) PROVE OwnershipInv'
  BY <1>12 DEF FreeRead
<1>13. ASSUME NEW p \in Proc, FreeWrite(p) PROVE OwnershipInv'
  BY <1>13 DEF FreeWrite, Back, NextIndex
<1>14. ASSUME NEW g \in Collector, GcStart(g) PROVE OwnershipInv'
  BY <1>14 DEF GcStart
<1>15. ASSUME NEW g \in Collector, GcTake(g) PROVE OwnershipInv'
  BY <1>15 DEF GcTake, Expired
<1>16. ASSUME NEW g \in Collector, GcSkip(g) PROVE OwnershipInv'
  BY <1>16 DEF GcSkip
<1>17. ASSUME NEW g \in Collector, GcEnd(g) PROVE OwnershipInv'
  BY <1>17 DEF GcEnd
<1>18. ASSUME NEW n \in Node, Age(n) PROVE OwnershipInv'
  BY <1>18 DEF Age, Has, Disciplined
<1>19. ASSUME NEW p \in Proc, Crash(p) PROVE OwnershipInv'
  BY <1>19 DEF Crash
<1>20. ASSUME NEW p \in Proc, Restart(p) PROVE OwnershipInv'
  BY <1>20 DEF Restart
<1>21. CASE UNCHANGED vars
  BY <1>21 DEF vars
<1>22. QED
  BY <1>a, <1>b, <1>1, <1>2, <1>3, <1>4, <1>5, <1>6, <1>7, <1>8, <1>9, <1>10, <1>11, <1>12,
     <1>13, <1>14, <1>15, <1>16, <1>17, <1>18, <1>19, <1>20, <1>21
     DEF Next, AllocStep, ScanFault, FreeStep, GcStep, Proc

(* The inductive invariant always holds.                                   *)
THEOREM InvariantHolds == ASSUME Disciplined PROVE Spec => []IInv
<1>1. Init => IInv
  BY InitCore, InitOwnership DEF IInv
<1>2. IInv /\ [Next]_vars => IInv'
  BY NextCore, NextOwnership DEF IInv
<1>3. QED
  BY <1>1, <1>2, PTL DEF Spec

(* No two processes own the same node and no owned node is ever free,      *)
(* although mems_free and the collector run outside the semaphore.         *)
THEOREM OwnershipCorrect == ASSUME Disciplined PROVE Spec => []ExclusiveOwnership
<1>1. IInv => ExclusiveOwnership
  BY DEF IInv, OwnershipInv, OwnerInv
<1>2. QED
  BY <1>1, InvariantHolds, PTL

(* mems_garbage_collector frees only nodes past the time limit.            *)
THEOREM CollectorCorrect == ASSUME Disciplined PROVE Spec => GcFreesOnlyExpired
<1>1. IInv /\ [Next]_vars => [\A g \in Collector : FreeClear(g) => cur[g] \in stale]_vars
  BY MemsAssumption DEF IInv, OwnershipInv, FreeInv, FreeClear, Goto, Proc
<1>2. QED
  BY <1>1, InvariantHolds, PTL DEF Spec, GcFreesOnlyExpired

-----------------------------------------------------------------------------
(* Refinement of PoolSpec.                                                 *)

(* No two clients have the same node, so GrantOf is well defined.          *)
LEMMA HasUnique ==
  ASSUME IInv, NEW n \in Place, NEW p \in Client, NEW q \in Client, Has(p, n), Has(q, n)
  PROVE  p = q
<1> USE DEF IInv, CoreInv, TypeOK, SemInv, PlaceInv, OwnershipInv, GrantInv, OwnerInv,
    ExclusiveOwnership, InCS, Has, Proc, Place, Last, NULL
<1>1. CASE n \in owned[p] /\ n \in owned[q]
  BY <1>1
<1>2. CASE n \notin owned[p]
  BY <1>2
<1>3. CASE n \notin owned[q]
  BY <1>3
<1>4. QED
  BY <1>1, <1>2, <1>3

(* The three values of GrantOf, free of its CHOOSE.                        *)
GrantFacts ==
  \A n \in Place :
    /\ ucIsFree[n] = FREE => GrantOf(n) = Nobody
    /\ ucIsFree[n] # FREE => \A p \in Client : Has(p, n) => GrantOf(n) = p
    /\ ucIsFree[n] # FREE /\ (\A p \in Client : ~Has(p, n)) => GrantOf(n) = Lost

LEMMA GrantFactsHold == IInv => GrantFacts
<1> SUFFICES ASSUME IInv, NEW n \in Place
             PROVE  /\ ucIsFree[n] = FREE => GrantOf(n) = Nobody
                    /\ ucIsFree[n] # FREE => \A p \in Client : Has(p, n) => GrantOf(n) = p
                    /\ ucIsFree[n] # FREE /\ (\A p \in Client : ~Has(p, n)) => GrantOf(n) = Lost
  BY DEF GrantFacts
<1>1. ASSUME ucIsFree[n] # FREE, NEW p \in Client, Has(p, n) PROVE GrantOf(n) = p
  <2>1. GrantOf(n) \in Client /\ Has(GrantOf(n), n)
    BY <1>1 DEF GrantOf
  <2>2. QED
    BY <1>1, <2>1, HasUnique
<1>2. QED
  BY <1>1 DEF GrantOf

LEMMA GrantFactsNext == IInv' => GrantFacts'
  BY GrantFactsHold, PTL

(* A step that moves no node from one hand to another is a stutter.        *)
LEMMA HandsUnmoved ==
  ASSUME GrantFacts, GrantFacts', UNCHANGED ucIsFree,
         \A p \in Client, n \in Place : Has(p, n)' <=> Has(p, n)
  PROVE  \A n \in Place : GrantOf(n)' = GrantOf(n)
<1> SUFFICES ASSUME NEW n \in Place PROVE GrantOf(n)' = GrantOf(n)
  OBVIOUS
<1>1. CASE ucIsFree[n] = FREE
  BY <1>1 DEF GrantFacts
<1>2. CASE ucIsFree[n] # FREE /\ \E p \in Client : Has(p, n)
  BY <1>2 DEF GrantFacts
<1>3. CASE ucIsFree[n] # FREE /\ \A p \in Client : ~Has(p, n)
  BY <1>3 DEF GrantFacts
<1>4. QED
  BY <1>1, <1>2, <1>3

(* A step that moves one node from one hand to another.                    *)
LEMMA HandMoved ==
  ASSUME GrantFacts, GrantFacts', NEW m \in Place, NEW v,
         GrantOf(m)' = v,
         \A n \in Place \ {m} : ucIsFree[n]' = ucIsFree[n],
         \A p \in Client, n \in Place \ {m} : Has(p, n)' <=> Has(p, n)
  PROVE  [n \in Place |-> GrantOf(n)]' = [[n \in Place |-> GrantOf(n)] EXCEPT ![m] = v]
<1>1. ASSUME NEW n \in Place \ {m} PROVE GrantOf(n)' = GrantOf(n)
  <2>1. CASE ucIsFree[n] = FREE
    BY <2>1 DEF GrantFacts
  <2>2. CASE ucIsFree[n] # FREE /\ \E p \in Client : Has(p, n)
    BY <2>2 DEF GrantFacts
  <2>3. CASE ucIsFree[n] # FREE /\ \A p \in Client : ~Has(p, n)
    BY <2>3 DEF GrantFacts
  <2>4. QED
    BY <2>1, <2>2, <2>3
<1>2. QED
  BY <1>1

(* Every step of MemsPool is a step of PoolSpec or changes no grant.       *)
LEMMA NextImplementsPool ==
  ASSUME IInv, IInv', [Next]_vars
  PROVE  [Pool!Next]_<<[n \in Place |-> GrantOf(n)], Overrun>>
<1>1. GrantFacts /\ GrantFacts'
  BY GrantFactsHold, GrantFactsNext
<1> DEFINE Same == \A n \in Place : GrantOf(n)' = GrantOf(n)
<1>0. (\A p \in Client : ~Crash(p)) => Overrun' = Overrun
  BY OverrunSteps DEF IInv, Overrun
<1>2. Same /\ Overrun' = Overrun => [Pool!Next]_<<[n \in Place |-> GrantOf(n)], Overrun>>
  OBVIOUS
<1> HIDE DEF Same
<1> USE MemsAssumption DEF IInv, CoreInv, TypeOK, SemInv, PlaceInv, OwnershipInv, GrantInv,
    FreeInv, OwnerInv, ExclusiveOwnership, InCS, Goto, Has, Proc, NULL, FREE, ALLOCED,
    shm, sem, local
<1>3. ASSUME NEW p \in Client, AllocCall(p) PROVE Same
  BY <1>1, <1>3, HandsUnmoved DEF AllocCall, Same
<1>4. ASSUME NEW p \in Client, AllocLock(p) PROVE Same
  BY <1>1, <1>4, HandsUnmoved DEF AllocLock, Same
<1>a. ASSUME NEW p \in Client, Advance(p) PROVE Same
  BY <1>1, <1>a, HandsUnmoved DEF Advance, Same
<1>b. ASSUME NEW p \in Client, Wrap(p) PROVE Same
  BY <1>1, <1>b, HandsUnmoved DEF Wrap, Same
<1>5. ASSUME NEW p \in Client, ScanHit(p) PROVE Same
  BY <1>1, <1>5, HandsUnmoved DEF ScanHit, Same
<1>6. ASSUME NEW p \in Client, ScanMiss(p) PROVE Same
  BY SMTT(30), <1>1, <1>6, HandsUnmoved DEF ScanMiss, Place, Last, Same
<1>7. ASSUME NEW p \in Client, Mark(p), Overrun' = Overrun PROVE Pool!Grant(p, cur[p])
  <2>1. PICK m \in Place : m = cur[p]
    BY <1>7 DEF Mark
  <2>2. GrantOf(m) = Nobody
    BY <1>1, <1>7, <2>1 DEF GrantFacts, Mark
  <2>3. Has(p, m)' /\ ucIsFree[m]' # FREE
    BY <1>7, <2>1 DEF Mark
  <2>4. GrantOf(m)' = p
    BY <1>1, <2>3 DEF GrantFacts
  <2>5. \A n \in Place \ {m} : ucIsFree[n]' = ucIsFree[n]
    BY <1>7, <2>1 DEF Mark
  <2>6. \A q \in Client, n \in Place \ {m} : Has(q, n)' <=> Has(q, n)
    BY <1>7, <2>1 DEF Mark
  <2>7. [n \in Place |-> GrantOf(n)]' = [[n \in Place |-> GrantOf(n)] EXCEPT ![m] = p]
    BY <1>1, <2>4, <2>5, <2>6, HandMoved
  <2>8. m \in Node \/ Overrun
    BY <1>7, <2>1 DEF Mark, Overrun, Node, Place, Last
  <2>9. QED
    BY <1>7, <2>1, <2>2, <2>7, <2>8 DEF Pool!Grant
<1>8. ASSUME NEW p \in Client, Count(p) PROVE Same
  BY <1>1, <1>8, HandsUnmoved DEF Count, Same
<1>9. ASSUME NEW p \in Client, Unlock(p) PROVE Same
  BY <1>1, <1>9, HandsUnmoved DEF Unlock, Place, Last, Same
<1>10. ASSUME NEW p \in Client, NEW n \in Place, FreeCall(p, n) PROVE Same
  BY <1>1, <1>10, HandsUnmoved DEF FreeCall, Same
<1>11. ASSUME NEW p \in Proc, FreeCheck(p) PROVE Same
  BY <1>1, <1>11, HandsUnmoved DEF FreeCheck, Same
<1>12. ASSUME NEW p \in Collector, FreeRefuse(p) PROVE Same
  BY <1>1, <1>12, HandsUnmoved DEF FreeRefuse, Back, Same
<1>f. ASSUME NEW p \in Client, FreeRefuse(p), Overrun' = Overrun PROVE Pool!GiveBack(p, cur[p])
  <2>1. PICK m \in Place : m = cur[p]
    BY <1>f DEF FreeRefuse
  <2>2. m \in owned[p] /\ ucIsFree[m] = ALLOCED /\ m \notin Node
    BY <1>f, <2>1 DEF FreeRefuse, Freeable
  <2>3. GrantOf(m) = p
    BY <1>1, <2>2 DEF GrantFacts
  <2>4. UNCHANGED ucIsFree /\ owned' = [owned EXCEPT ![p] = @ \ {m}]
    BY <1>f, <2>1 DEF FreeRefuse
  <2>5. pc'[p] = "idle" /\ \A q \in Client : q # p => pc'[q] = pc[q] /\ cur'[q] = cur[q]
    BY <1>f DEF FreeRefuse, Back
  <2>6. GrantOf(m)' = Lost
    <3>1. \A q \in Client : Has(q, m) => q = p
      BY <2>2, HasUnique
    <3>2. \A q \in Client : ~Has(q, m)'
      BY <2>4, <2>5, <3>1
    <3>3. QED
      BY <1>1, <2>2, <2>4, <3>2 DEF GrantFacts
  <2>7. \A r \in Client, n \in Place \ {m} : Has(r, n)' <=> Has(r, n)
    BY <1>f, <2>1, <2>4, <2>5 DEF FreeRefuse
  <2>8. [n \in Place |-> GrantOf(n)]' = [[n \in Place |-> GrantOf(n)] EXCEPT ![m] = Lost]
    BY <1>1, <2>4, <2>6, <2>7, HandMoved
  <2>9. QED
    BY <1>f, <2>1, <2>2, <2>3, <2>8 DEF Pool!GiveBack
<1>13. ASSUME NEW p \in Client, FreeClear(p), Overrun' = Overrun PROVE Pool!GiveBack(p, cur[p])
  <2>1. PICK m \in Place : m = cur[p]
    BY <1>13 DEF FreeClear
  <2>2. GrantOf(m) = p
    BY <1>1, <1>13, <2>1 DEF GrantFacts, FreeClear
  <2>3. GrantOf(m)' = Nobody
    BY <1>1, <1>13, <2>1 DEF GrantFacts, FreeClear
  <2>4. \A n \in Place \ {m} : ucIsFree[n]' = ucIsFree[n]
    BY <1>13, <2>1 DEF FreeClear
  <2>5. \A r \in Client, n \in Place \ {m} : Has(r, n)' <=> Has(r, n)
    BY <1>13, <2>1 DEF FreeClear
  <2>6. [n \in Place |-> GrantOf(n)]' = [[n \in Place |-> GrantOf(n)] EXCEPT ![m] = Nobody]
    BY <1>1, <2>3, <2>4, <2>5, HandMoved
  <2>7. m \in Node
    BY <1>13, <2>1 DEF FreeClear
  <2>8. QED
    BY <1>13, <2>1, <2>2, <2>6, <2>7 DEF Pool!GiveBack
<1>14. ASSUME NEW g \in Collector, FreeClear(g), Overrun' = Overrun PROVE Pool!Collect(cur[g])
  <2>1. PICK m \in Place : m = cur[g]
    BY <1>14 DEF FreeClear
  <2>2. GrantOf(m) = Lost
    <3>1. m \in stale
      BY <1>14, <2>1 DEF FreeClear
    <3>2. ucIsFree[m] # FREE
      BY <3>1
    <3>3. ASSUME NEW r \in Client PROVE ~Has(r, m)
      <4>1. m \notin owned[r]
        BY <3>1
      <4>2. m = cur[r] => pc[r] \notin {"count", "unlock"}
        BY SMTT(30), <3>1 DEF Node, Place, Last
      <4>3. QED
        BY <4>1, <4>2
    <3>4. QED
      BY <1>1, <3>2, <3>3 DEF GrantFacts
  <2>3. GrantOf(m)' = Nobody
    BY <1>1, <1>14, <2>1 DEF GrantFacts, FreeClear
  <2>4. \A n \in Place \ {m} : ucIsFree[n]' = ucIsFree[n]
    BY <1>14, <2>1 DEF FreeClear
  <2>5. \A r \in Client, n \in Place \ {m} : Has(r, n)' <=> Has(r, n)
    BY <1>14, <2>1 DEF FreeClear
  <2>6. [n \in Place |-> GrantOf(n)]' = [[n \in Place |-> GrantOf(n)] EXCEPT ![m] = Nobody]
    BY <1>1, <2>3, <2>4, <2>5, HandMoved
  <2>7. m \in Node
    BY <1>14, <2>1 DEF FreeClear
  <2>8. QED
    BY <1>14, <2>1, <2>2, <2>6, <2>7 DEF Pool!Collect
<1>15. ASSUME NEW p \in Proc, FreeRead(p) PROVE Same
  BY <1>1, <1>15, HandsUnmoved DEF FreeRead, Same
<1>16. ASSUME NEW p \in Proc, FreeWrite(p) PROVE Same
  BY <1>1, <1>16, HandsUnmoved DEF FreeWrite, Back, Same
<1>17. ASSUME NEW g \in Collector, GcStart(g) PROVE Same
  BY <1>1, <1>17, HandsUnmoved DEF GcStart, Same
<1>18. ASSUME NEW g \in Collector, GcStep(g) PROVE Same
  BY <1>1, <1>18, HandsUnmoved DEF GcStep, GcTake, GcSkip, GcEnd, Same
<1>19. ASSUME NEW n \in Node, Age(n) PROVE Same
  BY <1>1, <1>19, HandsUnmoved DEF Age, Same
<1>20. ASSUME NEW p \in Client, Crash(p) PROVE Pool!Die(p)
  <2>1. ASSUME NEW n \in Place
        PROVE  GrantOf(n)' = IF GrantOf(n) = p THEN Lost ELSE GrantOf(n)
    <3>1. ~Has(p, n)' /\ UNCHANGED ucIsFree
      BY <1>20 DEF Crash, Place, Last
    <3>2. \A q \in Client : q # p => (Has(q, n)' <=> Has(q, n))
      BY <1>20 DEF Crash
    <3>3. CASE ucIsFree[n] = FREE
      BY <1>1, <3>1, <3>3, GrantAssumption DEF GrantFacts
    <3>4. CASE ucIsFree[n] # FREE /\ Has(p, n)
      <4>1. \A q \in Client : Has(q, n) => q = p
        BY <3>4, HasUnique
      <4>2. QED
        BY <1>1, <3>1, <3>2, <3>4, <4>1 DEF GrantFacts
    <3>5. CASE ucIsFree[n] # FREE /\ ~Has(p, n) /\ \E q \in Client : Has(q, n)
      BY <1>1, <3>1, <3>2, <3>5 DEF GrantFacts
    <3>6. CASE ucIsFree[n] # FREE /\ \A q \in Client : ~Has(q, n)
      BY <1>1, <3>1, <3>2, <3>6, GrantAssumption DEF GrantFacts
    <3>7. QED
      BY <3>3, <3>4, <3>5, <3>6
  <2>2. Overrun' \in {Overrun, TRUE}
    BY OverrunSteps DEF Overrun
  <2>3. [n \in Place |-> GrantOf(n)]' =
          [n \in Place |-> IF [x \in Place |-> GrantOf(x)][n] = p THEN Lost
                                     ELSE [x \in Place |-> GrantOf(x)][n]]
    BY <2>1
  <2>4. QED
    BY Zenon, <2>2, <2>3 DEF Pool!Die
<1>21. ASSUME NEW g \in Collector, Crash(g) PROVE Same
  BY <1>1, <1>21, HandsUnmoved DEF Crash, Same
<1>22. ASSUME NEW p \in Proc, Restart(p) PROVE Same
  BY <1>1, <1>22, HandsUnmoved DEF Restart, Same
<1>24. \A p \in Client : Mark(p) \/ FreeRefuse(p) => cur[p] \in Place
  BY DEF Mark, FreeRefuse
<1>25. \A p \in Proc : FreeClear(p) => cur[p] \in Node /\ cur[p] \in Place
  BY DEF FreeClear, Node, Place, Last
<1> HIDE DEF IInv, CoreInv, TypeOK, SemInv, PlaceInv, OwnershipInv, GrantInv, FreeInv, OwnerInv,
    ExclusiveOwnership, InCS, Goto, Has, Proc, NULL, FREE, ALLOCED, shm, sem, local
<1>23. ASSUME UNCHANGED vars PROVE Same
  <2>1. ucIsFree' = ucIsFree /\ owned' = owned /\ cur' = cur /\ pc' = pc
    BY <1>23 DEF vars, shm, local
  <2>2. \A p \in Client, n \in Place : Has(p, n)' <=> Has(p, n)
    BY <2>1 DEF Has
  <2>3. QED
    BY <1>1, <2>1, <2>2, HandsUnmoved DEF Same
<1>26. CASE \E p \in Client : Crash(p)
  BY <1>20, <1>26 DEF Pool!Next
<1>27. CASE \A p \in Client : ~Crash(p)
  <2>1. Overrun' = Overrun
    BY <1>0, <1>27
  <2>2. \/ Same
        \/ \E p \in Client : Pool!Grant(p, cur[p]) /\ Mark(p)
        \/ \E p \in Client : Pool!GiveBack(p, cur[p]) /\ (FreeRefuse(p) \/ FreeClear(p))
        \/ \E g \in Collector : Pool!Collect(cur[g]) /\ FreeClear(g)
    <3>1. ASSUME NEW p \in Client, AllocCall(p) \/ AllocLock(p) \/ AllocStep(p)
          PROVE  Same \/ (Pool!Grant(p, cur[p]) /\ Mark(p))
      BY <1>a, <1>b, <1>3, <1>4, <1>5, <1>6, <1>7, <1>8, <1>9, <1>27, <2>1, <3>1
         DEF AllocStep, ScanFault
    <3>2. ASSUME NEW p \in Client, FreeStep(p)
          PROVE  Same \/ (Pool!GiveBack(p, cur[p]) /\ (FreeRefuse(p) \/ FreeClear(p)))
      BY <1>f, <1>11, <1>13, <1>15, <1>16, <2>1, <3>2 DEF FreeStep, Proc
    <3>3. ASSUME NEW g \in Collector, FreeStep(g)
          PROVE  Same \/ (Pool!Collect(cur[g]) /\ FreeClear(g))
      BY <1>11, <1>12, <1>14, <1>15, <1>16, <2>1, <3>3 DEF FreeStep, Proc
    <3>4. QED
      BY <1>10, <1>17, <1>18, <1>19, <1>21, <1>22, <1>23, <1>27, <3>1, <3>2, <3>3
         DEF Next, Proc
  <2>3. QED
    BY <1>2, <1>24, <1>25, <2>1, <2>2 DEF Pool!Next, Proc
<1>28. QED
  BY <1>26, <1>27

(* The pool of mems.c keeps the promise of PoolSpec.                       *)
THEOREM PoolImplemented == ASSUME Disciplined PROVE Spec => ImplementsPool
<1>1. Init => Pool!Init
  BY MemsAssumption DEF Init, Pool!Init, GrantOf, Overrun, Proc
<1>2. IInv /\ IInv' /\ [Next]_vars => [Pool!Next]_<<[n \in Place |-> GrantOf(n)], Overrun>>
  BY NextImplementsPool
<1>3. QED
  BY <1>1, <1>2, InvariantHolds, PTL DEF Spec, ImplementsPool, Pool!Spec
=============================================================================
