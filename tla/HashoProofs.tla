----------------------------- MODULE HashoProofs -----------------------------
(* Theorems about Hasho, for every set of keys, hash function, number of   *)
(* nodes and number of deaths, when no death tears a link or an unlink.    *)
EXTENDS Hasho, FiniteSetTheorems, TLAPS

LEMMA SomeKeyIsKey == SomeKey \in Key
  BY HashoAssumption DEF SomeKey

(* What a step that stores into no chain leaves as it was.                 *)
LEMMA LinksStay ==
  ASSUME IInv, UNCHANGED links,
         pc \notin {"linked", "unlinked"}, pc' \notin {"linked", "unlinked"}
  PROVE  /\ ChainsSound' /\ Linked' = Linked /\ Table' = Table
         /\ \A b : In(b)' = In(b)
         /\ \A n : From(n)' = From(n)
<1>1. Linked' = Linked
  BY DEF Linked, links
<1>2. Table' = Table /\ \A b : In(b)' = In(b)
  BY <1>1 DEF Table, In, links
<1>3. \A n : From(n)' = From(n)
  BY DEF From, links
<1>4. NextSound'
  BY <1>1, <1>2, <1>3 DEF IInv, ChainsSound, NextSound, links
<1>5. PrevSound'
  BY <1>1 DEF IInv, ChainsSound, PrevSound, PrevPending, links
<1>6. QED
  BY <1>1, <1>2, <1>3, <1>4, <1>5 DEF ChainsSound

LEMMA InitIInv == Init => IInv
<1> SUFFICES ASSUME Init PROVE IInv
  OBVIOUS
<1> USE HashoAssumption, SomeKeyIsKey
<1>1. Linked = {}
  BY DEF Init, Linked
<1>2. TypeOK
  BY DEF Init, TypeOK, Place, Last, Labels
<1>3. ChainsSound
  BY <1>1 DEF Init, ChainsSound, NextSound, PrevSound, In, From
<1>4. WalkInv /\ ScanInv /\ KeysDiffer /\ PlaceInv
  BY <1>1 DEF Init, WalkInv, ScanInv, Scanning, KeysDiffer, PlaceInv, Holding
<1>5. CountInv
  BY <1>1, FS_EmptySet DEF Init, CountInv, Holding, Counted
<1>6. QED
  BY <1>2, <1>3, <1>4, <1>5 DEF IInv

LEMMA CallIInv ==
  ASSUME IInv, NEW o \in {"find", "add", "del"}, NEW x \in Key, Call(o, x)
  PROVE  IInv'
<1> USE HashoAssumption
<1>1. /\ ChainsSound' /\ Linked' = Linked /\ Table' = Table
      /\ \A b : In(b)' = In(b)
      /\ \A n : From(n)' = From(n)
  BY LinksStay DEF Call
<1>2. TypeOK'
  BY DEF Call, IInv, TypeOK, Labels, Place, Last, memg, links
<1>3. WalkInv'
  <2> DEFINE h == pNodeHead[hasho_func[x]]
  <2>1. hasho_func[x] \in Bucket
    OBVIOUS
  <2>2. In(hasho_func[x]) = From(h) /\ h \in Linked \cup {0}
    BY <2>1 DEF IInv, ChainsSound, NextSound
  <2>3. h # 0 => h \in In(hasho_func[x])
    BY <2>2 DEF Linked, From
  <2>4. \A n \in Linked : key[n] = x => n \in From(h)
    BY <2>2 DEF In
  <2>5. pKey' = x /\ p' = h /\ key' = key
    BY DEF Call, links
  <2>6. QED
    BY <1>1, <2>3, <2>4, <2>5 DEF WalkInv
<1>4. ScanInv' /\ PlaceInv'
  BY DEF Call, IInv, ScanInv, Scanning, Overrun, PlaceInv, Holding, memg
<1>5. KeysDiffer'
  BY <1>1 DEF IInv, KeysDiffer, Scanning, Call, links
<1>6. CountInv'
  BY <1>1 DEF IInv, CountInv, Overrun, Call, Holding, Counted, memg
<1>7. QED
  BY <1>1, <1>2, <1>3, <1>4, <1>5, <1>6 DEF IInv
LEMMA WalkIInv ==
  ASSUME IInv, Walk
  PROVE  IInv'
<1> USE HashoAssumption
<1>1. /\ ChainsSound' /\ Linked' = Linked /\ Table' = Table
      /\ \A b : In(b)' = In(b)
      /\ \A n : From(n)' = From(n)
  BY LinksStay DEF Walk, Goto
<1>2. /\ p \in In(hasho_func[pKey]) /\ p \in Linked
      /\ hasho_func[key[p]] = hasho_func[pKey]
  BY DEF IInv, WalkInv, Walk, In
<1>3. p' = next[p] /\ pKey' = pKey /\ key' = key
  BY DEF Walk, Goto, call, links
<1>4. TypeOK'
  BY <1>2, <1>3 DEF Walk, Goto, IInv, TypeOK, Labels, Place, Last, memg, links, call, Linked
<1>5. WalkInv'
  <2>1. next[p] # 0 => next[p] \in In(hasho_func[pKey])
    BY <1>2 DEF IInv, ChainsSound, NextSound, From, Linked
  <2>2. \A n \in Linked : key[n] = pKey => n \in From(next[p])
    BY <1>2 DEF IInv, ChainsSound, NextSound, WalkInv, Walk, From
  <2>3. QED
    BY <1>1, <1>3, <2>1, <2>2 DEF WalkInv
<1>6. ScanInv' /\ PlaceInv'
  BY DEF Walk, Goto, IInv, ScanInv, Scanning, Overrun, PlaceInv, Holding, memg
<1>7. KeysDiffer'
  BY <1>1, <1>3 DEF IInv, KeysDiffer, Scanning, Walk, Goto
<1>8. CountInv'
  BY <1>1 DEF IInv, CountInv, Overrun, Walk, Goto, Holding, Counted, memg
<1>9. QED
  BY <1>1, <1>4, <1>5, <1>6, <1>7, <1>8 DEF IInv

LEMMA FoundIInv ==
  ASSUME IInv, Found
  PROVE  IInv'
<1> USE HashoAssumption
<1>1. pc = "find" /\ pc' \in {"idle", "unlink"}
  BY DEF Found, Return, Leave, Goto, IInv, TypeOK
<1>2. /\ ChainsSound' /\ Linked' = Linked /\ Table' = Table
      /\ \A b : In(b)' = In(b)
      /\ \A n : From(n)' = From(n)
  BY <1>1, LinksStay DEF Found
<1>3. p \in Linked
  BY DEF IInv, WalkInv, Found, In
<1>4. TypeOK'
  BY <1>3, SomeKeyIsKey
     DEF Found, Return, Leave, Goto, IInv, TypeOK, Labels, Place, Last, memg, links,
         call, Linked
<1>5. WalkInv' /\ ScanInv'
  BY <1>1 DEF WalkInv, IInv, ScanInv, Scanning, Overrun, Found, Return, Leave, Goto, memg
<1>6. KeysDiffer'
  BY <1>1, <1>2 DEF IInv, KeysDiffer, Scanning, Found, links
<1>7. PlaceInv'
  <2>1. pc' = "unlink" => kind' = "del" /\ p' = p /\ pKey' = pKey /\ key' = key
    BY DEF Found, Return, Leave, Goto, IInv, TypeOK, call, links
  <2>2. QED
    BY <1>1, <1>2, <1>3, <2>1 DEF PlaceInv, Found, Holding
<1>8. CountInv'
  BY <1>1, <1>2 DEF IInv, CountInv, Overrun, Found, Holding, Counted, memg
<1>9. QED
  BY <1>2, <1>4, <1>5, <1>6, <1>7, <1>8 DEF IInv

LEMMA MissedIInv ==
  ASSUME IInv, Missed
  PROVE  IInv'
<1> USE HashoAssumption
<1>1. pc = "find" /\ pc' \in {"idle", "alloc"}
  BY DEF Missed, Return, Leave, Goto, IInv, TypeOK
<1>2. /\ ChainsSound' /\ Linked' = Linked /\ Table' = Table
      /\ \A b : In(b)' = In(b)
      /\ \A n : From(n)' = From(n)
  BY <1>1, LinksStay DEF Missed
<1>3. pKey \notin Table
  BY DEF IInv, WalkInv, Missed, From, Table
<1>4. TypeOK'
  BY SomeKeyIsKey
     DEF Missed, Return, Leave, Goto, IInv, TypeOK, Labels, Place, Last, memg, links, call
<1>5. WalkInv' /\ PlaceInv'
  BY <1>1 DEF WalkInv, PlaceInv, Holding
<1>6. pc' = "alloc" => kind' = "add" /\ pKey' = pKey /\ iDebug' = iDebug
  BY DEF Missed, Return, Leave, Goto, IInv, TypeOK, call
<1>7. KeysDiffer'
  BY <1>1, <1>2, <1>3, <1>6 DEF IInv, KeysDiffer, Scanning, Missed, links
<1>8. ScanInv'
  <2>1. CASE pc' = "idle"
    <3>1. iDebug' = 0 /\ (Overrun' <=> Overrun) /\ alloced' = alloced
      BY <1>1, <2>1 DEF Missed, Return, Leave, Goto, Overrun, memg
    <3>2. QED
      BY <1>1, <2>1, <3>1 DEF IInv, ScanInv, Scanning
  <2>2. CASE pc' = "alloc"
    <3>1. ~Overrun' => Met' = {}
      BY <1>1, <1>6, <2>2 DEF IInv, ScanInv, TypeOK, Node, Met, Turn, Overrun, Missed, memg
    <3>2. QED
      BY <1>1, <1>6, <2>2, <3>1 DEF IInv, ScanInv, Scanning, Overrun, Missed, memg
  <2>3. QED
    BY <1>1, <2>1, <2>2
<1>9. CountInv'
  BY <1>1, <1>2 DEF IInv, CountInv, Overrun, Missed, Holding, Counted, memg
<1>10. QED
  BY <1>2, <1>4, <1>5, <1>7, <1>8, <1>9 DEF IInv
LEMMA Finite ==
  ASSUME TypeOK
  PROVE  /\ IsFiniteSet(Place) /\ Cardinality(Place) = Last
         /\ IsFiniteSet(alloced) /\ Cardinality(alloced) \in 0 .. Last
         /\ IsFiniteSet(Linked) /\ Cardinality(Linked) \in 0 .. Last
<1>0. Last \in Nat
  BY HashoAssumption DEF Last
<1>1. IsFiniteSet(Place) /\ Cardinality(Place) = Last
  BY <1>0, FS_Interval DEF Place
<1>2. alloced \in SUBSET Place /\ Linked \in SUBSET Place
  BY DEF TypeOK, Linked
<1>3. /\ IsFiniteSet(alloced) /\ Cardinality(alloced) <= Last
      /\ IsFiniteSet(Linked) /\ Cardinality(Linked) <= Last
  BY <1>1, <1>2, FS_Subset
<1>4. Cardinality(alloced) \in Nat /\ Cardinality(Linked) \in Nat
  BY <1>3, FS_CardinalityType
<1>5. QED
  BY <1>0, <1>1, <1>3, <1>4

(* A call that ends, its last store being of the pool or of nothing.       *)
LEMMA LeaveIInv ==
  ASSUME IInv, Leave, UNCHANGED links, pc \notin {"linked", "unlinked"},
         alloced' \in SUBSET Place, offsetFreeList' \in 1 .. Last + 2,
         uiMemNodeAllocedCnt' \in 0 .. TotCnt, alloced' \subseteq Node \/ Overrun',
         ret' \in Place \cup {0}, deaths' \in 0 .. MaxDeaths,
         CountInv'
  PROVE  IInv'
<1> USE HashoAssumption
<1>1. pc' = "idle" /\ iDebug' = 0
  BY DEF Leave
<1>2. /\ ChainsSound' /\ Linked' = Linked /\ Table' = Table
  BY <1>1, LinksStay
<1>3. TypeOK'
  BY SomeKeyIsKey DEF Leave, IInv, TypeOK, Labels, Place, Last, links
<1>4. WalkInv' /\ ScanInv' /\ PlaceInv'
  BY <1>1 DEF WalkInv, ScanInv, Scanning, PlaceInv, Holding
<1>5. KeysDiffer'
  BY <1>1, <1>2 DEF IInv, KeysDiffer, Scanning, links
<1>6. QED
  BY <1>2, <1>3, <1>4, <1>5 DEF IInv

LEMMA AllFullIInv ==
  ASSUME IInv, AllFull
  PROVE  IInv'
<1> USE HashoAssumption
<1>1. Linked' = Linked
  BY DEF AllFull, Linked, links
<1>2. CountInv'
  BY <1>1 DEF IInv, CountInv, Overrun, AllFull, Return, Leave, Holding, Counted, memg
<1>3. alloced' \subseteq Node \/ Overrun'
  BY DEF AllFull, Return, Leave, IInv, ScanInv, Overrun, memg
<1>4. QED
  BY <1>2, <1>3, LeaveIInv DEF AllFull, Return, memg, IInv, TypeOK

(* From one place to the next, and from offsetNodeEnd to the first.        *)
LEMMA AdvanceIInv ==
  ASSUME IInv, Advance
  PROVE  IInv' /\ (Overrun' <=> Overrun)
<1> USE HashoAssumption
<1> DEFINE f == offsetFreeList
<1>1. /\ pc = "alloc" /\ p' = f /\ f \in 1 .. Last + 2 /\ uiMemNodeAllocedCnt < TotCnt
      /\ pc' = (IF f' = TotCnt + 1 THEN "wrap" ELSE "look")
      /\ UNCHANGED <<alloced, uiMemNodeAllocedCnt, links, call, iDebug, ret, deaths>>
  BY DEF Advance, AtEnd, Goto, IInv, TypeOK
<1>2. f' = (IF f > Last + 1 THEN f ELSE f + 1) /\ f' \in 1 .. Last + 2
  BY <1>1 DEF Advance, Last
<1>3. ~Overrun => /\ f \in Node /\ f' = f + 1
                  /\ pc' = IF f = TotCnt THEN "wrap" ELSE "look"
  BY <1>1, <1>2 DEF Overrun, Node, Last
<1>4. Overrun => f' > TotCnt + 1 /\ pc' = "look"
  BY <1>1, <1>2 DEF Overrun, Last
<1>5. Overrun' <=> Overrun
  <2>1. CASE Overrun
    BY <1>1, <1>2, <1>4, <2>1 DEF Overrun, Last
  <2>2. CASE ~Overrun
    <3>1. pc' = "wrap" \/ f' <= TotCnt
      BY <1>3, <2>2 DEF Node
    <3>2. QED
      BY <1>2, <2>2, <3>1 DEF Overrun
  <2>3. QED
    BY <2>1, <2>2
<1>6. ChainsSound' /\ Linked' = Linked /\ Table' = Table
  BY <1>1, LinksStay
<1>7. TypeOK'
  BY <1>1, <1>2 DEF IInv, TypeOK, Labels, links, call
<1>8. WalkInv' /\ PlaceInv'
  BY <1>1 DEF WalkInv, PlaceInv, Holding
<1>9. ScanInv'
  <2>1. Met' = Met
    BY <1>1 DEF Met, Turn
  <2>2. pc' = "wrap" => f = TotCnt /\ f' = TotCnt + 1
    BY <1>1, <1>3, <1>4 DEF Overrun
  <2>3. f = TotCnt => pc' = "wrap"
    BY <1>1, <1>2 DEF Last
  <2>4. QED
    BY <1>1, <1>3, <1>5, <2>1, <2>2, <2>3 DEF IInv, ScanInv, Scanning
<1>10. KeysDiffer'
  BY <1>1, <1>6 DEF IInv, KeysDiffer, Scanning, links, call
<1>11. CountInv'
  BY <1>1, <1>5, <1>6 DEF IInv, CountInv, Holding, Counted
<1>12. QED
  BY <1>5, <1>6, <1>7, <1>8, <1>9, <1>10, <1>11 DEF IInv

LEMMA WrapIInv ==
  ASSUME IInv, Wrap
  PROVE  IInv' /\ (Overrun' <=> Overrun)
<1> USE HashoAssumption
<1>1. /\ pc = "wrap" /\ pc' = "look" /\ p' = p /\ p = TotCnt /\ offsetFreeList' = 1
      /\ uiMemNodeAllocedCnt < TotCnt
      /\ UNCHANGED <<alloced, uiMemNodeAllocedCnt, links, call, iDebug, ret, deaths>>
  BY DEF Wrap, Goto, IInv, ScanInv
<1>2. ~Overrun /\ ~Overrun'
  BY <1>1 DEF Overrun
<1>3. ChainsSound' /\ Linked' = Linked /\ Table' = Table
  BY <1>1, LinksStay
<1>4. TypeOK'
  BY <1>1 DEF IInv, TypeOK, Labels, Last, links, call
<1>5. WalkInv' /\ PlaceInv'
  BY <1>1 DEF WalkInv, PlaceInv, Holding
<1>6. ScanInv'
  <2>1. Met' = Met
    BY <1>1 DEF Met, Turn
  <2>2. QED
    BY <1>1, <1>2, <2>1 DEF IInv, ScanInv, Scanning, Node
<1>7. KeysDiffer'
  BY <1>1, <1>3 DEF IInv, KeysDiffer, Scanning, links, call
<1>8. CountInv'
  BY <1>1, <1>2, <1>3 DEF IInv, CountInv, Holding, Counted
<1>9. QED
  BY <1>2, <1>3, <1>4, <1>5, <1>6, <1>7, <1>8 DEF IInv

LEMMA TakeIInv ==
  ASSUME IInv, Take
  PROVE  IInv'
<1> USE HashoAssumption
<1>1. /\ pc = "look" /\ pc' = "count" /\ p' = p /\ p \in Place \ alloced
      /\ alloced' = alloced \cup {p} /\ offsetFreeList' = offsetFreeList
      /\ uiMemNodeAllocedCnt' = uiMemNodeAllocedCnt
      /\ UNCHANGED <<links, call, iDebug, ret, deaths>>
  BY DEF Take, Goto
<1>2. /\ ChainsSound' /\ Linked' = Linked /\ Table' = Table
  BY <1>1, LinksStay
<1>3. Overrun' <=> Overrun
  BY <1>1 DEF Overrun
<1>4. TypeOK'
  BY <1>1 DEF IInv, TypeOK, Labels, links, call
<1>5. WalkInv' /\ ScanInv'
  BY <1>1, <1>3 DEF WalkInv, ScanInv, Scanning, IInv
<1>6. KeysDiffer'
  BY <1>1, <1>2 DEF IInv, KeysDiffer, Scanning, links, call
<1>7. PlaceInv'
  BY <1>1, <1>2 DEF IInv, PlaceInv, CountInv, Holding
<1>8. CountInv'
  <2>1. Cardinality(alloced') = Cardinality(alloced) + 1
    BY <1>1, Finite, FS_AddElement DEF IInv
  <2>2. QED
    BY <1>1, <1>2, <1>3, <2>1, Finite DEF IInv, TypeOK, CountInv, Holding, Counted
<1>9. QED
  BY <1>2, <1>4, <1>5, <1>6, <1>7, <1>8 DEF IInv

(* After TotCnt nodes have been met, there is no other.                    *)
LEMMA ScanFull ==
  ASSUME IInv, pc = "look", ~Overrun, GiveUp(iDebug + 1)
  PROVE  Node \subseteq alloced
<1> USE HashoAssumption
<1>1. iDebug = TotCnt /\ p \in 1 .. TotCnt
  BY DEF GiveUp, IInv, TypeOK, ScanInv, Node
<1>2. Met = Node
  BY <1>1 DEF Met, Turn, Node
<1>3. QED
  BY <1>2 DEF IInv, ScanInv, Scanning

LEMMA SkipIInv ==
  ASSUME IInv, Skip
  PROVE  IInv'
<1> USE HashoAssumption
<1>1. /\ pc = "look" /\ p \in Place /\ p \in alloced
      /\ UNCHANGED <<memg, links, deaths>>
      /\ uiMemNodeAllocedCnt < TotCnt
  BY DEF Skip, IInv, TypeOK, ScanInv
<1>2. pc' \in {"idle", "alloc"}
  BY DEF Skip, Return, Leave
<1>3. Linked' = Linked /\ (Overrun' <=> Overrun)
  BY <1>1, <1>2 DEF Linked, Overrun, links, memg
<1>4. CountInv'
  BY <1>1, <1>2, <1>3 DEF IInv, CountInv, Holding, Counted, memg
<1>5. CASE GiveUp(iDebug + 1)
  <2>1. Leave /\ ret' = 0
    BY <1>5 DEF Skip, Return
  <2>2. alloced' \subseteq Node \/ Overrun'
    BY <1>1, <1>3 DEF IInv, ScanInv, memg
  <2>3. QED
    BY <1>1, <1>4, <2>1, <2>2, LeaveIInv DEF IInv, TypeOK, memg
<1>6. CASE ~GiveUp(iDebug + 1)
  <2>1. iDebug' = iDebug + 1 /\ pc' = "alloc" /\ p' = 0 /\ UNCHANGED <<call, ret>>
        /\ iDebug + 1 <= TotCnt
    BY <1>6 DEF Skip, GiveUp, IInv, TypeOK
  <2>2. /\ ChainsSound' /\ Linked' = Linked /\ Table' = Table
    BY <1>1, <2>1, LinksStay
  <2>3. TypeOK'
    BY <1>1, <2>1 DEF IInv, TypeOK, Labels, Last, memg, links, call
  <2>4. ScanInv'
    <3>1. ASSUME ~Overrun PROVE Met' \subseteq Met \cup {p}
      BY <1>1, <2>1, <3>1 DEF Met, Turn, IInv, TypeOK, ScanInv, Node, memg
    <3>2. QED
      BY <1>1, <1>3, <2>1, <3>1 DEF IInv, ScanInv, Scanning, memg
  <2>5. WalkInv' /\ PlaceInv'
    BY <2>1 DEF WalkInv, PlaceInv, Holding
  <2>6. KeysDiffer'
    BY <1>1, <2>1, <2>2 DEF IInv, KeysDiffer, Scanning, links, call
  <2>7. QED
    BY <1>4, <2>2, <2>3, <2>4, <2>5, <2>6 DEF IInv
<1>7. QED
  BY <1>5, <1>6

LEMMA FaultIInv ==
  ASSUME IInv, Fault
  PROVE  IInv' /\ Overrun
<1> USE HashoAssumption
<1>1. /\ pc = "look" /\ pc' = "idle" /\ Leave /\ ret' = 0 /\ p \notin Place
      /\ UNCHANGED <<memg, links, deaths>>
  BY DEF Fault, Return, Leave
<1>2. Overrun /\ Overrun'
  BY <1>1 DEF IInv, ScanInv, Node, Place, Last, Overrun, memg
<1>3. Linked' = Linked
  BY <1>1 DEF Linked, links
<1>4. CountInv'
  BY <1>1, <1>2, <1>3 DEF IInv, CountInv, Counted, memg
<1>5. QED
  BY <1>1, <1>2, <1>4, LeaveIInv DEF IInv, TypeOK, memg

LEMMA CountIInv ==
  ASSUME IInv, Count
  PROVE  IInv'
<1> USE HashoAssumption
<1>1. /\ pc = "count" /\ pc' = "link" /\ UNCHANGED <<chain, pNodeHead, alloced, p, call, deaths>>
      /\ p \in Place /\ p \in alloced \ Linked
      /\ uiMemNodeAllocedCnt' = uiMemNodeAllocedCnt + 1
      /\ offsetFreeList' = offsetFreeList /\ (Overrun' <=> Overrun)
  BY DEF Overrun, Count, Goto, IInv, PlaceInv, Holding, TypeOK
<1>2. /\ \A n \in Linked : next'[n] = next[n] /\ prev'[n] = prev[n] /\ key'[n] = key[n]
      /\ next'[p] = 0 /\ prev'[p] = 0 /\ key'[p] = pKey
  BY <1>1 DEF Count, IInv, TypeOK, Linked
<1>3. /\ Linked' = Linked /\ Table' = Table
      /\ \A b : In(b)' = In(b)
      /\ \A n : From(n)' = From(n)
  <2>1. Linked' = Linked
    BY <1>1 DEF Linked
  <2>2. QED
    BY <1>1, <1>2, <2>1 DEF Table, In, From
<1>4. TypeOK'
  <2>1. uiMemNodeAllocedCnt' \in 0 .. TotCnt
    BY <1>1 DEF IInv, TypeOK, ScanInv
  <2>2. QED
    BY <1>1, <2>1 DEF Count, Goto, IInv, TypeOK, Labels, call
<1>5. NextSound'
  BY <1>1, <1>2, <1>3 DEF IInv, ChainsSound, NextSound, Linked
<1>6. PrevSound'
  BY <1>1, <1>2, <1>3 DEF IInv, ChainsSound, NextSound, PrevSound, PrevPending
<1>7. WalkInv' /\ ScanInv'
  BY <1>1 DEF WalkInv, ScanInv, Scanning, IInv
<1>8. KeysDiffer'
  BY <1>1, <1>2, <1>3 DEF IInv, KeysDiffer, Scanning, call
<1>9. PlaceInv'
  BY <1>1, <1>2, <1>3 DEF IInv, PlaceInv, call
<1>10. CountInv'
  BY <1>1, <1>3, Finite DEF IInv, TypeOK, CountInv, Holding, Counted
<1>11. QED
  BY <1>3, <1>4, <1>5, <1>6, <1>7, <1>8, <1>9, <1>10 DEF IInv, ChainsSound

(* The first node of a chain has a prev of NULL.                           *)
LEMMA HeadHasNoPrev ==
  ASSUME IInv, NEW b \in Bucket, pNodeHead[b] # 0, ~PrevPending(pNodeHead[b])
  PROVE  prev[pNodeHead[b]] = 0
<1> DEFINE h == pNodeHead[b]
           m == prev[h]
<1>1. h \in Linked /\ In(b) = chain[h]
  BY DEF IInv, ChainsSound, NextSound, From
<1>2. SUFFICES ASSUME m # 0 PROVE FALSE
  OBVIOUS
<1>3. m \in Linked /\ next[m] = h
  BY <1>1, <1>2 DEF IInv, ChainsSound, PrevSound
<1>4. m \notin chain[h] /\ chain[m] = {m} \cup chain[h]
  BY <1>1, <1>3 DEF IInv, ChainsSound, NextSound, From, Linked, Place
<1>5. h \in In(b) /\ h \in In(hasho_func[key[m]]) /\ m \in In(hasho_func[key[m]])
  BY <1>1, <1>3, <1>4 DEF IInv, ChainsSound, NextSound, Linked
<1>6. m \in In(b)
  BY <1>5 DEF In
<1>7. QED
  BY <1>1, <1>4, <1>6

LEMMA LinkPrevIInv ==
  ASSUME IInv, LinkPrev
  PROVE  IInv'
<1> USE HashoAssumption
<1>1. /\ pc = "link" /\ pc' = "linked" /\ Head # 0
      /\ UNCHANGED <<memg, chain, pNodeHead, next, key, p, call, iDebug, ret, deaths>>
      /\ p \in Place /\ p \in alloced \ Linked /\ key[p] = pKey /\ next[p] = 0
  BY DEF LinkPrev, Goto, IInv, PlaceInv, Holding, TypeOK
<1>2. hasho_func[pKey] \in Bucket /\ Head \in Linked /\ Head \in Place /\ Head # p
  BY <1>1 DEF Head, IInv, TypeOK, ChainsSound, NextSound, Linked
<1>3. prev[Head] = 0
  BY <1>1, <1>2, HeadHasNoPrev DEF Head, PrevPending
<1>4. prev' = [prev EXCEPT ![p] = 0, ![Head] = p]
  BY <1>3 DEF LinkPrev
<1>5. /\ Linked' = Linked /\ Table' = Table /\ Head' = Head
      /\ \A b : In(b)' = In(b)
      /\ \A n : From(n)' = From(n)
  <2>1. Linked' = Linked
    BY <1>1 DEF Linked
  <2>2. QED
    BY <1>1, <2>1 DEF Table, In, From, Head, call
<1>6. TypeOK'
  BY <1>1, <1>2, <1>4 DEF IInv, TypeOK, Labels, memg, call
<1>7. NextSound'
  BY <1>1, <1>5 DEF IInv, ChainsSound, NextSound
<1>8. PrevSound'
  <2>1. prev'[Head] = p /\ \A n \in Linked \ {Head} : prev'[n] = prev[n]
    BY <1>1, <1>2, <1>4 DEF IInv, TypeOK, Linked
  <2>2. \A n : ~PrevPending(n) /\ (PrevPending(n)' <=> n = Head)
    BY <1>1, <1>5 DEF PrevPending
  <2>3. ASSUME NEW n \in Linked, n # Head, prev[n] = 0
        PROVE  pNodeHead'[hasho_func[key'[n]]] = n
    BY <1>1, <2>2, <2>3 DEF IInv, ChainsSound, PrevSound
  <2>4. ASSUME NEW n \in Linked, n # Head, prev[n] # 0
        PROVE  prev[n] \in Linked /\ next[prev[n]] = n
    BY <2>2, <2>4 DEF IInv, ChainsSound, PrevSound
  <2>5. ASSUME NEW n \in Linked, next[n] # 0, next[n] # Head
        PROVE  prev'[next[n]] = n
    <3>1. next[n] \in Linked
      BY <2>5 DEF IInv, ChainsSound, NextSound
    <3>2. QED
      BY <2>1, <2>2, <2>5, <3>1 DEF IInv, ChainsSound, PrevSound
  <2>6. QED
    BY <1>1, <1>5, <2>1, <2>2, <2>3, <2>4, <2>5 DEF PrevSound
<1>9. WalkInv' /\ ScanInv'
  BY <1>1 DEF WalkInv, ScanInv, Scanning, Overrun, IInv, memg
<1>10. KeysDiffer'
  BY <1>1, <1>5 DEF IInv, KeysDiffer, Scanning, call
<1>11. PlaceInv'
  BY <1>1, <1>2, <1>4, <1>5 DEF IInv, TypeOK, PlaceInv, Holding, call, memg
<1>12. CountInv'
  BY <1>1, <1>5 DEF IInv, CountInv, Overrun, Holding, Counted, memg
<1>13. QED
  BY <1>6, <1>7, <1>8, <1>9, <1>10, <1>11, <1>12 DEF IInv, ChainsSound
(* No node leads to the first of a chain.                                  *)
LEMMA HeadIsFirst ==
  ASSUME IInv, NEW n \in Linked, NEW b \in Bucket, next[n] # 0
  PROVE  next[n] # pNodeHead[b]
<1> DEFINE h == next[n]
<1>1. SUFFICES ASSUME h = pNodeHead[b] PROVE FALSE
  OBVIOUS
<1>2. h \in Linked /\ In(b) = chain[h] /\ n \notin chain[h]
  BY <1>1 DEF IInv, ChainsSound, NextSound, From
<1>3. {n, h} \subseteq chain[n] /\ chain[n] \subseteq In(hasho_func[key[n]])
  BY <1>2 DEF IInv, ChainsSound, NextSound, From, Linked
<1>4. h \in In(b) /\ h \in In(hasho_func[key[n]]) /\ n \in Linked
  BY <1>2, <1>3 DEF Linked
<1>5. n \in In(b)
  BY <1>4 DEF In
<1>6. QED
  BY <1>2, <1>5

LEMMA LinkHeadIInv ==
  ASSUME IInv, LinkHead,
         NEW b, b = hasho_func[pKey], NEW q, q = p
  PROVE  IInv'
<1> USE HashoAssumption
<1>1. /\ pc \in {"link", "linked"} /\ pc' = "idle" /\ iDebug' = 0
      /\ UNCHANGED <<memg, prev, key, deaths>>
      /\ q \in Place /\ q \in alloced \ Linked /\ key[q] = pKey
      /\ prev[q] = 0 /\ pKey \notin Table
      /\ pc = "link" => Head = 0
      /\ pc = "linked" => Head # 0
  BY DEF LinkHead, Return, Leave, IInv, PlaceInv, KeysDiffer, Holding, TypeOK
<1>2. /\ b \in Bucket /\ pKey \in Key /\ Head = pNodeHead[b]
      /\ Head \in Linked \cup {0} /\ In(b) = From(Head) /\ Head # q
  BY <1>1 DEF Head, IInv, TypeOK, ChainsSound, NextSound, Linked, Place
<1>3. /\ next'[q] = Head /\ \A n \in Linked : next'[n] = next[n]
      /\ pNodeHead'[b] = q /\ \A c \in Bucket \ {b} : pNodeHead'[c] = pNodeHead[c]
      /\ chain'[q] = {q} \cup In(b) /\ \A n \in Place \ {q} : chain'[n] = chain[n]
  BY <1>1, <1>2 DEF LinkHead, IInv, TypeOK, Linked
<1>4. TypeOK'
  BY <1>1, <1>2, SomeKeyIsKey
     DEF LinkHead, Return, Leave, IInv, TypeOK, Labels, Place, Last, memg, Linked, In
<1>5. /\ Linked' = Linked \cup {q} /\ q \notin Linked
      /\ Table' = Table \cup {pKey}
      /\ In(b)' = In(b) \cup {q} /\ \A c : c # b => In(c)' = In(c)
      /\ \A n \in Linked \cup {0} : From(n)' = From(n)
      /\ From(q)' = {q} \cup In(b)
  <2>1. Linked' = Linked \cup {q}
    BY <1>1, <1>3 DEF Linked
  <2>2. Table' = Table \cup {pKey}
    BY <1>1, <2>1 DEF Table
  <2>3. In(b)' = In(b) \cup {q} /\ \A c : c # b => In(c)' = In(c)
    BY <1>1, <2>1 DEF In
  <2>4. /\ \A n \in Linked \cup {0} : From(n)' = From(n)
        /\ From(q)' = {q} \cup In(b)
    BY <1>1, <1>3 DEF From, Linked, Place
  <2>5. QED
    BY <1>1, <2>1, <2>2, <2>3, <2>4
<1>6. NextSound'
  <2>1. ASSUME NEW c \in Bucket
        PROVE  (pNodeHead[c] \in Linked \cup {0} /\ In(c) = From(pNodeHead[c]))'
    <3>1. CASE c = b
      BY <1>3, <1>5, <3>1
    <3>2. CASE c # b
      <4>1. pNodeHead[c] \in Linked \cup {0} /\ In(c) = From(pNodeHead[c])
        BY DEF IInv, ChainsSound, NextSound
      <4>2. QED
        BY <1>3, <1>5, <3>2, <4>1
    <3>3. QED
      BY <3>1, <3>2
  <2>2. ASSUME NEW n \in Linked
        PROVE  /\ next'[n] \in Linked' \cup {0} /\ n \notin From(next[n])'
               /\ chain'[n] = {n} \cup From(next[n])'
               /\ chain'[n] \subseteq In(hasho_func[key[n]])'
    <3>1. /\ next[n] \in Linked \cup {0} /\ n \notin From(next[n])
          /\ chain[n] = {n} \cup From(next[n])
          /\ chain[n] \subseteq In(hasho_func[key[n]])
      BY DEF IInv, ChainsSound, NextSound
    <3>2. next'[n] = next[n] /\ chain'[n] = chain[n] /\ key'[n] = key[n]
      BY <1>1, <1>3 DEF Linked
    <3>3. From(next[n])' = From(next[n])
      BY <1>5, <3>1, <3>2 DEF From
    <3>4. In(hasho_func[key[n]]) \subseteq In(hasho_func[key[n]])'
      BY <1>1, <1>5 DEF In
    <3>5. QED
      BY <1>5, <3>1, <3>2, <3>3, <3>4
  <2>3. /\ next'[q] \in Linked' \cup {0} /\ q \notin From(next[q])'
        /\ chain'[q] = {q} \cup From(next[q])'
        /\ chain'[q] \subseteq In(hasho_func[key[q]])'
    <3>1. From(next[q])' = In(b)
      BY <1>2, <1>3, <1>5 DEF From
    <3>2. q \notin In(b)
      BY <1>5 DEF In
    <3>3. In(hasho_func[key[q]])' = In(b) \cup {q}
      BY <1>1, <1>5 DEF In
    <3>4. QED
      BY <1>2, <1>3, <1>5, <3>1, <3>2, <3>3
  <2>4. ASSUME NEW n \in Place \ Linked' PROVE chain'[n] = {}
    BY <1>3, <1>5 DEF IInv, ChainsSound, NextSound
  <2>5. QED
    BY <1>5, <2>1, <2>2, <2>3, <2>4 DEF NextSound
<1>7. PrevSound'
  <2>1. \A n : ~PrevPending(n)'
    BY <1>1 DEF PrevPending
  <2>2. \A n : PrevPending(n) <=> pc = "linked" /\ n = Head
    BY <1>1 DEF PrevPending
  <2>3. ASSUME NEW n \in Linked
        PROVE  IF prev'[n] = 0 THEN pNodeHead'[hasho_func[key'[n]]] = n
               ELSE prev'[n] \in Linked' /\ next'[prev'[n]] = n
    <3>1. CASE PrevPending(n)
      <4>1. prev[n] = q /\ n = Head
        BY <2>2, <3>1 DEF IInv, ChainsSound, PrevSound
      <4>2. QED
        BY <1>1, <1>3, <1>5, <4>1 DEF Place
    <3>2. CASE ~PrevPending(n) /\ prev[n] = 0
      <4>1. pNodeHead[hasho_func[key[n]]] = n
        BY <3>2 DEF IInv, ChainsSound, PrevSound
      <4>2. n # Head
        BY <1>1, <2>2, <3>2 DEF Linked, Place
      <4>3. hasho_func[key[n]] \in Bucket /\ hasho_func[key[n]] # b
        BY <1>2, <4>1, <4>2 DEF IInv, TypeOK, Linked
      <4>4. QED
        BY <1>1, <1>3, <3>2, <4>1, <4>3
    <3>3. CASE ~PrevPending(n) /\ prev[n] # 0
      <4>1. prev[n] \in Linked /\ next[prev[n]] = n
        BY <3>3 DEF IInv, ChainsSound, PrevSound
      <4>2. QED
        BY <1>1, <1>3, <1>5, <3>3, <4>1
    <3>4. QED
      BY <3>1, <3>2, <3>3
  <2>4. ASSUME NEW n \in Linked, next'[n] # 0 PROVE prev'[next'[n]] = n
    <3>1. next'[n] = next[n] /\ next[n] # Head
      BY <1>2, <1>3, <2>4, HeadIsFirst
    <3>2. QED
      BY <1>1, <2>2, <2>4, <3>1 DEF IInv, ChainsSound, PrevSound
  <2>5. next'[q] # 0 => prev'[next'[q]] = q
    BY <1>1, <1>2, <1>3, <2>2 DEF IInv, ChainsSound, PrevSound
  <2>6. prev'[q] = 0 /\ pNodeHead'[hasho_func[key'[q]]] = q
    BY <1>1, <1>3
  <2>7. QED
    BY <1>5, <2>1, <2>3, <2>4, <2>5, <2>6 DEF PrevSound
<1>8. WalkInv' /\ ScanInv' /\ PlaceInv'
  BY <1>1 DEF WalkInv, ScanInv, Scanning, Overrun, IInv, PlaceInv, Holding, memg
<1>9. KeysDiffer'
  BY <1>1, <1>5 DEF IInv, KeysDiffer, Scanning, Table
<1>10. CountInv'
  <2>1. Cardinality(Linked') = Cardinality(Linked) + 1
    BY <1>5, Finite, FS_AddElement DEF IInv
  <2>2. QED
    BY <1>1, <1>5, <2>1, Finite DEF IInv, TypeOK, CountInv, Overrun, Holding, Counted, memg
<1>11. QED
  BY <1>4, <1>6, <1>7, <1>8, <1>9, <1>10 DEF IInv, ChainsSound
LEMMA UnlinkNextIInv ==
  ASSUME IInv, UnlinkNext,
         NEW b, b = hasho_func[pKey], NEW q, q = p,
         NEW s, s = next[p], NEW r, r = prev[p]
  PROVE  IInv' /\ Table' = Table \ {pKey}
<1> USE HashoAssumption
<1>1. /\ pc = "unlink" /\ q \in Linked /\ q \in Place /\ key[q] = pKey /\ kind = "del"
      /\ p' = q /\ UNCHANGED <<memg, prev, key, call, iDebug, ret, deaths>>
      /\ pc' = (IF s # 0 THEN "unlinked" ELSE "free")
      /\ b \in Bucket /\ pKey \in Key
  BY DEF UnlinkNext, Goto, IInv, PlaceInv, TypeOK, Linked
<1>2. \A n : ~PrevPending(n)
  BY <1>1 DEF PrevPending
<1>3. /\ s \in Linked \cup {0} /\ q \notin From(s) /\ chain[q] = {q} \cup From(s)
      /\ q # s /\ (s # 0 => prev[s] = q)
  BY <1>1, <1>2 DEF IInv, ChainsSound, NextSound, PrevSound, From, Linked, Place
<1>4. /\ r # 0 => r \in Linked /\ next[r] = q /\ r # q
      /\ r = 0 => pNodeHead[b] = q
  BY <1>1, <1>2, <1>3 DEF IInv, ChainsSound, PrevSound
<1>5. \A n \in Linked : next[n] = q => r = n
  BY <1>1, <1>2 DEF IInv, ChainsSound, PrevSound, Place
<1>6. ASSUME NEW c \in Bucket, pNodeHead[c] = q PROVE r = 0 /\ c = b
  <2>1. r = 0
    BY <1>1, <1>2, <1>6, HeadHasNoPrev DEF Place
  <2>2. q \in In(c)
    BY <1>1, <1>6 DEF IInv, ChainsSound, NextSound, From, Linked, Place
  <2>3. QED
    BY <1>1, <2>1, <2>2 DEF In
<1>7. /\ \A n \in Place : next'[n] = (IF r # 0 /\ n = r THEN s ELSE next[n])
      /\ \A c \in Bucket : pNodeHead'[c] = (IF pNodeHead[c] = q THEN s ELSE pNodeHead[c])
      /\ chain' = [n \in Place |-> IF n = q THEN {} ELSE chain[n] \ {q}]
  <2>1. CASE r # 0
    BY <1>1, <1>4, <1>6, <2>1 DEF UnlinkNext, IInv, TypeOK
  <2>2. CASE r = 0
    BY <1>1, <1>4, <1>6, <2>2 DEF UnlinkNext, IInv, TypeOK
  <2>3. QED
    BY <2>1, <2>2
<1>8. TypeOK'
  <2>1. /\ next' \in [Place -> Place \cup {0}]
        /\ pNodeHead' \in [Bucket -> Place \cup {0}]
    BY <1>1, <1>3 DEF UnlinkNext, IInv, TypeOK, Linked
  <2>2. QED
    BY <1>1, <1>7, <2>1 DEF IInv, TypeOK, Labels, memg, call
<1>9. /\ Linked' = Linked \ {q} /\ Table' = Table \ {pKey}
      /\ \A c : In(c)' = In(c) \ {q}
      /\ \A n \in (Linked \ {q}) \cup {0} : From(n)' = From(n) \ {q}
  <2>1. Linked' = Linked \ {q}
    BY <1>1, <1>7 DEF Linked
  <2>2. \A c : In(c)' = In(c) \ {q}
    BY <1>1, <2>1 DEF In
  <2>3. \A n \in (Linked \ {q}) \cup {0} : From(n)' = From(n) \ {q}
    BY <1>1, <1>7 DEF From, Linked
  <2>4. \A n \in Linked \ {q} : key[n] # pKey
    BY <1>1 DEF IInv, KeysDiffer, Scanning
  <2>5. Table' = Table \ {pKey}
    BY <1>1, <2>1, <2>4 DEF Table
  <2>6. QED
    BY <2>1, <2>2, <2>3, <2>5
<1>10. NextSound'
  <2>1. ASSUME NEW c \in Bucket
        PROVE  (pNodeHead[c] \in Linked \cup {0} /\ In(c) = From(pNodeHead[c]))'
    <3>1. pNodeHead[c] \in Linked \cup {0} /\ In(c) = From(pNodeHead[c])
      BY DEF IInv, ChainsSound, NextSound
    <3>2. CASE pNodeHead[c] = q
      <4>1. In(c)' = From(s) \ {q}
        BY <1>1, <1>3, <1>9, <3>1, <3>2 DEF From, Place
      <4>2. From(s) \ {q} = From(pNodeHead[c])'
        BY <1>3, <1>7, <1>9, <3>2 DEF From
      <4>3. QED
        BY <1>3, <1>7, <1>9, <3>2, <4>1, <4>2
    <3>3. CASE pNodeHead[c] # q
      <4>1. pNodeHead'[c] = pNodeHead[c] /\ pNodeHead[c] \in (Linked \ {q}) \cup {0}
        BY <1>7, <3>1, <3>3
      <4>2. From(pNodeHead[c])' = From(pNodeHead[c]) \ {q}
        BY <1>9, <4>1 DEF From
      <4>3. QED
        BY <1>9, <3>1, <4>1, <4>2
    <3>4. QED
      BY <3>2, <3>3
  <2>2. ASSUME NEW n \in Linked \ {q}
        PROVE  /\ next'[n] \in Linked' \cup {0} /\ n \notin From(next[n])'
               /\ chain'[n] = {n} \cup From(next[n])'
               /\ chain'[n] \subseteq In(hasho_func[key[n]])'
    <3>1. /\ next[n] \in Linked \cup {0} /\ n \notin From(next[n])
          /\ chain[n] = {n} \cup From(next[n])
          /\ chain[n] \subseteq In(hasho_func[key[n]])
      BY DEF IInv, ChainsSound, NextSound
    <3>2. chain'[n] = chain[n] \ {q} /\ key'[n] = key[n]
      BY <1>1, <1>7 DEF Linked
    <3>3. chain'[n] \subseteq In(hasho_func[key[n]])'
      BY <1>1, <1>9, <3>1, <3>2 DEF In
    <3>4. next'[n] \in Linked' \cup {0} /\ From(next[n])' = From(next[n]) \ {q}
      <4>1. CASE r # 0 /\ n = r
        <5>1. next'[n] = s /\ next[n] = q
          BY <1>4, <1>7, <4>1 DEF Linked
        <5>2. From(next[n])' = From(s) \ {q}
          BY <1>3, <1>9, <5>1 DEF From
        <5>3. From(q) \ {q} = From(s) \ {q}
          BY <1>1, <1>3 DEF From, Place
        <5>4. QED
          BY <1>3, <1>9, <5>1, <5>2, <5>3
      <4>2. CASE ~(r # 0 /\ n = r)
        <5>1. next'[n] = next[n] /\ next[n] # q
          BY <1>1, <1>5, <1>7, <4>2 DEF Linked, Place
        <5>2. next[n] \in (Linked \ {q}) \cup {0}
          BY <3>1, <5>1
        <5>3. From(next[n])' = From(next[n]) \ {q}
          BY <1>9, <5>1, <5>2 DEF From
        <5>4. QED
          BY <1>9, <5>1, <5>2, <5>3
      <4>3. QED
        BY <4>1, <4>2
    <3>5. QED
      BY <3>1, <3>2, <3>3, <3>4
  <2>3. ASSUME NEW n \in Place \ Linked' PROVE chain'[n] = {}
    BY <1>7, <1>9 DEF IInv, ChainsSound, NextSound
  <2>4. QED
    BY <1>9, <2>1, <2>2, <2>3 DEF NextSound
<1>11. next'[q] = s
  BY <1>1, <1>4, <1>7
<1>12. PrevSound'
  <2>1. \A n : PrevPending(n)' <=> s # 0 /\ n = s
    BY <1>1, <1>11 DEF PrevPending
  <2>2. ASSUME NEW n \in Linked \ {q}, s # 0 /\ n = s
        PROVE  prev'[n] = p'
    BY <1>1, <1>3, <2>2
  <2>3. ASSUME NEW n \in Linked \ {q}, ~(s # 0 /\ n = s)
        PROVE  IF prev'[n] = 0 THEN pNodeHead'[hasho_func[key'[n]]] = n
               ELSE prev'[n] \in Linked' /\ next'[prev'[n]] = n
    <3>1. CASE prev[n] = 0
      <4>1. pNodeHead[hasho_func[key[n]]] = n /\ hasho_func[key[n]] \in Bucket
        BY <1>2, <3>1 DEF IInv, ChainsSound, PrevSound, TypeOK, Linked
      <4>2. QED
        BY <1>1, <1>7, <3>1, <4>1
    <3>2. CASE prev[n] # 0
      <4>1. prev[n] \in Linked /\ next[prev[n]] = n
        BY <1>2, <3>2 DEF IInv, ChainsSound, PrevSound
      <4>2. prev[n] # q
        BY <2>3, <4>1 DEF Linked, Place
      <4>3. next'[prev[n]] = n
        BY <1>4, <1>7, <4>1 DEF Linked
      <4>4. QED
        BY <1>1, <1>9, <3>2, <4>1, <4>2, <4>3
    <3>3. QED
      BY <3>1, <3>2
  <2>4. ASSUME NEW n \in Linked \ {q}, next'[n] # 0, ~(s # 0 /\ next'[n] = s)
        PROVE  prev'[next'[n]] = n
    <3>1. next'[n] = next[n]
      BY <1>7, <2>4 DEF Linked
    <3>2. QED
      BY <1>1, <1>2, <2>4, <3>1 DEF IInv, ChainsSound, PrevSound
  <2>5. QED
    BY <1>9, <2>1, <2>2, <2>3, <2>4 DEF PrevSound
<1>13. WalkInv' /\ ScanInv'
  BY <1>1 DEF WalkInv, ScanInv, Scanning, Overrun, IInv, memg
<1>14. KeysDiffer'
  BY <1>1, <1>9 DEF IInv, KeysDiffer, Scanning
<1>15. PlaceInv'
  <2>1. q \in alloced' \ Linked'
    BY <1>1, <1>9 DEF IInv, CountInv, memg
  <2>2. ASSUME s # 0
        PROVE  /\ s \in In(b) \ {q}
               /\ IF r = 0 THEN pNodeHead'[b] = s
                  ELSE r \in Linked \ {q} /\ next'[r] = s
    <3>1. s \in In(b)
      <4>1. s \in chain[q] /\ chain[q] \subseteq In(b)
        BY <1>1, <1>3, <2>2 DEF IInv, ChainsSound, NextSound, From, Linked
      <4>2. QED
        BY <4>1
    <3>2. QED
      BY <1>1, <1>3, <1>4, <1>7, <3>1 DEF Linked
  <2>3. Head' = pNodeHead'[b] /\ hasho_func[pKey'] = b
    BY <1>1 DEF Head, call
  <2>4. ASSUME s # 0, NEW n \in Linked \ {q}, next'[n] = s PROVE n = r
    <3>1. CASE next[n] = s
      BY <1>1, <1>2, <1>3, <2>4, <3>1 DEF IInv, ChainsSound, PrevSound
    <3>2. CASE next[n] # s
      BY <1>7, <2>4, <3>2 DEF Linked
    <3>3. QED
      BY <3>1, <3>2
  <2>5. QED
    BY <1>1, <1>9, <1>11, <2>1, <2>2, <2>3, <2>4 DEF PlaceInv, Holding, call
<1>16. CountInv'
  <2>1. Cardinality(Linked') = Cardinality(Linked) - 1
    BY <1>1, <1>9, Finite, FS_RemoveElement DEF IInv
  <2>2. QED
    BY <1>1, <1>9, <2>1, Finite DEF IInv, TypeOK, CountInv, Overrun, Holding, Counted, memg
<1>17. QED
  BY <1>8, <1>9, <1>10, <1>12, <1>13, <1>14, <1>15, <1>16 DEF IInv, ChainsSound
LEMMA UnlinkPrevIInv ==
  ASSUME IInv, UnlinkPrev, NEW s, s = next[p]
  PROVE  IInv'
<1> USE HashoAssumption
<1>1. /\ pc = "unlinked" /\ pc' = "free"
      /\ UNCHANGED <<memg, chain, pNodeHead, next, key, p, call, iDebug, ret, deaths>>
      /\ s \in Linked /\ s \in Place /\ s # 0
      /\ prev' = [prev EXCEPT ![s] = prev[p]]
  BY DEF UnlinkPrev, Goto, IInv, PlaceInv, In, Linked, Place
<1>2. /\ hasho_func[key[s]] = hasho_func[pKey]
      /\ IF prev[p] = 0 THEN Head = s ELSE prev[p] \in Linked /\ next[prev[p]] = s
      /\ \A n \in Linked : next[n] = s => n = prev[p]
  BY <1>1 DEF IInv, PlaceInv, In
<1>3. /\ Linked' = Linked /\ Table' = Table
      /\ \A c : In(c)' = In(c)
      /\ \A n : From(n)' = From(n)
  <2>1. Linked' = Linked
    BY <1>1 DEF Linked
  <2>2. QED
    BY <1>1, <2>1 DEF Table, In, From
<1>4. TypeOK'
  BY <1>1 DEF IInv, TypeOK, PlaceInv, Labels, memg, call, Linked
<1>5. NextSound'
  BY <1>1, <1>3 DEF IInv, ChainsSound, NextSound
<1>6. PrevSound'
  <2>1. prev'[s] = prev[p] /\ \A n \in Linked \ {s} : prev'[n] = prev[n]
    BY <1>1 DEF IInv, TypeOK, Linked
  <2>2. \A n : ~PrevPending(n)' /\ (PrevPending(n) <=> n = s)
    BY <1>1 DEF PrevPending
  <2>3. ASSUME NEW n \in Linked
        PROVE  IF prev'[n] = 0 THEN pNodeHead[hasho_func[key[n]]] = n
               ELSE prev'[n] \in Linked /\ next[prev'[n]] = n
    <3>1. CASE n = s
      BY <1>2, <2>1, <3>1 DEF Head
    <3>2. CASE n # s
      BY <2>1, <2>2, <3>2 DEF IInv, ChainsSound, PrevSound
    <3>3. QED
      BY <3>1, <3>2
  <2>4. ASSUME NEW n \in Linked, next[n] # 0 PROVE prev'[next[n]] = n
    <3>1. next[n] \in Linked
      BY <2>4 DEF IInv, ChainsSound, NextSound
    <3>2. CASE next[n] = s
      BY <1>2, <2>1, <3>2
    <3>3. CASE next[n] # s
      BY <2>1, <2>2, <2>4, <3>1, <3>3 DEF IInv, ChainsSound, PrevSound
    <3>4. QED
      BY <3>2, <3>3
  <2>5. QED
    BY <1>1, <1>3, <2>2, <2>3, <2>4 DEF PrevSound
<1>7. WalkInv' /\ ScanInv'
  BY <1>1 DEF WalkInv, ScanInv, Scanning, Overrun, IInv, memg
<1>8. KeysDiffer'
  BY <1>1, <1>3 DEF IInv, KeysDiffer, Scanning
<1>9. PlaceInv'
  BY <1>1, <1>3 DEF IInv, PlaceInv, Holding, call, memg
<1>10. CountInv'
  BY <1>1, <1>3 DEF IInv, CountInv, Overrun, Holding, Counted, memg
<1>11. QED
  BY <1>4, <1>5, <1>6, <1>7, <1>8, <1>9, <1>10 DEF IInv, ChainsSound

LEMMA FreeIInv ==
  ASSUME IInv, Free
  PROVE  IInv'
<1> USE HashoAssumption
<1>1. /\ pc = "free" /\ p \in Place /\ p \in alloced /\ p \notin Linked /\ kind = "del"
      /\ UNCHANGED <<uiMemNodeAllocedCnt, offsetFreeList, links, deaths>>
  BY DEF Free, IInv, TypeOK, PlaceInv, Holding
<1>2. CASE p \in Node
  <2>1. /\ pc' = "uncount" /\ alloced' = alloced \ {p}
        /\ UNCHANGED <<p, call, iDebug, ret>>
    BY <1>1, <1>2 DEF Free, Goto
  <2>2. /\ ChainsSound' /\ Linked' = Linked /\ Table' = Table
    BY <1>1, <2>1, LinksStay
  <2>3. Overrun' <=> Overrun
    BY <1>1, <2>1 DEF Overrun
  <2>4. TypeOK'
    BY <1>1, <2>1 DEF IInv, TypeOK, Labels, links, call
  <2>5. WalkInv' /\ ScanInv'
    BY <1>1, <2>1, <2>3 DEF WalkInv, IInv, ScanInv, Scanning
  <2>6. KeysDiffer'
    BY <1>1, <2>1, <2>2 DEF IInv, KeysDiffer, Scanning, links
  <2>7. PlaceInv'
    BY <1>1, <1>2, <2>1 DEF PlaceInv, Holding, call
  <2>8. CountInv'
    <3>1. Cardinality(alloced') = Cardinality(alloced) - 1
      BY <1>1, <2>1, Finite, FS_RemoveElement DEF IInv
    <3>2. QED
      BY <1>1, <2>1, <2>2, <2>3, <3>1, Finite
         DEF IInv, TypeOK, CountInv, Holding, Counted
  <2>9. QED
    BY <2>2, <2>4, <2>5, <2>6, <2>7, <2>8 DEF IInv
<1>3. CASE p \notin Node
  <2>1. pc' = "idle" /\ Leave /\ ret' = ret /\ alloced' = alloced
    BY <1>1, <1>3 DEF Free, Return, Leave, Goto
  <2>2. Overrun'
    BY <1>1, <1>3, <2>1 DEF IInv, ScanInv, Overrun
  <2>3. Linked' = Linked
    BY <1>1 DEF Linked, links
  <2>4. CountInv'
    BY <1>1, <2>1, <2>2, <2>3, Finite DEF IInv, TypeOK, CountInv, Counted
  <2>5. QED
    BY <1>1, <2>1, <2>2, <2>4, LeaveIInv DEF IInv, TypeOK
<1>4. QED
  BY <1>2, <1>3

LEMMA UncountIInv ==
  ASSUME IInv, Uncount
  PROVE  IInv'
<1> USE HashoAssumption
<1>1. /\ pc = "uncount" /\ Leave /\ pc' = "idle" /\ ret' = ret
      /\ UNCHANGED <<alloced, offsetFreeList, links, deaths>>
      /\ uiMemNodeAllocedCnt' = uiMemNodeAllocedCnt - 1
  BY DEF Uncount, Return, Leave
<1>2. Linked' = Linked /\ (Overrun' <=> Overrun)
  BY <1>1 DEF Linked, links, Overrun
<1>3. CountInv' /\ uiMemNodeAllocedCnt' \in 0 .. TotCnt
  BY <1>1, <1>2, Finite DEF IInv, TypeOK, CountInv, Holding, Counted
<1>4. alloced' \subseteq Node \/ Overrun'
  BY <1>1, <1>2 DEF IInv, ScanInv
<1>5. QED
  BY <1>1, <1>3, <1>4, LeaveIInv DEF IInv, TypeOK

LEMMA DieIInv ==
  ASSUME ~Torn, IInv, Die
  PROVE  IInv'
<1> USE HashoAssumption
<1>1. /\ pc \notin {"linked", "unlinked"} /\ Leave /\ pc' = "idle" /\ ret' = 0
      /\ UNCHANGED <<memg, links>> /\ deaths' = deaths + 1 /\ deaths < MaxDeaths
  BY DEF Die, Return, Leave
<1>2. Linked' = Linked /\ (~Overrun' => ~Overrun)
  BY <1>1 DEF Linked, links, Overrun, memg
<1>3. CountInv'
  BY <1>1, <1>2, Finite DEF IInv, TypeOK, CountInv, Holding, Counted, memg
<1>4. alloced' \subseteq Node \/ Overrun'
  BY <1>1, <1>2 DEF IInv, ScanInv, memg
<1>5. QED
  BY <1>1, <1>3, <1>4, LeaveIInv DEF IInv, TypeOK, memg

LEMMA StutterIInv ==
  ASSUME IInv, UNCHANGED vars
  PROVE  IInv'
BY DEF vars, memg, links, call, IInv, TypeOK, ChainsSound, NextSound, PrevSound,
       PrevPending, WalkInv, ScanInv, Met, Turn, Overrun, KeysDiffer, PlaceInv,
       CountInv, Linked, Table, In, From, Head

LEMMA NextIInv == ~Torn /\ IInv /\ [Next]_vars => IInv'
<1> SUFFICES ASSUME ~Torn, IInv, [Next]_vars PROVE IInv'
  OBVIOUS
<1>1. CASE UNCHANGED vars
  BY <1>1, StutterIInv
<1>2. ASSUME NEW o \in {"find", "add", "del"}, NEW x \in Key, Call(o, x) PROVE IInv'
  BY <1>2, CallIInv
<1>3. CASE hasho_find
  BY <1>3, WalkIInv, FoundIInv, MissedIInv DEF hasho_find
<1>4. CASE memg_alloc
  BY <1>4, AllFullIInv, AdvanceIInv, WrapIInv, TakeIInv, SkipIInv, FaultIInv, CountIInv
     DEF memg_alloc
<1>5. CASE hasho_link_node
  BY <1>5, LinkPrevIInv, LinkHeadIInv DEF hasho_link_node
<1>6. CASE hasho_unlink_node
  BY <1>6, UnlinkNextIInv, UnlinkPrevIInv DEF hasho_unlink_node
<1>7. CASE memg_free
  BY <1>7, FreeIInv, UncountIInv DEF memg_free
<1>8. CASE Die
  BY <1>8, DieIInv
<1>9. QED
  BY <1>1, <1>2, <1>3, <1>4, <1>5, <1>6, <1>7, <1>8 DEF Next, Step

(* The invariant of the table, between any two stores and after any deaths *)
(* that tear no link: types, chains, the walk, the scan and the counts.    *)
THEOREM Invariant == ASSUME ~Torn PROVE Spec => []IInv
<1>1. Init => IInv
  BY InitIInv
<1>2. IInv /\ [Next]_vars => IInv'
  BY NextIInv
<1>3. QED
  BY <1>1, <1>2, PTL DEF Spec

(* The offsets, counts and marks keep their types.                         *)
THEOREM TypeCorrect == ASSUME ~Torn PROVE Spec => []TypeOK
<1>1. IInv => TypeOK
  BY DEF IInv
<1>2. QED
  BY <1>1, Invariant, PTL

(* From every head, next leads to the nodes of the bucket, each once, and  *)
(* prev leads back (hasho_link_node, hasho_unlink_node).                   *)
THEOREM ChainsAreSound == ASSUME ~Torn PROVE Spec => []ChainsSound
<1>1. IInv => ChainsSound
  BY DEF IInv
<1>2. QED
  BY <1>1, Invariant, PTL

(* hasho_find returns no node that is not in the table.                    *)
THEOREM FoundIsInTable == ASSUME ~Torn PROVE Spec => []FoundIsPresent
<1>1. IInv => FoundIsPresent
  BY DEF IInv, WalkInv, FoundIsPresent, In
<1>2. QED
  BY <1>1, Invariant, PTL
(* Only a death at the wrap takes the scan out of the pool, and nothing    *)
(* brings it back.                                                         *)
LEMMA OverrunSteps ==
  ASSUME IInv, [Next]_vars
  PROVE  (Overrun' <=> Overrun) \/ (Die /\ Overrun' /\ pc = "wrap")
<1>1. CASE UNCHANGED vars
  BY <1>1 DEF vars, memg, Overrun
<1>2. ASSUME NEW o \in {"find", "add", "del"}, NEW x \in Key, Call(o, x)
      PROVE  Overrun' <=> Overrun
  BY <1>2 DEF Call, Overrun, memg
<1>3. CASE hasho_find
  BY <1>3 DEF hasho_find, Walk, Found, Missed, Return, Leave, Goto, Overrun, memg
<1>4. CASE memg_alloc
  BY <1>4, AdvanceIInv, WrapIInv
     DEF memg_alloc, AllFull, Take, Skip, Fault, Count, Return, Leave, Goto, Overrun, memg
<1>5. CASE hasho_link_node \/ hasho_unlink_node
  BY <1>5 DEF hasho_link_node, hasho_unlink_node, LinkPrev, LinkHead, UnlinkNext,
              UnlinkPrev, Return, Leave, Goto, Overrun, memg
<1>6. CASE memg_free
  BY <1>6 DEF memg_free, Free, Uncount, Return, Leave, Goto, Overrun
<1>7. CASE Die
  BY <1>7 DEF Die, Return, Leave, Overrun, memg
<1>8. QED
  BY <1>1, <1>2, <1>3, <1>4, <1>5, <1>6, <1>7 DEF Next, Step

(* memg_alloc never leaves its pool but by a death between the two stores  *)
(* of memg.c:241-243: no other death, no drift of marks and counts does it.*)
THEOREM PoolKept == ASSUME ~Torn PROVE Spec => LeavesByDeathOnly
<1>1. IInv /\ [Next]_vars => [~Overrun /\ Overrun' => pc = "wrap" /\ Die]_vars
  BY OverrunSteps
<1>2. QED
  BY <1>1, Invariant, PTL DEF Spec, LeavesByDeathOnly

-----------------------------------------------------------------------------
(* The table implements TableSpec.                                         *)

(* Different nodes of the table have different keys.                       *)
LEMMA TableSize == ASSUME IInv PROVE Cardinality(Table) = Cardinality(Linked)
<1> DEFINE f == [n \in Linked |-> key[n]]
<1>1. f \in [Linked -> Table] /\ \A t \in Table : \E n \in Linked : f[n] = t
  BY DEF Table
<1>2. f \in Surjection(Linked, Table)
  BY <1>1 DEF Surjection
<1>3. f \in Injection(Linked, Table)
  BY <1>1 DEF Injection, IsInjective, IInv, KeysDiffer
<1>4. IsFiniteSet(Linked)
  BY Finite DEF IInv
<1>5. QED
  BY <1>2, <1>3, <1>4, FS_Surjection

(* The pool refuses only when keys and deaths fill it, or it is ruined.    *)
LEMMA Refused ==
  ASSUME IInv, ~Overrun,
         \/ pc = "alloc" /\ uiMemNodeAllocedCnt >= TotCnt
         \/ pc = "look" /\ Node \subseteq alloced
  PROVE  Cardinality(Table) + deaths >= TotCnt
<1> USE HashoAssumption
<1>1. pc \notin Holding /\ pc \notin Counted
  BY DEF Holding, Counted
<1>2. /\ Cardinality(alloced) <= Cardinality(Linked) + deaths
      /\ uiMemNodeAllocedCnt <= Cardinality(Linked) + deaths
  BY <1>1, Finite DEF IInv, TypeOK, CountInv
<1>3. Node \subseteq alloced => Cardinality(alloced) >= TotCnt
  <2>1. Cardinality(Node) = TotCnt
    BY FS_Interval DEF Node
  <2>2. QED
    BY <2>1, Finite, FS_Subset DEF IInv
<1>4. Cardinality(Linked) \in Int /\ Cardinality(alloced) \in Int /\ deaths \in Int
  BY Finite DEF IInv, TypeOK
<1>5. QED
  BY <1>2, <1>3, <1>4, TableSize DEF IInv, TypeOK

LEMMA InitImplements == Init => Promised!Init
  BY HashoAssumption
     DEF Init, Promised!Init, Promised!NoRequest, Request, Pending, Table, Linked, Overrun

LEMMA StepImplements ==
  ASSUME ~Torn, IInv, [Next]_vars
  PROVE  [Promised!Next]_(Promised!vars)
<1> USE HashoAssumption
<1> SUFFICES ASSUME ~(UNCHANGED Promised!vars) PROVE Promised!Next
  OBVIOUS
<1> DEFINE Stays == Table' = Table /\ Request' = Request /\ (ret # 0)' = (ret # 0)
                    /\ deaths' = deaths /\ Overrun' = Overrun
<1>0. ~Stays
  BY DEF Promised!vars, Request
<1>a. pKey \in Key
  BY DEF IInv, TypeOK
<1>o. deaths' = deaths => Overrun' = Overrun
  <2>1. Die => deaths' # deaths
    BY DEF Die, IInv, TypeOK
  <2>2. deaths' = deaths => (Overrun' <=> Overrun)
    BY <2>1, OverrunSteps
  <2>3. QED
    BY <2>2 DEF Overrun
<1>1. CASE UNCHANGED vars
  BY <1>0, <1>1 DEF vars, memg, links, call, Table, Linked, Request, Overrun
<1>2. ASSUME NEW o \in {"find", "add", "del"}, NEW x \in Key, Call(o, x)
      PROVE  Promised!Next
  <2>1. Table' = Table
    BY <1>2, LinksStay DEF Call
  <2>2. Promised!Call(o, x)
    BY <1>o, <1>2, <2>1 DEF Call, Promised!Call, Promised!NoRequest, Request, Pending
  <2>3. QED
    BY <2>2 DEF Promised!Next
<1>3. CASE Walk
  BY <1>0, <1>o, <1>3, LinksStay DEF Walk, Goto, call, Request, Pending
<1>4. CASE Found
  <2>1. pc = "find" /\ pc' \in {"idle", "unlink"} /\ pKey \in Table /\ deaths' = deaths
    BY <1>4 DEF Found, Return, Leave, Goto, IInv, TypeOK, WalkInv, Table, In
  <2>2. Table' = Table
    BY <1>4, <2>1, LinksStay DEF Found
  <2>3. CASE kind = "find"
    <3>1. Promised!Find(pKey)
      BY <1>o, <1>4, <2>1, <2>2, <2>3
         DEF Found, Return, Leave, Promised!Find, Promised!NoRequest, Request, Pending
    <3>2. QED
      BY <1>a, <3>1 DEF Promised!Next
  <2>4. CASE kind = "add"
    <3>1. Promised!Add(pKey)
      BY <1>o, <1>4, <2>1, <2>2, <2>4
         DEF Found, Return, Leave, Promised!Add, Promised!NoRequest, Request, Pending
    <3>2. QED
      BY <1>a, <3>1 DEF Promised!Next
  <2>5. CASE kind = "del"
    BY <1>0, <1>o, <1>4, <2>1, <2>2, <2>5 DEF Found, Goto, call, Request, Pending
  <2>6. QED
    BY <1>4, <2>3, <2>4, <2>5 DEF Found
<1>5. CASE Missed
  <2>1. pc = "find" /\ pc' \in {"idle", "alloc"} /\ pKey \notin Table /\ deaths' = deaths
    BY <1>5 DEF Missed, Return, Leave, Goto, IInv, WalkInv, From, Table
  <2>2. Table' = Table
    BY <1>5, <2>1, LinksStay DEF Missed
  <2>3. CASE kind = "find"
    <3>1. Promised!Find(pKey)
      BY <1>o, <1>5, <2>1, <2>2, <2>3
         DEF Missed, Return, Leave, Promised!Find, Promised!NoRequest, Request, Pending
    <3>2. QED
      BY <1>a, <3>1 DEF Promised!Next
  <2>4. CASE kind = "add"
    BY <1>0, <1>o, <1>5, <2>1, <2>2, <2>4 DEF Missed, Goto, call, Request, Pending
  <2>5. CASE kind = "del"
    <3>1. Table' = Table \ {pKey}
      BY <2>1, <2>2
    <3>2. Promised!Del(pKey)
      BY <1>o, <1>5, <2>1, <2>5, <3>1
         DEF Missed, Return, Leave, Promised!Del, Promised!NoRequest, Request, Pending
    <3>3. QED
      BY <1>a, <3>2 DEF Promised!Next
  <2>6. QED
    BY <1>5, <2>3, <2>4, <2>5 DEF Missed
<1>6. ASSUME pc \in {"alloc", "look"}, Return(0), UNCHANGED <<links, deaths>>,
             ~Overrun => Cardinality(Table) + deaths >= TotCnt
      PROVE  Promised!Next
  <2>1. pc' = "idle" /\ ret' = 0 /\ kind = "add" /\ deaths' = deaths
    BY <1>6 DEF Return, Leave, IInv, KeysDiffer, Scanning
  <2>2. Table' = Table
    BY <1>6, <2>1, LinksStay
  <2>3. Promised!Add(pKey)
    <3>1. Request = <<"add", pKey>> /\ Request' = <<"none">>
      BY <1>6, <2>1 DEF Request, Pending
    <3>2. Promised!Cardinality(Table) = Cardinality(Table)
      BY DEF Promised!Cardinality, Cardinality
    <3>3. QED
      BY <1>o, <1>6, <2>1, <2>2, <3>1, <3>2 DEF Promised!Add, Promised!NoRequest
  <2>4. QED
    BY <1>a, <2>3 DEF Promised!Next
<1>7. CASE AllFull
  BY <1>6, <1>7, Refused DEF AllFull
<1>b. CASE Advance
  BY <1>0, <1>o, <1>b, LinksStay DEF Advance, Goto, call, Request, Pending
<1>c. CASE Wrap
  BY <1>0, <1>o, <1>c, LinksStay DEF Wrap, Goto, call, Request, Pending
<1>8. CASE Take
  BY <1>0, <1>o, <1>8, LinksStay DEF Take, Goto, call, Request, Pending
<1>9. CASE Skip
  <2>1. CASE GiveUp(iDebug + 1)
    BY <1>6, <1>9, <2>1, ScanFull, Refused DEF Skip
  <2>2. CASE ~GiveUp(iDebug + 1)
    BY <1>0, <1>o, <1>9, <2>2, LinksStay DEF Skip, call, Request, Pending
  <2>3. QED
    BY <2>1, <2>2
<1>e. CASE Fault
  <2>1. pc = "look" /\ pc' = "idle" /\ ret' = 0 /\ deaths' = deaths /\ Overrun
    BY <1>e, FaultIInv DEF Fault, Return, Leave
  <2>2. Table' = Table
    BY <1>e, <2>1, LinksStay DEF Fault
  <2>3. Promised!Fault
    BY <1>o, <2>1, <2>2 DEF Promised!Fault, Promised!NoRequest, Request, Pending
  <2>4. QED
    BY <2>3 DEF Promised!Next
<1>10. CASE Count
  <2>1. /\ p \in Place \ Linked /\ Linked' = Linked
        /\ \A n \in Linked : key'[n] = key[n]
    BY <1>10 DEF Count, IInv, TypeOK, PlaceInv, Holding, Linked
  <2>2. Table' = Table
    BY <2>1 DEF Table
  <2>3. QED
    BY <1>0, <1>o, <1>10, <2>2 DEF Count, Goto, call, Request, Pending
<1>11. CASE LinkPrev
  <2>1. Table' = Table
    BY <1>11 DEF LinkPrev, Table, Linked
  <2>2. QED
    BY <1>0, <1>o, <1>11, <2>1 DEF LinkPrev, Goto, call, Request, Pending
<1>12. CASE LinkHead
  <2>1. /\ pc \in {"link", "linked"} /\ pc' = "idle" /\ p \in Place /\ key[p] = pKey
        /\ key' = key /\ ret' = p /\ kind = "add" /\ pKey \notin Table /\ deaths' = deaths
    BY <1>12 DEF LinkHead, Return, Leave, IInv, TypeOK, PlaceInv, KeysDiffer, Holding
  <2>2. Linked' = Linked \cup {p}
    BY <1>12, <2>1 DEF LinkHead, Linked, IInv, TypeOK
  <2>3. Table' = Table \cup {pKey}
    BY <2>1, <2>2 DEF Table
  <2>4. Promised!Add(pKey)
    BY <1>o, <2>1, <2>3 DEF Promised!Add, Promised!NoRequest, Request, Pending, Place
  <2>5. QED
    BY <1>a, <2>4 DEF Promised!Next
<1>13. CASE UnlinkNext
  <2>1. Table' = Table \ {pKey}
    BY <1>13, UnlinkNextIInv
  <2>2. Promised!Del(pKey)
    BY <1>o, <1>13, <2>1
       DEF UnlinkNext, Goto, IInv, PlaceInv, call, Promised!Del, Promised!NoRequest, Request, Pending
  <2>3. QED
    BY <1>a, <2>2 DEF Promised!Next
<1>14. CASE UnlinkPrev
  <2>1. Table' = Table
    BY <1>14 DEF UnlinkPrev, Table, Linked
  <2>2. QED
    BY <1>0, <1>o, <1>14, <2>1 DEF UnlinkPrev, Goto, Request, Pending
<1>15. CASE Free
  BY <1>0, <1>o, <1>15, LinksStay DEF Free, Return, Leave, Goto, Request, Pending
<1>16. CASE Uncount
  BY <1>0, <1>o, <1>16, LinksStay DEF Uncount, Return, Leave, Request, Pending
<1>17. CASE Die
  <2>1. Table' = Table
    BY <1>17, LinksStay DEF Die, Return, Leave
  <2>2. Overrun' \in {Overrun, TRUE}
    BY OverrunSteps DEF Overrun
  <2>3. Promised!Die
    BY <1>17, <2>1, <2>2
       DEF Die, Return, Leave, Promised!Die, Promised!NoRequest, Request, Pending
  <2>4. QED
    BY <2>3 DEF Promised!Next
<1>18. QED
  BY <1>1, <1>2, <1>3, <1>4, <1>5, <1>7, <1>b, <1>c, <1>8, <1>9, <1>10, <1>11, <1>12, <1>13,
     <1>14, <1>15, <1>16, <1>17, <1>e
     DEF Next, Step, hasho_find, memg_alloc, hasho_link_node, hasho_unlink_node,
         memg_free

(* The chains, the scan and the two-store updates implement the abstract   *)
(* table: each call of hasho_find, hasho_add and hasho_del takes effect at *)
(* one instant; an add is refused only when keys and deaths fill the pool, *)
(* and kills the process only once a death at the wrap has ruined it.      *)
THEOREM Implements == ASSUME ~Torn PROVE Spec => ImplementsTable
<1>1. Init => Promised!Init
  BY InitImplements
<1>2. IInv /\ [Next]_vars => [Promised!Next]_(Promised!vars)
  BY StepImplements
<1>3. QED
  BY <1>1, <1>2, Invariant, PTL DEF Spec, ImplementsTable, Promised!Spec
=============================================================================
