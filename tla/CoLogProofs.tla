----------------------------- MODULE CoLogProofs -----------------------------
(***************************************************************************)
(* Proofs about CoLog, for every set of keys, size of the table and of the *)
(* wheel, any number of restarts, and updates beyond the window or not.    *)
(***************************************************************************)
EXTENDS CoLog, FiniteSetTheorems, SequenceTheorems, TLAPS

(* TimerN_Reset hangs no timer.                                            *)
LEMMA NothingHung == SetToSeq({k \in sessions : ResetTakes(k)}) = <<>>
<1>1. {k \in sessions : ResetTakes(k)} = {}
  BY DEF ResetTakes, KeyIsNull, DataIsNull
<1>2. Cardinality({}) = 0 /\ 1 .. 0 = {}
  BY FS_EmptySet
<1>3. <<>> \in [1 .. 0 -> {}] /\ IsInjective(<<>>)
  BY DEF IsInjective
<1>4. SetToSeq({}) \in [1 .. 0 -> {}]
  BY <1>2, <1>3 DEF SetToSeq
<1>5. \A f \in [1 .. 0 -> {}] : f = <<>>
  OBVIOUS
<1>6. QED
  BY <1>1, <1>4, <1>5

(* A slot is a slot.                                                       *)
LEMMA SlotType == \A t \in Wheel!Time : Wheel!timeout_func(t) \in Wheel!Slot
  BY WheelAssumption DEF Wheel!Slot, Wheel!Time, Wheel!timeout_func

(* The inductive invariant holds initially.                                *)
LEMMA InitIInv == Init => IInv
<1> SUFFICES ASSUME Init PROVE IInv
  OBVIOUS
<1> USE CoLogAssumption, WheelAssumption DEF Init, Wheel!Init
<1>1. Pending = {}
  BY DEF Pending, Wheel!Id, Wheel!NONE
<1>2. TypeOK
  BY DEF TypeOK, Wheel!TypeOK, Wheel!Time, Wheel!Id, Wheel!Slot, Wheel!NONE
<1>3. QED
  BY <1>1, <1>2 DEF IInv

-----------------------------------------------------------------------------
(* A step that moves no timer between sessions and leaves the same timers  *)
(* pending, such as a refresh, a callback's start or the poll's loop.      *)
LEMMA SameTimers ==
  ASSUME IInv, TypeOK', UNCHANGED <<sessions, pLog, arg, run, orphans>>,
         stack' # <<>> => \E id \in Wheel!Id : stack' = <<id>> /\ slot'[id] = Wheel!NONE,
         Pending' = Pending, uiTimerNIdIndex <= uiTimerNIdIndex'
  PROVE  IInv'
<1>1. \A id \in Pending' : id <= uiTimerNIdIndex' /\ arg'[id] \in sessions' \ orphans'
  <2>1. \A id \in Pending : id <= uiTimerNIdIndex
    BY DEF IInv
  <2>2. uiTimerNIdIndex \in Int /\ uiTimerNIdIndex' \in Int /\ Pending \subseteq Int
    BY WheelAssumption DEF IInv, TypeOK, Wheel!TypeOK, Pending, Wheel!Id
  <2>3. \A id \in Pending' : id <= uiTimerNIdIndex'
    BY <2>1, <2>2
  <2>4. QED
    BY <2>3 DEF IInv
<1>2. \A a, b \in Pending' : arg'[a] = arg'[b] => a = b
  BY DEF IInv
<1>3. ASSUME NEW k \in sessions' \ orphans'
      PROVE  (\E id \in Pending' : arg'[id] = k) /\ pLog'[k] \in {0, run'}
  BY <1>3 DEF IInv
<1>4. QED
  BY <1>1, <1>2, <1>3 DEF IInv

(* timerN_add for a new session k: the node it links was not pending.      *)
LEMMA CreateKeeps == ASSUME IInv, NEW k \in Key, Create(k) PROVE IInv'
<1> USE CoLogAssumption, WheelAssumption
<1> DEFINE t == clock + SessTimeout
           new == uiTimerNIdIndex + 1
<1>1. t \in Wheel!Time /\ stack = <<>> /\ k \notin sessions
  BY DEF Create, AtMessage, AtLoop, IInv, TypeOK, Wheel!TypeOK, Wheel!Time
<1>2. /\ new \in Wheel!Id /\ new \notin Pending
      /\ uiTimerNIdIndex' = new /\ stack' = stack
  BY <1>1 DEF Create, Hang, Wheel!AddLink, Wheel!AddRefused, IInv, TypeOK, Wheel!TypeOK,
     Wheel!Id
<1>3. sessions' = sessions \cup {k} /\ pLog' = [pLog EXCEPT ![k] = 0] /\ run' = run
  BY DEF Create
<1>4. CASE Wheel!AddLink(t) /\ arg' = [arg EXCEPT ![new] = k] /\ UNCHANGED orphans
           /\ TimerId' = [TimerId EXCEPT ![k] = <<new, t>>]
  <2>1. Wheel!timeout_func(t) \in Wheel!Slot
    BY <1>1, SlotType
  <2>2. slot' = [slot EXCEPT ![new] = Wheel!timeout_func(t)]
    BY <1>2, <1>4 DEF Wheel!AddLink
  <2>3. Pending' = Pending \cup {new}
    BY <1>1, <1>2, <2>1, <2>2
    DEF Pending, IInv, TypeOK, Wheel!TypeOK, Wheel!Slot, Wheel!NONE
  <2>4. TypeOK'
    BY <1>1, <1>2, <1>3, <1>4, <2>1, <2>2
    DEF Create, Wheel!AddLink, Wheel!history, IInv, TypeOK, Wheel!TypeOK, Wheel!Id, Wheel!Slot
  <2>5. /\ \A id \in Pending : arg'[id] = arg[id] /\ arg[id] \in sessions \ orphans
        /\ arg'[new] = k
    BY <1>2, <1>4 DEF IInv, TypeOK, Pending
  <2>6. orphans \subseteq sessions /\ orphans' = orphans
    BY <1>4 DEF IInv, TypeOK
  <2>7. \A id \in Pending' : id <= uiTimerNIdIndex' /\ arg'[id] \in sessions' \ orphans'
    <3>1. \A id \in Pending : id <= new
      BY DEF IInv, TypeOK, Wheel!TypeOK, Wheel!Id, Pending
    <3>2. \A id \in Pending' : id <= uiTimerNIdIndex'
      BY <1>2, <2>3, <3>1 DEF Wheel!Id
    <3>3. \A id \in Pending' : arg'[id] \in sessions' \ orphans'
      BY <1>1, <1>3, <2>3, <2>5, <2>6
    <3>4. QED
      BY <3>2, <3>3
  <2>8. \A a, b \in Pending' : arg'[a] = arg'[b] => a = b
    BY <1>1, <2>3, <2>5 DEF IInv
  <2>9. ASSUME NEW x \in sessions' \ orphans'
        PROVE  (\E id \in Pending' : arg'[id] = x) /\ pLog'[x] \in {0, run'}
    BY <1>3, <2>3, <2>5, <2>6 DEF IInv, TypeOK
  <2>10. QED
    BY <1>1, <1>2, <2>4, <2>7, <2>8, <2>9 DEF IInv
<1>5. CASE Wheel!AddRefused /\ orphans' = orphans \cup {k} /\ UNCHANGED arg
           /\ TimerId' = [TimerId EXCEPT ![k] = NoHandle]
  <2>1. Pending' = Pending
    BY <1>2, <1>5 DEF Pending, Wheel!AddRefused
  <2>2. TypeOK'
    BY <1>2, <1>3, <1>5
    DEF Create, Wheel!AddRefused, Wheel!history, IInv, TypeOK, Wheel!TypeOK, Wheel!Id
  <2>3. sessions' \ orphans' = sessions \ orphans
    BY <1>1, <1>3, <1>5
  <2>4. \A x \in sessions \ orphans : pLog'[x] = pLog[x]
    BY <1>1, <1>3 DEF IInv, TypeOK
  <2>5. \A id \in Pending : id <= uiTimerNIdIndex'
    BY <1>2 DEF IInv, TypeOK, Wheel!TypeOK, Pending, Wheel!Id
  <2>6. QED
    BY <1>1, <1>2, <1>3, <1>5, <2>1, <2>2, <2>3, <2>4, <2>5 DEF IInv
<1>6. QED
  BY <1>2, <1>4, <1>5 DEF Create, Hang

(* timerN_update for a session, old or stale handle: whichever timer moves *)
(* stays that of its session.                                              *)
LEMMA RehangKeeps ==
  ASSUME IInv, NEW k \in Key, AtMessage, Rehang(k, clock + DelTimeout),
         UNCHANGED <<sessions, pLog, tLastTime, run>>
  PROVE  IInv'
<1> USE CoLogAssumption, WheelAssumption
<1> DEFINE t == clock + DelTimeout
           id == TimerId[k][1]
<1>1. t \in Wheel!Time /\ stack = <<>> /\ tt = Wheel!NONE
  BY DEF AtMessage, AtLoop, IInv, TypeOK, Wheel!TypeOK, Wheel!Time
<1>2. UNCHANGED <<TimerId, arg, orphans>>
  BY DEF Rehang
<1>3. CASE UNCHANGED wheel
  BY <1>1, <1>2, <1>3, SameTimers DEF wheel, IInv, TypeOK, Wheel!TypeOK, Pending
<1>4. CASE Found(TimerId[k]) /\ Wheel!Update(id, t)
  <2>1. id \in Wheel!Id /\ slot[id] # Wheel!NONE
    BY <1>4 DEF Found, Wheel!Find
  <2>2. CASE Wheel!UpdateNow(id, t)
    <3>1. /\ slot' = [slot EXCEPT ![id] = Wheel!NONE] /\ stack' = <<id>> \o stack
          /\ sTimeKey' = [sTimeKey EXCEPT ![id] = t]
      BY <2>2 DEF Wheel!UpdateNow, Wheel!ChangeKey, Wheel!Push
    <3>2. stack' = <<id>>
      BY <1>1, <3>1
    <3>3. Pending' = Pending
      BY <1>1, <2>1, <3>1, <3>2 DEF Pending, IInv, TypeOK, Wheel!TypeOK
    <3>4. TypeOK'
      BY <1>1, <1>2, <2>1, <2>2, <3>1, <3>2
      DEF Wheel!UpdateNow, IInv, TypeOK, Wheel!TypeOK
    <3>5. uiTimerNIdIndex' = uiTimerNIdIndex /\ slot'[id] = Wheel!NONE
      BY <2>1, <2>2, <3>1 DEF Wheel!UpdateNow, IInv, TypeOK, Wheel!TypeOK
    <3>6. QED
      BY <1>2, <2>1, <3>2, <3>3, <3>4, <3>5, SameTimers DEF IInv, TypeOK, Wheel!TypeOK
  <2>3. CASE Wheel!UpdateMove(id, t) \/ Wheel!UpdateFar(id, t)
    <3>1. Wheel!timeout_func(t) \in Wheel!Slot
      BY <1>1, SlotType
    <3>2. /\ slot' = slot \/ slot' = [slot EXCEPT ![id] = Wheel!timeout_func(t)]
          /\ sTimeKey' = [sTimeKey EXCEPT ![id] = t]
          /\ UNCHANGED <<clock, uiCurrentTime, uiTimerNIdIndex, uiNodeCnt, tt, stack, fired, stopped>>
      BY <2>3 DEF Wheel!UpdateMove, Wheel!UpdateFar, Wheel!ChangeKey, Wheel!history
    <3>3. Pending' = Pending
      BY <1>1, <2>1, <3>1, <3>2
      DEF Pending, IInv, TypeOK, Wheel!TypeOK, Wheel!Slot, Wheel!NONE
    <3>4. TypeOK'
      BY <1>1, <1>2, <2>1, <3>1, <3>2 DEF IInv, TypeOK, Wheel!TypeOK
    <3>5. QED
      BY <1>1, <1>2, <3>2, <3>3, <3>4, SameTimers DEF IInv, TypeOK, Wheel!TypeOK
  <2>4. QED
    BY <1>4, <2>2, <2>3 DEF Wheel!Update
<1>5. QED
  BY <1>3, <1>4 DEF Rehang

(* invoke_del ends the session its timer was hung for, and no other.       *)
LEMMA CallbackKeeps == ASSUME IInv, invoke_del PROVE IInv'
<1> USE CoLogAssumption, WheelAssumption
<1>1. PICK id \in Wheel!Id : stack = <<id>> /\ slot[id] = Wheel!NONE
  BY DEF IInv, invoke_del, Wheel!Return
<1>2. Head(stack) = id /\ Tail(stack) = <<>>
  BY <1>1
<1> DEFINE k == arg[id]
<1>3. /\ sessions' = sessions \ {k} /\ orphans' = orphans \ {k}
      /\ pLog' = [pLog EXCEPT ![k] = 0] /\ TimerId' = [TimerId EXCEPT ![k] = NoHandle]
      /\ UNCHANGED <<arg, tLastTime, run>>
  BY <1>2 DEF invoke_del
<1>4. stack' = <<>> /\ UNCHANGED <<clock, uiCurrentTime, uiTimerNIdIndex, uiNodeCnt, slot,
                                   sTimeKey, tt, fired, stopped>>
  BY <1>2 DEF invoke_del, Wheel!Return, Wheel!wheel, Wheel!history
<1>5. id \in Pending /\ k \in sessions \ orphans
  BY <1>1 DEF IInv, Pending
<1>6. Pending' = Pending \ {id}
  BY <1>1, <1>4 DEF Pending
<1>7. TypeOK'
  BY <1>3, <1>4, <1>5 DEF IInv, TypeOK, Wheel!TypeOK
<1>8. ASSUME NEW x \in sessions' \ orphans'
      PROVE  (\E a \in Pending' : arg'[a] = x) /\ pLog'[x] \in {0, run'}
  BY <1>3, <1>5, <1>6 DEF IInv, TypeOK
<1>9. \A a \in Pending' : a <= uiTimerNIdIndex' /\ arg'[a] \in sessions' \ orphans'
  BY <1>3, <1>4, <1>5, <1>6 DEF IInv
<1>10. \A a, b \in Pending' : arg'[a] = arg'[b] => a = b
  BY <1>3, <1>6 DEF IInv
<1>11. QED
  BY <1>4, <1>7, <1>8, <1>9, <1>10 DEF IInv

(* A restart forgets every session: the new wheel is empty.                *)
LEMMA RestartKeeps == ASSUME IInv, Restart PROVE IInv'
<1> USE CoLogAssumption, WheelAssumption
<1>1. Len(<<>>) = 0 /\ DOMAIN <<>> = {} /\ ToSet(<<>>) = {}
  BY DEF ToSet
<1>2. /\ run < MaxRuns /\ run' = run + 1
      /\ uiCurrentTime' = clock /\ uiTimerNIdIndex' = 1 /\ uiNodeCnt' = 0
      /\ slot' = [id \in Wheel!Id |-> Wheel!NONE]
      /\ sTimeKey' = [id \in Wheel!Id |-> 0]
      /\ arg' = [id \in Wheel!Id |-> NoKey]
      /\ TimerId' = [k \in Key |-> TimerId[k]]
      /\ tt' = Wheel!NONE /\ stack' = <<>> /\ fired' = {} /\ stopped' = {}
      /\ tLastTime' = clock /\ orphans' = sessions
      /\ UNCHANGED <<sessions, pLog, clock>>
  <2>1. /\ run < MaxRuns /\ run' = run + 1 /\ uiCurrentTime' = clock
        /\ tt' = Wheel!NONE /\ stack' = <<>> /\ fired' = {} /\ stopped' = {}
        /\ tLastTime' = clock /\ UNCHANGED <<sessions, pLog, clock>>
    BY DEF Restart
  <2>2. uiTimerNIdIndex' = 0 + 1 /\ uiNodeCnt' = 0 /\ orphans' = sessions \ {}
    BY <1>1, NothingHung DEF Restart
  <2>3. /\ slot' = [id \in Wheel!Id |-> Wheel!NONE]
        /\ sTimeKey' = [id \in Wheel!Id |-> 0]
        /\ arg' = [id \in Wheel!Id |-> NoKey]
    BY <1>1, NothingHung DEF Restart
  <2>4. TimerId' = [k \in Key |-> TimerId[k]]
    BY <1>1, NothingHung DEF Restart
  <2>5. QED
    BY <2>1, <2>2, <2>3, <2>4
<1>3. Pending' = {}
  BY <1>2 DEF Pending
<1>4. TypeOK'
  BY <1>2 DEF IInv, TypeOK, Wheel!TypeOK, Wheel!Id, Wheel!Time
<1>5. QED
  BY <1>2, <1>3, <1>4 DEF IInv

(* The steps of the poll's loop, and the clock.                            *)
LEMMA LoopKeeps ==
  ASSUME IInv, Poll \/ NextSecond \/ Tick \/ UNCHANGED vars
  PROVE  IInv'
<1> USE CoLogAssumption, WheelAssumption
<1>1. UNCHANGED <<sessions, TimerId, pLog, arg, run, orphans, uiTimerNIdIndex, uiNodeCnt, slot, sTimeKey, stack,
                  fired, stopped>>
  BY DEF Poll, NextSecond, Tick, vars, table, wheel, Wheel!InvokeStart, Wheel!NextSecond,
     Wheel!Tick, Wheel!wheel, Wheel!history
<1>2. /\ clock' \in Wheel!Time /\ uiCurrentTime' \in Wheel!Time \cup {MaxTime + 1}
      /\ tt' \in Wheel!Time \cup {Wheel!NONE} /\ tLastTime' \in Wheel!Time
  <2> USE DEF IInv, TypeOK, Wheel!TypeOK
  <2>1. CASE Poll
    BY <2>1 DEF Poll, Wheel!InvokeStart, Wheel!wheel
  <2>2. CASE NextSecond
    <3>1. /\ tt \in Wheel!Time /\ uiCurrentTime \in Nat /\ uiCurrentTime <= tt
          /\ uiCurrentTime' = uiCurrentTime + 1 /\ clock' = clock
          /\ tt' \in {tt, Wheel!NONE} /\ tLastTime' \in {clock, tLastTime}
      BY <2>2 DEF NextSecond, Wheel!NextSecond, Wheel!Looping, Wheel!Time
    <3>2. QED
      BY <3>1 DEF Wheel!Time
  <2>3. CASE Tick
    BY <2>3 DEF Tick, Wheel!Tick, Wheel!wheel, Wheel!Time
  <2>4. CASE UNCHANGED vars
    BY <2>4 DEF vars, wheel
  <2>5. QED
    BY <2>1, <2>2, <2>3, <2>4
<1>3. TypeOK'
  BY <1>1, <1>2 DEF IInv, TypeOK, Wheel!TypeOK
<1>4. QED
  BY <1>1, <1>3, SameTimers DEF IInv, Pending, TypeOK, Wheel!TypeOK

(* A timer's callback begins: it stays the timer of its session.           *)
LEMMA DrainKeeps == ASSUME IInv, NEW id \in Wheel!Id, Drain(id) PROVE IInv'
<1> USE CoLogAssumption, WheelAssumption
<1>1. /\ stack = <<>> /\ slot[id] = uiCurrentTime % NDay
      /\ stack' = <<id>> \o stack
      /\ slot' = [slot EXCEPT ![id] = Wheel!NONE]
  BY DEF Drain, Wheel!Drain, Wheel!Looping, Wheel!Chain, Wheel!Push
<1>2. stack' = <<id>> /\ slot'[id] = Wheel!NONE
  BY <1>1 DEF IInv, TypeOK, Wheel!TypeOK
<1>3. slot[id] # Wheel!NONE
  <2>1. uiCurrentTime \in Nat
    BY DEF IInv, TypeOK, Wheel!TypeOK, Wheel!Time
  <2>2. uiCurrentTime % NDay \in Nat
    BY <2>1
  <2>3. QED
    BY <1>1, <2>2 DEF Wheel!NONE
<1>4. Pending' = Pending
  BY <1>1, <1>2, <1>3 DEF Pending, IInv, TypeOK, Wheel!TypeOK
<1>5. TypeOK'
  BY <1>1, <1>2 DEF Drain, Wheel!Drain, table, IInv, TypeOK, Wheel!TypeOK
<1>6. QED
  BY <1>2, <1>4, <1>5, SameTimers DEF Drain, Wheel!Drain, table, IInv, TypeOK, Wheel!TypeOK

(* The first log copy of a session belongs to this run.                    *)
LEMMA LogKeeps == ASSUME IInv, NEW k \in Key, Set_HashoData_Log(k) PROVE IInv'
<1>1. /\ pLog' = [pLog EXCEPT ![k] = run]
      /\ UNCHANGED <<sessions, TimerId, arg, tLastTime, run, orphans, wheel>>
  BY DEF Set_HashoData_Log
<1>2. UNCHANGED <<clock, uiCurrentTime, uiTimerNIdIndex, uiNodeCnt, slot, sTimeKey, tt, stack, fired, stopped>>
  BY <1>1 DEF wheel
<1>3. TypeOK'
  BY <1>1, <1>2, CoLogAssumption DEF IInv, TypeOK, Wheel!TypeOK
<1>4. Pending' = Pending
  BY <1>2 DEF Pending
<1>5. \A x \in sessions : pLog'[x] \in {pLog[x], run}
  BY <1>1 DEF IInv, TypeOK
<1>6. QED
  BY <1>1, <1>2, <1>3, <1>4, <1>5 DEF IInv

(* Every step keeps the inductive invariant.                               *)
LEMMA NextIInv == IInv /\ [Next]_vars => IInv'
<1> SUFFICES ASSUME IInv, [Next]_vars PROVE IInv'
  OBVIOUS
<1>1. ASSUME NEW k \in Key, Refresh(k) \/ HashTimer_Del(k) PROVE IInv'
  BY <1>1, RehangKeeps DEF Refresh, HashTimer_Del
<1>2. CASE Message
  BY <1>1, <1>2, CreateKeeps, LogKeeps DEF Message, HashTimer_Add
<1>3. CASE Invoke
  BY <1>3, CallbackKeeps, DrainKeeps, LoopKeeps DEF Invoke
<1>4. CASE Tick \/ UNCHANGED vars
  BY <1>4, LoopKeeps
<1>5. CASE Restart
  BY <1>5, RestartKeeps
<1>6. QED
  BY <1>2, <1>3, <1>4, <1>5 DEF Next

-----------------------------------------------------------------------------
(* The pending timers and the sessions that are not forgotten correspond   *)
(* one to one, whatever stale handles move, across every restart.          *)
THEOREM Invariant == Spec => []IInv
  BY InitIInv, NextIInv, PTL DEF Spec

(* Every variable of CO_LOG keeps its type.                                *)
THEOREM TypeCorrect == Spec => []TypeOK
<1>1. IInv => TypeOK
  BY DEF IInv
<1>2. QED
  BY <1>1, Invariant, PTL

(* A session has its timer in the wheel or its callback running, unless    *)
(* its timer was refused or went with an earlier run.                      *)
THEOREM SessionsHaveTimers == Spec => []SessionHasTimer
<1>1. IInv => SessionHasTimer
  BY DEF IInv, SessionHasTimer, Pending, TimersOf, Called, Wheel!Linked
<1>2. QED
  BY <1>1, Invariant, PTL

(* No session has two timers, and none is left to a session that ended.    *)
THEOREM OneTimer == Spec => []OneTimerEach
<1>1. ASSUME IInv, NEW k \in Key
      PROVE  /\ Cardinality(TimersOf(k)) <= 1
             /\ TimersOf(k) # {} \/ Called(k) => k \in sessions
             /\ Called(k) => TimersOf(k) = {}
  <2>1. TimersOf(k) \subseteq Pending /\ \A a, b \in TimersOf(k) : a = b
    BY <1>1 DEF IInv, TimersOf, Pending, Wheel!Linked
  <2>2. TimersOf(k) = {} \/ \E a : TimersOf(k) = {a}
    BY <2>1
  <2>3. Cardinality(TimersOf(k)) <= 1
    <3>1. Cardinality({}) = 0 /\ \A a : Cardinality({a}) = 1
      BY FS_EmptySet, FS_Singleton
    <3>2. Cardinality(TimersOf(k)) \in {0, 1}
      BY <2>2, <3>1
    <3>3. QED
      BY <3>2
  <2>4. ASSUME Called(k)
        PROVE  \E id \in Pending : arg[id] = k /\ slot[id] = Wheel!NONE
    BY <1>1, <2>4 DEF IInv, Called, Pending
  <2>5. Called(k) => TimersOf(k) = {}
    BY <1>1, <2>1, <2>4 DEF IInv, TimersOf, Wheel!Linked
  <2>6. TimersOf(k) # {} \/ Called(k) => k \in sessions
    BY <1>1, <2>1, <2>4 DEF IInv, TimersOf
  <2>7. QED
    BY <2>3, <2>5, <2>6
<1>2. IInv => OneTimerEach
  BY <1>1 DEF OneTimerEach
<1>3. QED
  BY <1>2, Invariant, PTL

(* The callback frees no pointer of an earlier run of the process.         *)
THEOREM FreesItsOwn == Spec => NoDanglingFree
<1>1. ASSUME IInv, invoke_del, NEW k \in sessions \ sessions'
      PROVE  pLog[k] \in {0, run}
  <2>1. PICK id \in Wheel!Id : stack = <<id>>
    BY <1>1 DEF IInv, invoke_del, Wheel!Return
  <2>2. k = arg[id]
    BY <1>1, <2>1 DEF invoke_del
  <2>3. QED
    BY <1>1, <2>1, <2>2 DEF IInv, Pending
<1>2. IInv /\ [Next]_vars => [invoke_del => \A k \in sessions \ sessions' : pLog[k] \in {0, run}]_vars
  BY <1>1
<1>3. QED
  BY <1>2, Invariant, PTL DEF Spec, NoDanglingFree
==============================================================================
