---------------------------- MODULE TimerNProofs ----------------------------
(***************************************************************************)
(* Proofs about TimerN, for every size of the wheel, of the hash table and *)
(* of the bounds, when no update goes beyond the window.                   *)
(***************************************************************************)
EXTENDS TimerN, FiniteSetTheorems, TLAPS

(* Two seconds less than a turn apart in the same slot are the same.       *)
LEMMA SlotUnique ==
  ASSUME NEW a \in Int, NEW b \in Int, a <= b, b < a + NDay, a % NDay = b % NDay
  PROVE  a = b
<1> DEFINE q == a \div NDay
           r == b \div NDay
<1>1. NDay \in Nat \ {0}
  BY TimerNAssumption
<1>2. q \in Int /\ r \in Int /\ a = NDay * q + (a % NDay) /\ b = NDay * r + (b % NDay)
  BY <1>1
<1>3. b - a = NDay * (r - q)
  BY <1>1, <1>2
<1>4. r - q \in Int
  BY <1>2
<1> HIDE DEF q, r
<1>5. \A k \in Int : 0 <= NDay * k /\ NDay * k < NDay => k = 0
  BY <1>1
<1>6. QED
  BY <1>1, <1>3, <1>4, <1>5

(* A slot is a slot.                                                       *)
LEMMA SlotType == \A t \in Time : t % NDay \in Slot
  BY TimerNAssumption DEF Slot, Time

(* The linked nodes are finitely many.                                     *)
LEMMA LinkedFinite == IsFiniteSet(Linked)
<1>1. IsFiniteSet(2 .. MaxId)
  BY FS_Interval, TimerNAssumption
<1>2. Linked \subseteq 2 .. MaxId
  BY DEF Linked, Id
<1>3. QED
  BY <1>1, <1>2, FS_Subset

(* Unlinking a node takes one off the count.                               *)
LEMMA Unlinked ==
  ASSUME NEW id \in Linked, Linked' = Linked \ {id}
  PROVE  Cardinality(Linked)' = Cardinality(Linked) - 1
  BY LinkedFinite, FS_RemoveElement

(* Linking a node adds one.                                                *)
LEMMA LinkedOneMore ==
  ASSUME NEW id \in Id, id \notin Linked, Linked' = Linked \cup {id}
  PROVE  Cardinality(Linked)' = Cardinality(Linked) + 1
  BY LinkedFinite, FS_AddElement
-----------------------------------------------------------------------------
(* The inductive invariant holds initially.                                *)
LEMMA InitIInv == Init => IInv
<1> SUFFICES ASSUME Init PROVE IInv
  OBVIOUS
<1> USE TimerNAssumption DEF Init
<1>1. TypeOK
  BY DEF TypeOK, Time, Id, Slot, NONE
<1>2. Linked = {}
  BY DEF Linked
<1>3. WheelOrdered /\ NeverAgain /\ FreshIds
  BY <1>2 DEF WheelOrdered, NeverAgain, FreshIds
<1>4. CountsAgree
  BY <1>2, FS_EmptySet DEF CountsAgree
<1>5. WheelFollowsClock
  BY DEF WheelFollowsClock
<1>6. QED
  BY <1>1, <1>3, <1>4, <1>5 DEF IInv

(* Every step keeps the inductive invariant, callbacks included.           *)
LEMMA NextIInv ==
  ASSUME ~FarUpdates, IInv, [Next]_vars
  PROVE  IInv'
<1> USE TimerNAssumption DEF IInv, TypeOK, WheelFollowsClock, Time, Id, Slot, NONE
<1> DEFINE WheelKept == slot' = slot /\ sTimeKey' = sTimeKey /\ uiNodeCnt' = uiNodeCnt
                        /\ fired' = fired /\ uiTimerNIdIndex' >= uiTimerNIdIndex
<1>1. ASSUME WheelKept, stopped' = stopped, uiCurrentTime' = uiCurrentTime
      PROVE  (WheelOrdered /\ CountsAgree /\ NeverAgain)'
  BY <1>1 DEF WheelOrdered, CountsAgree, NeverAgain, Linked, timeout_func
<1>2. ASSUME NEW t \in Time, AddNow(t) PROVE IInv'
  <2>1. (WheelOrdered /\ CountsAgree /\ NeverAgain)'
    BY <1>1, <1>2 DEF AddNow, wheel, history
  <2>2. QED
    BY <2>1, <1>2 DEF AddNow, wheel, history, Push, FreshIds, Linked, Given
<1>3. ASSUME NEW t \in Time, AddLink(t) PROVE IInv'
  <2> DEFINE new == uiTimerNIdIndex + 1
  <2>1. new \in Id /\ new \notin Linked \cup fired \cup stopped
    BY <1>3 DEF AddLink, FreshIds, Given
  <2>2. t % NDay \in 0 .. NDay - 1
    BY SlotType, Zenon
  <2>3. TypeOK'
    BY <1>3, <2>1, <2>2 DEF AddLink, timeout_func, history
  <2>4. slot' = [slot EXCEPT ![new] = t % NDay] /\ sTimeKey' = [sTimeKey EXCEPT ![new] = t]
    BY <1>3 DEF AddLink, timeout_func
  <2>5. Linked' = Linked \cup {new}
    BY <2>1, <2>2, <2>4 DEF Linked
  <2>6. WheelOrdered'
    <3>1. uiCurrentTime' = uiCurrentTime /\ uiCurrentTime < t /\ t <= uiCurrentTime + NDay - OneMinute
      BY <1>3 DEF AddLink, InWindow
    <3>2. ASSUME NEW n \in Linked'
          PROVE  /\ slot'[n] = sTimeKey'[n] % NDay
                 /\ uiCurrentTime <= sTimeKey'[n]
                 /\ sTimeKey'[n] <= uiCurrentTime + NDay - OneMinute
      <4>1. CASE n = new
        <5>1. slot'[n] = t % NDay /\ sTimeKey'[n] = t
          BY <2>1, <2>4, <4>1
        <5>2. QED
          BY <3>1, <5>1
      <4>2. CASE n # new
        <5>1. n \in Linked /\ slot'[n] = slot[n] /\ sTimeKey'[n] = sTimeKey[n]
          BY <2>4, <2>5, <4>2 DEF Linked
        <5>2. QED
          BY <5>1 DEF WheelOrdered, timeout_func
      <4>3. QED
        BY <4>1, <4>2
    <3>3. QED
      BY <3>1, <3>2 DEF WheelOrdered, timeout_func
  <2>7. CountsAgree'
    BY <1>3, <2>1, <2>5, LinkedOneMore DEF AddLink, CountsAgree
  <2>8. (NeverAgain /\ FreshIds)'
    BY <1>3, <2>1, <2>5 DEF AddLink, history, NeverAgain, FreshIds, Given
  <2>9. WheelFollowsClock'
    BY <1>3 DEF AddLink
  <2>10. QED
    BY <2>3, <2>6, <2>7, <2>8, <2>9
<1>4. CASE AddRefused
  <2>1. (WheelOrdered /\ CountsAgree /\ NeverAgain)'
    BY <1>1, <1>4 DEF AddRefused, history
  <2>2. QED
    BY <2>1, <1>4 DEF AddRefused, history, FreshIds, Linked, Given
<1>5. ASSUME NEW id \in Id, id \in Given, NEW S, stopped' \cup fired' = S,
             S = stopped \cup fired \cup {id},
             slot' = [slot EXCEPT ![id] = NONE], id \in Linked,
             uiNodeCnt' = uiNodeCnt - 1, \A n \in Id \ {id} : sTimeKey'[n] = sTimeKey[n],
             uiCurrentTime' = uiCurrentTime, uiTimerNIdIndex' = uiTimerNIdIndex
      PROVE  (WheelOrdered /\ CountsAgree /\ NeverAgain /\ FreshIds)'
  <2>1. Linked' = Linked \ {id}
    BY <1>5 DEF Linked
  <2>2. CountsAgree'
    BY <1>5, <2>1, Unlinked DEF CountsAgree
  <2>3. WheelOrdered'
    BY <1>5, <2>1 DEF WheelOrdered, Linked, timeout_func
  <2>4. (NeverAgain /\ FreshIds)'
    BY <1>5, <2>1 DEF NeverAgain, FreshIds, Given
  <2>5. QED
    BY <2>2, <2>3, <2>4
<1>6. ASSUME NEW id \in Id, Del(id) PROVE IInv'
  <2>1. CASE Find(id)
    <3>1. (WheelOrdered /\ CountsAgree /\ NeverAgain /\ FreshIds)'
      BY <1>5, <1>6, <2>1 DEF Del, Find, Linked
    <3>2. QED
      BY <1>6, <2>1, <3>1 DEF Del
  <2>2. CASE ~Find(id)
    <3>1. id \notin Linked
      BY <2>2 DEF Find, WheelOrdered, Linked
    <3>2. (WheelOrdered /\ CountsAgree)'
      BY <1>6, <2>2 DEF Del, WheelOrdered, CountsAgree, Linked, timeout_func
    <3>3. (NeverAgain /\ FreshIds)'
      BY <1>6, <2>2, <3>1 DEF Del, NeverAgain, FreshIds, Linked, Given
    <3>4. QED
      BY <1>6, <2>2, <3>2, <3>3 DEF Del
  <2>3. QED
    BY <2>1, <2>2
<1>7. ASSUME NEW id \in Id, NEW t \in Time, UpdateNow(id, t) PROVE IInv'
  <2>1. (WheelOrdered /\ CountsAgree /\ NeverAgain /\ FreshIds)'
    BY <1>5, <1>7 DEF UpdateNow, ChangeKey, Find, Linked
  <2>2. QED
    BY <1>7, <2>1 DEF UpdateNow, ChangeKey, Push
<1>8. ASSUME NEW id \in Id, NEW t \in Time, UpdateMove(id, t) PROVE IInv'
  <2>1. t % NDay \in 0 .. NDay - 1
    BY SlotType, Zenon
  <2>2. slot' = [slot EXCEPT ![id] = t % NDay] /\ sTimeKey' = [sTimeKey EXCEPT ![id] = t]
    BY <1>8 DEF UpdateMove, ChangeKey, timeout_func
  <2>3. Linked' = Linked
    BY <1>8, <2>1, <2>2 DEF UpdateMove, ChangeKey, Find, Linked
  <2>4. WheelOrdered'
    BY <1>8, <2>2, <2>3 DEF UpdateMove, InWindow, WheelOrdered, Linked, timeout_func
  <2>5. (CountsAgree /\ NeverAgain /\ FreshIds)'
    BY <1>8, <2>3 DEF UpdateMove, history, CountsAgree, NeverAgain, FreshIds, Given
  <2>6. QED
    BY <1>8, <2>1, <2>2, <2>4, <2>5 DEF UpdateMove, history
<1>9. ASSUME NEW id \in Id, NEW t \in Time, UpdateFar(id, t) PROVE IInv'
  BY <1>9 DEF UpdateFar
<1>10. CASE InvokeStart
  <2>1. (WheelOrdered /\ CountsAgree /\ NeverAgain)'
    BY <1>1, <1>10 DEF InvokeStart, wheel, history
  <2>2. QED
    BY <2>1, <1>10 DEF InvokeStart, wheel, history, FreshIds, Linked, Given
<1>11. ASSUME NEW id \in Id, Drain(id) PROVE IInv'
  <2>1. id \in Linked
    BY <1>11, SlotType DEF Drain, Chain, Linked, WheelOrdered
  <2>2. id \in Given
    BY <2>1 DEF FreshIds
  <2>3. (WheelOrdered /\ CountsAgree /\ NeverAgain /\ FreshIds)'
    BY <1>5, <1>11, <2>1, <2>2 DEF Drain
  <2>4. QED
    BY <1>11, <2>3 DEF Drain, Push, Looping
<1>12. CASE NextSecond
  <2>1. \A id \in Linked : sTimeKey[id] # uiCurrentTime
    BY <1>12 DEF NextSecond, Chain, Linked, WheelOrdered, timeout_func
  <2>2. WheelOrdered'
    BY <1>12, <2>1 DEF NextSecond, WheelOrdered, Linked, timeout_func
  <2>3. (CountsAgree /\ NeverAgain /\ FreshIds)'
    BY <1>12 DEF NextSecond, history, CountsAgree, NeverAgain, FreshIds, Linked, Given
  <2>4. QED
    BY <1>12, <2>2, <2>3 DEF NextSecond, history, Looping
<1>13. CASE Return
  <2>1. (WheelOrdered /\ CountsAgree /\ NeverAgain)'
    BY <1>1, <1>13 DEF Return, wheel, history
  <2>2. Tail(stack) \in Seq(Id \cup {NONE})
    BY <1>13 DEF Return
  <2>3. QED
    BY <2>1, <2>2, <1>13 DEF Return, wheel, history, FreshIds, Linked, Given
<1>14. CASE Tick
  <2>1. (WheelOrdered /\ CountsAgree /\ NeverAgain)'
    BY <1>1, <1>14 DEF Tick, wheel, history
  <2>2. QED
    BY <2>1, <1>14 DEF Tick, wheel, history, FreshIds, Linked, Given
<1>15. CASE UNCHANGED vars
  <2>1. (WheelOrdered /\ CountsAgree /\ NeverAgain)'
    BY <1>1, <1>15 DEF vars, wheel, history
  <2>2. QED
    BY <2>1, <1>15 DEF vars, wheel, history, FreshIds, Linked, Given
<1>16. QED
  BY <1>2, <1>3, <1>4, <1>6, <1>7, <1>8, <1>9, <1>10, <1>11, <1>12, <1>13, <1>14, <1>15
     DEF Next, Add, Update, Invoke

(* The inductive invariant always holds.                                   *)
THEOREM InvariantHolds == ASSUME ~FarUpdates PROVE Spec => []IInv
<1>1. IInv /\ [Next]_vars => IInv'
  BY NextIInv
<1>2. QED
  BY <1>1, InitIInv, PTL DEF Spec

(* Every variable keeps its type.                                          *)
THEOREM TimerTypes == ASSUME ~FarUpdates PROVE Spec => []TypeOK
<1>1. IInv => TypeOK
  BY DEF IInv
<1>2. QED
  BY <1>1, InvariantHolds, PTL

(* No timer is passed over, none is met a turn too early, and every handle *)
(* finds its timer, for every size of the wheel and depth of callbacks.    *)
THEOREM WheelCorrect == ASSUME ~FarUpdates PROVE Spec => []WheelOrdered
<1>1. IInv => WheelOrdered
  BY DEF IInv
<1>2. QED
  BY <1>1, InvariantHolds, PTL

(* uiNodeCnt is exact.                                                     *)
THEOREM CountCorrect == ASSUME ~FarUpdates PROVE Spec => []CountsAgree
<1>1. IInv => CountsAgree
  BY DEF IInv
<1>2. QED
  BY <1>1, InvariantHolds, PTL

(* A timer that is over does not come back.                                *)
THEOREM OverIsOver == ASSUME ~FarUpdates PROVE Spec => []NeverAgain
<1>1. IInv => NeverAgain
  BY DEF IInv
<1>2. QED
  BY <1>1, InvariantHolds, PTL

(* The wheel never gets ahead of the clock by more than the one second its *)
(* constructor starts it with, however long a poll takes.                  *)
THEOREM ClockFollowed == ASSUME ~FarUpdates PROVE Spec => []WheelFollowsClock
<1>1. IInv => WheelFollowsClock
  BY DEF IInv
<1>2. QED
  BY <1>1, InvariantHolds, PTL

(* The node at the head of a chain is due at this very second.             *)
LEMMA DrainDue ==
  ASSUME IInv, NEW id \in Id, Drain(id)
  PROVE  sTimeKey[id] = uiCurrentTime /\ sTimeKey[id] <= clock
<1> USE TimerNAssumption DEF IInv, TypeOK
<1>1. id \in Linked
  BY SlotType DEF Drain, Chain, Linked, Slot, NONE, Time
<1>2. uiCurrentTime \in Int /\ sTimeKey[id] \in Int /\ clock \in Int
  BY DEF Time
<1>3. uiCurrentTime % NDay = sTimeKey[id] % NDay
  BY <1>1 DEF Drain, Chain, WheelOrdered, timeout_func
<1>4. uiCurrentTime <= sTimeKey[id] /\ sTimeKey[id] < uiCurrentTime + NDay
  BY <1>1, <1>2 DEF WheelOrdered
<1>5. sTimeKey[id] = uiCurrentTime
  BY <1>2, <1>3, <1>4, SlotUnique
<1>6. uiCurrentTime <= tt /\ tt <= clock
  BY DEF Drain, Looping, WheelFollowsClock
<1>7. QED
  BY <1>5, <1>6 DEF Time, NONE

(* Timers fire at their second, and not before the clock reaches it.       *)
THEOREM FiringCorrect == ASSUME ~FarUpdates PROVE Spec => FiresWhenDue
<1>1. IInv /\ [Next]_vars =>
        [\A id \in Id : Drain(id) => sTimeKey[id] = uiCurrentTime /\ sTimeKey[id] <= clock]_vars
  BY DrainDue
<1>2. QED
  BY <1>1, InvariantHolds, PTL DEF Spec, FiresWhenDue

-----------------------------------------------------------------------------
(* Refinement                                                              *)

Due == [id \in Id |-> IF slot[id] = NONE THEN NONE ELSE sTimeKey[id]]

(* A step that leaves the wheel alone is a stutter of TimerSpec.           *)
LEMMA WheelStutters ==
  ASSUME UNCHANGED <<uiCurrentTime, slot, sTimeKey, fired, stopped>>
  PROVE  UNCHANGED Timers!vars
  BY DEF Timers!vars

(* Every step of TimerN is a step of TimerSpec or a stutter.               *)
LEMMA NextImplementsTimers ==
  ASSUME ~FarUpdates, IInv, [Next]_vars
  PROVE  [Timers!Next]_Timers!vars
<1> USE TimerNAssumption DEF IInv, TypeOK
<1>1. ASSUME NEW t \in Time, AddNow(t) PROVE UNCHANGED Timers!vars
  BY <1>1, WheelStutters DEF AddNow, wheel, history
<1>2. ASSUME NEW t \in Time, AddLink(t) PROVE \E id \in Id : Timers!Set(id, t)
  <2> DEFINE new == uiTimerNIdIndex + 1
  <2>1. new \in Id /\ new \notin Linked \cup fired \cup stopped
    BY <1>2 DEF AddLink, FreshIds, Given, Id
  <2>2. t % NDay # NONE
    BY SlotType DEF Slot, NONE
  <2>3. slot' = [slot EXCEPT ![new] = t % NDay] /\ sTimeKey' = [sTimeKey EXCEPT ![new] = t]
    BY <1>2 DEF AddLink, timeout_func
  <2>4. slot[new] = NONE
    BY <2>1 DEF Linked
  <2>5. Due[new] = NONE
    BY <2>1, <2>4 DEF Due
  <2>6. Due' = [Due EXCEPT ![new] = t]
    BY <2>1, <2>2, <2>3 DEF Due
  <2>7. uiCurrentTime < t /\ UNCHANGED <<uiCurrentTime, fired, stopped>>
    BY <1>2 DEF AddLink, history
  <2>8. QED
    BY <2>1, <2>5, <2>6, <2>7 DEF Timers!Set, Due, Time
<1>3. CASE AddRefused
  BY <1>3, WheelStutters DEF AddRefused, history
<1>4. ASSUME NEW id \in Id, Del(id) PROVE Timers!Stop(id)
  <2>1. slot[id] # NONE <=> Find(id)
    BY DEF Find, WheelOrdered, Linked
  <2>2. Due' = [Due EXCEPT ![id] = NONE]
    BY <1>4, <2>1 DEF Del, Due
  <2>3. QED
    BY <1>4, <2>2 DEF Del, Timers!Stop, Due
<1>5. ASSUME NEW id \in Id, NEW t \in Time, UpdateNow(id, t) PROVE Timers!Stop(id)
  <2>1. Due' = [Due EXCEPT ![id] = NONE]
    BY <1>5 DEF UpdateNow, ChangeKey, Due
  <2>2. QED
    BY <1>5, <2>1 DEF UpdateNow, Timers!Stop, Due
<1>6. ASSUME NEW id \in Id, NEW t \in Time, UpdateMove(id, t) PROVE Timers!Move(id, t)
  <2>1. t % NDay # NONE
    BY SlotType DEF Slot, NONE
  <2>2. Due' = [Due EXCEPT ![id] = t]
    BY <1>6, <2>1 DEF UpdateMove, ChangeKey, timeout_func, Due
  <2>3. Due[id] # NONE
    BY <1>6 DEF UpdateMove, ChangeKey, Find, Due, Time, NONE
  <2>4. uiCurrentTime < t /\ UNCHANGED <<uiCurrentTime, fired, stopped>>
    BY <1>6 DEF UpdateMove, history
  <2>5. QED
    BY <2>2, <2>3, <2>4 DEF Timers!Move, Due, Time
<1>7. ASSUME NEW id \in Id, NEW t \in Time, UpdateFar(id, t) PROVE FALSE
  BY <1>7 DEF UpdateFar
<1>8. CASE InvokeStart
  BY <1>8, WheelStutters DEF InvokeStart, wheel, history
<1>9. ASSUME NEW id \in Id, Drain(id) PROVE Timers!Fire(id)
  <2>1. id \in Linked
    BY <1>9, SlotType DEF Drain, Chain, Linked, Slot, NONE, Time
  <2>2. Due[id] = uiCurrentTime
    BY <1>9, <2>1, DrainDue DEF Due, Linked
  <2>3. id \notin fired \cup stopped
    BY <2>1 DEF NeverAgain
  <2>4. Due' = [Due EXCEPT ![id] = NONE]
    BY <1>9 DEF Drain, Due
  <2>5. QED
    BY <1>9, <2>2, <2>3, <2>4 DEF Drain, Timers!Fire, Due
<1>10. CASE NextSecond
  <2>1. \A id \in Id : Due[id] # uiCurrentTime
    BY <1>10 DEF NextSecond, Chain, Due, Linked, WheelOrdered, timeout_func, Time, NONE
  <2>2. Due' = Due /\ uiCurrentTime' = uiCurrentTime + 1 /\ UNCHANGED <<fired, stopped>>
    BY <1>10 DEF NextSecond, history, Due
  <2>3. QED
    BY <2>1, <2>2 DEF Timers!Pass, Timers!Next, Due
<1>11. CASE Return
  BY <1>11, WheelStutters DEF Return, wheel, history
<1>12. CASE Tick
  BY <1>12, WheelStutters DEF Tick, wheel, history
<1>13. CASE UNCHANGED vars
  BY <1>13, WheelStutters DEF vars, wheel, history
<1>14. QED
  BY <1>1, <1>2, <1>3, <1>4, <1>5, <1>6, <1>7, <1>8, <1>9, <1>10, <1>11, <1>12, <1>13
     DEF Next, Add, Update, Invoke, Timers!Next

(* The wheel keeps the promise of TimerSpec.                               *)
THEOREM TimersImplemented == ASSUME ~FarUpdates PROVE Spec => ImplementsTimers
<1>1. Init => Timers!Init
  BY TimerNAssumption DEF Init, Timers!Init, Time
<1>2. IInv /\ [Next]_vars => [Timers!Next]_Timers!vars
  BY NextImplementsTimers
<1>3. QED
  BY <1>1, <1>2, InvariantHolds, PTL DEF Spec, ImplementsTimers, Timers!Spec
=============================================================================
