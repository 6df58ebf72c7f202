------------------------------- MODULE TimerN -------------------------------
(***************************************************************************)
(* The one-day timer wheel of ref_lib/timerN/timerN.c over the hash table  *)
(* of ref_lib/hashg/hash.c.  One process runs it (README.TXT:33); what is  *)
(* hard is that timerN_invoke, timerN_add and timerN_update call back into *)
(* their user, who may add, delete and update timers from the callback,    *)
(* and that the clock moves on meanwhile.                                  *)
(*                                                                         *)
(* Abstractions.  A node is the index in its key, uiTimerNIdIndex, which   *)
(* timerN_add never uses twice; the handle of node id is the pair of id    *)
(* and sTimeKey[id], as last returned.  A hash chain is the set of nodes   *)
(* with the same slot: keys differ, so the order in a chain only decides   *)
(* the order of callbacks within a second, which is left open.  malloc'ed  *)
(* chain heads are taken as empty: 24*3600 pointers come zeroed from mmap. *)
(* A callback does not call timerN_invoke.                                 *)
(***************************************************************************)
EXTENDS Integers, Sequences, FiniteSets

CONSTANTS
  NDay,          (* N_DAY, the number of slots of the wheel, in seconds    *)
  OneMinute,     (* ONE_MINUTE, the part of the wheel add keeps clear      *)
  HashMax,       (* MaxNodeCnt of the hash table (uiHashSize*10 in C)      *)
  StartTime,     (* time(0) when timerN_init ran                           *)
  MaxTime,       (* bound: the clock and all timeouts                      *)
  MaxId,         (* bound: uiTimerNIdIndex                                 *)
  MaxDepth,      (* bound: callbacks that have not returned                *)
  FarUpdates     (* TRUE: users may update a timer to beyond the window    *)

ASSUME TimerNAssumption ==
  /\ OneMinute \in Nat \ {0} /\ NDay \in Nat /\ OneMinute < NDay
  /\ HashMax \in Nat
  /\ StartTime \in Nat /\ MaxTime \in Nat /\ StartTime <= MaxTime
  /\ MaxId \in Nat /\ MaxDepth \in Nat
  /\ FarUpdates \in BOOLEAN

Time == 0 .. MaxTime
Id == 2 .. MaxId
Slot == 0 .. NDay - 1
NONE == -1

VARIABLES
  clock,            (* time(0)                                             *)
  uiCurrentTime,    (* the second timerN_invoke looks at next              *)
  uiTimerNIdIndex,  (* the index given last                                *)
  uiNodeCnt,        (* timerN's count of its nodes                         *)
  slot,             (* per node: the chain it is linked in, or NONE        *)
  sTimeKey,         (* per node: the time in its key                       *)
  tt,               (* the local tt of timerN_invoke, or NONE              *)
  stack,            (* nodes whose callbacks run, innermost first; NONE    *)
                    (* stands for a callback timerN_add made               *)
  fired,            (* history: nodes whose time came                      *)
  stopped           (* history: nodes timerN_del was called for, or that   *)
                    (* timerN_update moved into the past                   *)

wheel == <<uiCurrentTime, uiTimerNIdIndex, uiNodeCnt, slot, sTimeKey>>
history == <<fired, stopped>>
vars == <<clock, wheel, tt, stack, history>>

Init ==
  /\ clock = StartTime
  /\ uiCurrentTime = StartTime
  /\ uiTimerNIdIndex = 1
  /\ uiNodeCnt = 0
  /\ slot = [id \in Id |-> NONE]
  /\ sTimeKey = [id \in Id |-> 0]
  /\ tt = NONE
  /\ stack = <<>>
  /\ fired = {}
  /\ stopped = {}

Linked == {id \in Id : slot[id] # NONE}
Given == 2 .. uiTimerNIdIndex

(* Mutant: the slots run from 0 to NDay.                                   *)
timeout_func_TooWide(t) == t % (NDay + 1)

(* timerN_timeout_func                                                     *)
timeout_func(t) == t % NDay

(* hashg_find with the handle of node id: its chain is recomputed from the *)
(* time in the handle.                                                     *)
Find(id) == slot[id] # NONE /\ slot[id] = timeout_func(sTimeKey[id])

(* Mutant: a whole turn of the wheel is accepted.                          *)
InWindow_WholeTurn(t) == t <= uiCurrentTime + NDay

(* The times timerN_add and timerN_update accept.                          *)
InWindow(t) == t <= uiCurrentTime + NDay - OneMinute

(* The user runs between two calls of timerN_invoke, or in a callback.     *)
UserRuns == tt = NONE \/ stack # <<>>

(* A callback starts; what runs now waits for it.                          *)
Push(id) == Len(stack) < MaxDepth /\ stack' = <<id>> \o stack

-----------------------------------------------------------------------------
(* timerN_add                                                              *)

(* The time is not in the future: the callback runs at once.               *)
AddNow(t) ==
  /\ UserRuns
  /\ t <= uiCurrentTime
  /\ Push(NONE)
  /\ UNCHANGED <<clock, wheel, tt, history>>

(* Mutant: uiTimerNIdIndex is not incremented.                             *)
AddLink_SameIndex(t) ==
  /\ UserRuns
  /\ uiCurrentTime < t /\ InWindow(t)
  /\ uiTimerNIdIndex < MaxId
  /\ Cardinality(Linked) < HashMax
  /\ slot' = [slot EXCEPT ![uiTimerNIdIndex + 1] = timeout_func(t)]
  /\ sTimeKey' = [sTimeKey EXCEPT ![uiTimerNIdIndex + 1] = t]
  /\ uiNodeCnt' = uiNodeCnt + 1
  /\ UNCHANGED <<clock, uiCurrentTime, uiTimerNIdIndex, tt, stack, history>>

AddLink(t) ==
  /\ UserRuns
  /\ uiCurrentTime < t /\ InWindow(t)
  /\ uiTimerNIdIndex < MaxId
  /\ Cardinality(Linked) < HashMax
  /\ uiTimerNIdIndex' = uiTimerNIdIndex + 1
  /\ slot' = [slot EXCEPT ![uiTimerNIdIndex'] = timeout_func(t)]
  /\ sTimeKey' = [sTimeKey EXCEPT ![uiTimerNIdIndex'] = t]
  /\ uiNodeCnt' = uiNodeCnt + 1
  /\ UNCHANGED <<clock, uiCurrentTime, tt, stack, history>>

(* Beyond the window, or hashg_add returned NULL because the table is full *)
(* or malloc failed: the index is used up, and 0 returned.                 *)
AddRefused ==
  /\ UserRuns
  /\ uiTimerNIdIndex < MaxId
  /\ uiTimerNIdIndex' = uiTimerNIdIndex + 1
  /\ UNCHANGED <<clock, uiCurrentTime, uiNodeCnt, slot, sTimeKey, tt, stack,
                 history>>

-----------------------------------------------------------------------------
(* timerN_del                                                              *)

Del(id) ==
  /\ UserRuns
  /\ id \in Given
  /\ stopped' = stopped \cup {id}
  /\ IF Find(id)
       THEN /\ slot' = [slot EXCEPT ![id] = NONE]
            /\ uiNodeCnt' = uiNodeCnt - 1
       ELSE UNCHANGED <<slot, uiNodeCnt>>
  /\ UNCHANGED <<clock, uiCurrentTime, uiTimerNIdIndex, sTimeKey, tt, stack,
                 fired>>

-----------------------------------------------------------------------------
(* timerN_update                                                           *)

(* The time in the key is changed first, whatever happens then.            *)
ChangeKey(id, t) ==
  /\ UserRuns
  /\ id \in Given
  /\ Find(id)
  /\ sTimeKey' = [sTimeKey EXCEPT ![id] = t]

(* Moved into the past: unlinked, called back, and then freed.             *)
UpdateNow(id, t) ==
  /\ ChangeKey(id, t)
  /\ t <= uiCurrentTime
  /\ slot' = [slot EXCEPT ![id] = NONE]
  /\ uiNodeCnt' = uiNodeCnt - 1
  /\ Push(id)
  /\ stopped' = stopped \cup {id}
  /\ UNCHANGED <<clock, uiCurrentTime, uiTimerNIdIndex, tt, fired>>

(* Mutant: the node stays in the chain of its old time.                    *)
UpdateMove_NoRelink(id, t) ==
  /\ ChangeKey(id, t)
  /\ uiCurrentTime < t /\ InWindow(t)
  /\ UNCHANGED <<clock, uiCurrentTime, uiTimerNIdIndex, uiNodeCnt, slot, tt,
                 stack, history>>

UpdateMove(id, t) ==
  /\ ChangeKey(id, t)
  /\ uiCurrentTime < t /\ InWindow(t)
  /\ slot' = [slot EXCEPT ![id] = timeout_func(t)]
  /\ UNCHANGED <<clock, uiCurrentTime, uiTimerNIdIndex, uiNodeCnt, tt, stack,
                 history>>

(* Beyond the window: logged as an error, but the key has changed.         *)
UpdateFar(id, t) ==
  /\ FarUpdates
  /\ ChangeKey(id, t)
  /\ uiCurrentTime < t /\ ~InWindow(t)
  /\ UNCHANGED <<clock, uiCurrentTime, uiTimerNIdIndex, uiNodeCnt, slot, tt,
                 stack, history>>

-----------------------------------------------------------------------------
(* timerN_invoke                                                           *)

InvokeStart ==
  /\ tt = NONE /\ stack = <<>>
  /\ uiCurrentTime <= clock
  /\ tt' = clock
  /\ UNCHANGED <<clock, wheel, stack, history>>

(* In the loops of timerN_invoke, no callback running.                     *)
Looping == tt # NONE /\ stack = <<>> /\ uiCurrentTime <= tt

(* The chain of this second.                                               *)
Chain == {id \in Id : slot[id] = uiCurrentTime % NDay}

(* The head of the chain, read anew in every turn: unlinked, called back,  *)
(* and then freed.                                                         *)
Drain(id) ==
  /\ Looping
  /\ id \in Chain
  /\ slot' = [slot EXCEPT ![id] = NONE]
  /\ uiNodeCnt' = uiNodeCnt - 1
  /\ Push(id)
  /\ fired' = fired \cup {id}
  /\ UNCHANGED <<clock, uiCurrentTime, uiTimerNIdIndex, sTimeKey, tt, stopped>>

(* Mutant: a node that a callback linked into this second is passed over.  *)
NextSecond_PassOver ==
  /\ Looping
  /\ uiCurrentTime' = uiCurrentTime + 1
  /\ tt' = IF uiCurrentTime' <= tt THEN tt ELSE NONE
  /\ UNCHANGED <<clock, uiTimerNIdIndex, uiNodeCnt, slot, sTimeKey, stack,
                 history>>

NextSecond ==
  /\ Looping
  /\ Chain = {}
  /\ uiCurrentTime' = uiCurrentTime + 1
  /\ tt' = IF uiCurrentTime' <= tt THEN tt ELSE NONE
  /\ UNCHANGED <<clock, uiTimerNIdIndex, uiNodeCnt, slot, sTimeKey, stack,
                 history>>

-----------------------------------------------------------------------------
(* The innermost callback returns; a node it was called for is freed.      *)
Return ==
  /\ stack # <<>>
  /\ stack' = Tail(stack)
  /\ UNCHANGED <<clock, wheel, tt, history>>

Tick ==
  /\ clock < MaxTime
  /\ clock' = clock + 1
  /\ UNCHANGED <<wheel, tt, stack, history>>

Add == AddRefused \/ \E t \in Time : AddNow(t) \/ AddLink(t)
Update(id, t) == UpdateNow(id, t) \/ UpdateMove(id, t) \/ UpdateFar(id, t)
Invoke == InvokeStart \/ NextSecond \/ \E id \in Id : Drain(id)

Next ==
  \/ Add
  \/ \E id \in Id : Del(id)
  \/ \E id \in Id, t \in Time : Update(id, t)
  \/ Invoke
  \/ Return
  \/ Tick

Spec == Init /\ [][Next]_vars

(* The clock runs, the user polls timerN_invoke again and again, the       *)
(* library's loop goes on, and a callback returns at last however many     *)
(* nested callbacks it makes.                                              *)
Fairness ==
  /\ WF_vars(Tick)
  /\ SF_vars(InvokeStart)
  /\ WF_vars(Invoke)
  /\ \A d \in 1 .. MaxDepth : SF_vars(Len(stack) = d /\ Return)

FairSpec == Spec /\ Fairness
-----------------------------------------------------------------------------
(* Properties                                                              *)

(* Every variable keeps its type.                                          *)
TypeOK ==
  /\ clock \in Time
  /\ uiCurrentTime \in Time \cup {MaxTime + 1}
  /\ uiTimerNIdIndex \in 1 .. MaxId \cup {1}
  /\ uiNodeCnt \in Int
  /\ slot \in [Id -> Slot \cup {NONE}]
  /\ sTimeKey \in [Id -> Time]
  /\ tt \in Time \cup {NONE}
  /\ stack \in Seq(Id \cup {NONE})
  /\ fired \in SUBSET Id
  /\ stopped \in SUBSET Id

(* A linked node is in the chain of its key's time, and this time is ahead *)
(* of the second the wheel looks at, by less than a turn: no timer is      *)
(* passed over, none is found a turn too early, and its handle finds it,   *)
(* whatever callbacks do to the wheel while a chain is drained.            *)
WheelOrdered ==
  \A id \in Linked :
    /\ slot[id] = timeout_func(sTimeKey[id])
    /\ uiCurrentTime <= sTimeKey[id]
    /\ sTimeKey[id] <= uiCurrentTime + NDay - OneMinute

(* uiNodeCnt is the number of linked nodes, also while callbacks run.      *)
CountsAgree == uiNodeCnt = Cardinality(Linked)

(* A timer that fired, was deleted or was moved into the past is never in  *)
(* the wheel again, so its callback never runs a second time.              *)
NeverAgain == Linked \cap (fired \cup stopped) = {}

(* Indices above the last one given are unused.                            *)
FreshIds == Linked \cup fired \cup stopped \subseteq Given

(* The wheel looks at most one second ahead of the clock.                  *)
WheelFollowsClock ==
  /\ uiCurrentTime <= clock + 1
  /\ tt # NONE => uiCurrentTime <= tt /\ tt <= clock

(* The inductive invariant when no update goes beyond the window.          *)
IInv ==
  /\ TypeOK
  /\ WheelOrdered
  /\ CountsAgree
  /\ NeverAgain
  /\ FreshIds
  /\ WheelFollowsClock

(* A timer runs in the second its key says, never in another turn of the   *)
(* wheel, and never before the clock says so.                              *)
FiresWhenDue ==
  [][\A id \in Id : Drain(id) => sTimeKey[id] = uiCurrentTime /\ sTimeKey[id] <= clock]_vars

(* Every timer in the wheel fires or is taken out.                         *)
TimerRuns == \A id \in Id : id \in Linked ~> id \notin Linked

(* The wheel keeps the promise of TimerSpec.                               *)
Timers == INSTANCE TimerSpec WITH
  Off <- NONE, now <- uiCurrentTime,
  due <- [id \in Id |-> IF slot[id] = NONE THEN NONE ELSE sTimeKey[id]]

ImplementsTimers == Timers!Spec
=============================================================================
