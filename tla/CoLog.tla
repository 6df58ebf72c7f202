-------------------------------- MODULE CoLog --------------------------------
(***************************************************************************)
(* The session table of the correlation process CO_LOG, whose source the   *)
(* structg templates generate (ref_lib/structg/co_log_main.stc): sessions  *)
(* in a hash table in shared memory (hasho), one timer per session in a    *)
(* wheel in the process's own memory (TimerN), and a main loop that takes  *)
(* messages and polls the wheel.  The process dies and starts again: the   *)
(* table survives, the wheel and everything malloc'ed do not.              *)
(*                                                                         *)
(* Abstractions.  One of the tables, that of the first key, the one whose  *)
(* sessions carry copies of log messages; every other table has a wheel of *)
(* its own and the same handlers, less the copies.  The correlation data   *)
(* of a session is left out, its log copies are one pointer.  A handler    *)
(* runs to its end; the process dies between handlers, or between two      *)
(* steps of timerN_invoke.                                                 *)
(***************************************************************************)
EXTENDS Integers, Sequences, FiniteSets, SequencesExt

CONSTANTS
  Key,          (* the values of the first key                             *)
  SessMax,      (* the nodes of the hash table's memory (memg)             *)
  SessTimeout,  (* STG_HASH_SESS_TIMEOUT                                   *)
  DelTimeout,   (* STG_HASH_DEL_TIMEOUT                                    *)
  MaxRuns,      (* bound: times the process starts                         *)
  LastMsg,      (* bound: the second of the last message or restart        *)
  MaxLag,       (* bound: the seconds one timerN_invoke takes              *)
  (* The parameters of the wheel, see TimerN.                              *)
  NDay, OneMinute, HashMax, StartTime, MaxTime, MaxId, FarUpdates

ASSUME CoLogAssumption ==
  /\ DelTimeout \in Nat /\ SessTimeout \in Nat
  /\ 1 < DelTimeout /\ DelTimeout < SessTimeout
  /\ LastMsg \in Nat /\ LastMsg + SessTimeout <= MaxTime
  /\ MaxRuns \in Nat \ {0}
  /\ SessMax \in Nat /\ MaxLag \in Nat

ASSUME WheelAssumption ==
  /\ OneMinute \in Nat \ {0} /\ NDay \in Nat /\ OneMinute < NDay
  /\ HashMax \in Nat
  /\ StartTime \in Nat /\ MaxTime \in Nat /\ StartTime <= MaxTime
  /\ MaxId \in Nat
  /\ FarUpdates \in BOOLEAN

VARIABLES
  sessions,   (* the keys in the hash table                                *)
  TimerId,    (* per session: the timer handle kept in its node            *)
  pLog,       (* per session: the run of the process that malloc'ed its    *)
              (* log copy, or 0 for a NULL pointer                         *)
  arg,        (* per timer: the key its callback is called with            *)
  tLastTime,  (* when the main loop polled the wheel last                  *)
  run,        (* history: which run of the process this is                 *)
  orphans,    (* history: the sessions whose timer was refused or went     *)
              (* with an earlier run                                       *)
  (* The wheel, see TimerN.                                                *)
  clock, uiCurrentTime, uiTimerNIdIndex, uiNodeCnt, slot, sTimeKey, tt,
  stack, fired, stopped

Wheel == INSTANCE TimerN WITH MaxDepth <- 1

table == <<sessions, TimerId, pLog>>
wheel == <<clock, uiCurrentTime, uiTimerNIdIndex, uiNodeCnt, slot, sTimeKey,
           tt, stack, fired, stopped>>
vars == <<table, arg, tLastTime, run, orphans, wheel>>

NoKey == "none"
NoHandle == <<0, 0>>

Init ==
  /\ Wheel!Init
  /\ sessions = {}
  /\ TimerId = [k \in Key |-> NoHandle]
  /\ pLog = [k \in Key |-> 0]
  /\ arg = [id \in Wheel!Id |-> NoKey]
  /\ tLastTime = StartTime
  /\ run = 1 /\ orphans = {}

(* The main loop is between two turns; messages come until LastMsg.        *)
AtLoop == tt = Wheel!NONE /\ stack = <<>>
AtMessage == AtLoop /\ clock <= LastMsg

-----------------------------------------------------------------------------
(* Mutant: the callback is given no key.                                   *)
Hang_NoArg(k, t) ==
  /\ Wheel!AddLink(t)
  /\ TimerId' = [TimerId EXCEPT ![k] = <<uiTimerNIdIndex', t>>]
  /\ UNCHANGED <<arg, orphans>>

(* Mutant: the handle carries the index before it was incremented.         *)
Hang_OldIndex(k, t) ==
  /\ Wheel!AddLink(t)
  /\ arg' = [arg EXCEPT ![uiTimerNIdIndex'] = k]
  /\ TimerId' = [TimerId EXCEPT ![k] = <<uiTimerNIdIndex, t>>]
  /\ UNCHANGED orphans

(* timerN_add for a session; the handle it returns goes into the session's *)
(* node, also when it is 0 because the time is beyond the wheel.           *)
Hang(k, t) ==
  \/ /\ Wheel!AddLink(t)
     /\ arg' = [arg EXCEPT ![uiTimerNIdIndex'] = k]
     /\ TimerId' = [TimerId EXCEPT ![k] = <<uiTimerNIdIndex', t>>]
     /\ UNCHANGED orphans
  \/ /\ ~Wheel!InWindow(t) \/ Cardinality(Wheel!Linked) >= HashMax
     /\ Wheel!AddRefused
     /\ TimerId' = [TimerId EXCEPT ![k] = NoHandle]
     /\ orphans' = orphans \cup {k}
     /\ UNCHANGED arg

(* A handle finds its node if the node is linked and has that very key.    *)
Found(h) == h[1] \in Wheel!Id /\ Wheel!Find(h[1]) /\ sTimeKey[h[1]] = h[2]

(* Mutant: the timer is deleted, and not added again.                      *)
Rehang_DeleteOnly(k, t) ==
  /\ IF Found(TimerId[k]) THEN Wheel!Del(TimerId[k][1])
                          ELSE UNCHANGED wheel
  /\ UNCHANGED <<TimerId, arg, orphans>>

(* timerN_update with the handle in the session's node.  The handle it     *)
(* returns is dropped by both callers.                                     *)
Rehang(k, t) ==
  /\ IF Found(TimerId[k]) THEN Wheel!Update(TimerId[k][1], t)
                          ELSE UNCHANGED wheel
  /\ UNCHANGED <<TimerId, arg, orphans>>

(* Mutant: the session gets another timer, the old one staying.            *)
Refresh_Again(k) ==
  /\ AtMessage
  /\ k \in sessions
  /\ Hang(k, clock + DelTimeout)
  /\ UNCHANGED <<sessions, pLog, tLastTime, run>>

(* HashTimer_Add of a key that has a session.                              *)
Refresh(k) ==
  /\ AtMessage
  /\ k \in sessions
  /\ Rehang(k, clock + DelTimeout)
  /\ UNCHANGED <<sessions, pLog, tLastTime, run>>

(* HashTimer_Add of a new key.                                             *)
Create(k) ==
  /\ AtMessage
  /\ k \notin sessions /\ Cardinality(sessions) < SessMax
  /\ sessions' = sessions \cup {k}
  /\ pLog' = [pLog EXCEPT ![k] = 0]
  /\ Hang(k, clock + SessTimeout)
  /\ UNCHANGED <<tLastTime, run>>

HashTimer_Add(k) == Refresh(k) \/ Create(k)

HashTimer_Del(k) ==
  /\ AtMessage
  /\ k \in sessions
  /\ Rehang(k, clock + DelTimeout)
  /\ UNCHANGED <<sessions, pLog, tLastTime, run>>

(* The first log message of a session is copied into malloc'ed memory.     *)
Set_HashoData_Log(k) ==
  /\ AtMessage
  /\ k \in sessions
  /\ pLog[k] = 0
  /\ pLog' = [pLog EXCEPT ![k] = run]
  /\ UNCHANGED <<sessions, TimerId, arg, tLastTime, run, orphans, wheel>>

-----------------------------------------------------------------------------
(* The main loop polls the wheel every SessTimeout seconds.                *)
Poll ==
  /\ AtLoop
  /\ clock >= tLastTime + SessTimeout
  /\ Wheel!InvokeStart
  /\ UNCHANGED <<table, arg, tLastTime, run, orphans>>

Drain(id) ==
  /\ Wheel!Drain(id)
  /\ UNCHANGED <<table, arg, tLastTime, run, orphans>>

(* The callback: the log copy is freed, the session removed.               *)
invoke_del ==
  /\ Wheel!Return
  /\ LET k == arg[Head(stack)] IN
       /\ sessions' = sessions \ {k}
       /\ pLog' = [pLog EXCEPT ![k] = 0]
       /\ TimerId' = [TimerId EXCEPT ![k] = NoHandle]
       /\ orphans' = orphans \ {k}
  /\ UNCHANGED <<arg, tLastTime, run>>

(* The last second of the poll ends it.                                    *)
NextSecond ==
  /\ Wheel!NextSecond
  /\ tLastTime' = IF tt' = Wheel!NONE THEN clock ELSE tLastTime
  /\ UNCHANGED <<table, arg, run, orphans>>

Tick ==
  /\ tt # Wheel!NONE => clock < tt + MaxLag
  /\ Wheel!Tick
  /\ UNCHANGED <<table, arg, tLastTime, run, orphans>>

-----------------------------------------------------------------------------
(* The nodes TimerN_Reset hangs a timer on: those whose key and data       *)
(* pointers are both NULL.  Each is the table's address plus an offset.    *)
KeyIsNull(k) == FALSE
DataIsNull(k) == FALSE
(* Mutant: every node gets a timer, as the comment of TimerN_Reset says.   *)
ResetTakes_All(k) == ~KeyIsNull(k) /\ ~DataIsNull(k)

ResetTakes(k) == KeyIsNull(k) /\ DataIsNull(k)

Position(s, k) == SelectInSeq(s, LAMBDA x : x = k)

(* The process dies and starts again: a new wheel, the old table, and      *)
(* TimerN_Reset.                                                           *)
Restart ==
  LET left == SetToSeq({k \in sessions : ResetTakes(k)})
      Hung(id) == id - 1 \in DOMAIN left
      due == clock + SessTimeout
  IN /\ run < MaxRuns /\ clock <= LastMsg
     /\ run' = run + 1
     /\ uiCurrentTime' = clock
     /\ uiTimerNIdIndex' = Len(left) + 1
     /\ uiNodeCnt' = Len(left)
     /\ slot' = [id \in Wheel!Id |->
                   IF Hung(id) THEN Wheel!timeout_func(due) ELSE Wheel!NONE]
     /\ sTimeKey' = [id \in Wheel!Id |-> IF Hung(id) THEN due ELSE 0]
     /\ arg' = [id \in Wheel!Id |-> IF Hung(id) THEN left[id - 1] ELSE NoKey]
     /\ TimerId' = [k \in Key |->
                      IF k \in ToSet(left) THEN <<Position(left, k) + 1, due>>
                                           ELSE TimerId[k]]
     /\ tt' = Wheel!NONE /\ stack' = <<>>
     /\ fired' = {} /\ stopped' = {}
     /\ tLastTime' = clock
     /\ orphans' = sessions \ ToSet(left)
     /\ UNCHANGED <<sessions, pLog, clock>>

-----------------------------------------------------------------------------
Message ==
  \E k \in Key : HashTimer_Add(k) \/ HashTimer_Del(k) \/ Set_HashoData_Log(k)

Invoke == Poll \/ NextSecond \/ invoke_del \/ \E id \in Wheel!Id : Drain(id)

Next == Message \/ Invoke \/ Tick \/ Restart

Spec == Init /\ [][Next]_vars

(* The clock runs; the main loop turns, taking at most one message in each *)
(* turn before it polls.                                                   *)
FairSpec == Spec /\ WF_vars(Tick) /\ WF_vars(Invoke)

-----------------------------------------------------------------------------
(* Properties                                                              *)

(* Every variable keeps its type.                                          *)
TypeOK ==
  /\ Wheel!TypeOK
  /\ sessions \in SUBSET Key
  /\ TimerId \in [Key -> (Wheel!Id \X Wheel!Time) \cup {NoHandle}]
  /\ pLog \in [Key -> 0 .. run]
  /\ arg \in [Wheel!Id -> Key \cup {NoKey}]
  /\ tLastTime \in Wheel!Time
  /\ run \in 1 .. MaxRuns /\ orphans \in SUBSET sessions

Called(k) == stack # <<>> /\ arg[Head(stack)] = k
TimersOf(k) == {id \in Wheel!Linked : arg[id] = k}

(* A session is forgotten in two ways only, when the wheel refuses its     *)
(* timer and when the process dies (co_log_main.stc:1254, 1197): any other *)
(* has its timer in the wheel, or its callback runs.                       *)
SessionHasTimer == \A k \in sessions \ orphans : TimersOf(k) # {} \/ Called(k)

(* A session has no second timer, and no timer is left without a session:  *)
(* no callback removes a session made after the one it was hung for.       *)
OneTimerEach ==
  \A k \in Key :
    /\ Cardinality(TimersOf(k)) <= 1
    /\ TimersOf(k) # {} \/ Called(k) => k \in sessions
    /\ Called(k) => TimersOf(k) = {}

(* The timers whose callback is still to return.                           *)
Pending == {id \in Wheel!Id : slot[id] # Wheel!NONE \/ stack = <<id>>}

(* The inductive invariant: the arguments of the pending timers are the    *)
(* sessions that are not forgotten, each once; and the log copies of those *)
(* are this run's.                                                         *)
IInv ==
  /\ TypeOK
  /\ stack # <<>> => \E id \in Wheel!Id : stack = <<id>> /\ slot[id] = Wheel!NONE
  /\ \A id \in Pending : id <= uiTimerNIdIndex /\ arg[id] \in sessions \ orphans
  /\ \A a, b \in Pending : arg[a] = arg[b] => a = b
  /\ \A k \in sessions \ orphans :
       /\ \E id \in Pending : arg[id] = k
       /\ pLog[k] \in {0, run}

(* The callback frees only what this run of the process malloc'ed: the     *)
(* pointers in the shared table outlive the heap they point into.          *)
NoDanglingFree ==
  [][invoke_del => \A k \in sessions \ sessions' : pLog[k] \in {0, run}]_vars

(* Every session ends that is not forgotten.                               *)
SessionEnds == \A k \in Key : k \in sessions ~> k \notin sessions \ orphans

(* Every session ends, also after a restart.  TimerN_Reset is there        *)
(* because its nodes would otherwise stay for ever                         *)
(* (co_log_main.stc:1168).                                                 *)
EverySessionEnds == \A k \in Key : k \in sessions ~> k \notin sessions

(* The handle in a session's node is that of its timer: the id timerN_add  *)
(* or timerN_update returned last (timerN.c:285).                          *)
HandleFinds == \A k \in sessions : Found(TimerId[k]) \/ Called(k)
=============================================================================
