----------------------------- MODULE TimerSpec -----------------------------
(***************************************************************************)
(* What a timer service promises, with no word on how: a timer that is set *)
(* stays set until it is cancelled, moved or fired; it fires at most once, *)
(* at its own second, and time does not pass a timer that is due.  TimerN  *)
(* implements this specification.                                          *)
(***************************************************************************)
EXTENDS Integers

CONSTANTS
  Id,       (* the names of timers                                         *)
  Time,     (* the deadlines that can be asked for                         *)
  Off       (* the deadline of a timer that is not set                     *)

VARIABLES
  now,      (* the second the service has reached                          *)
  due,      (* per timer: its deadline, or Off                             *)
  fired,    (* timers that came due                                        *)
  stopped   (* timers their user cancelled, or moved into the past         *)

vars == <<now, due, fired, stopped>>

Init ==
  /\ now \in Time
  /\ due = [id \in Id |-> Off]
  /\ fired = {}
  /\ stopped = {}

Set(id, t) ==
  /\ due[id] = Off /\ id \notin fired \cup stopped /\ t > now
  /\ due' = [due EXCEPT ![id] = t]
  /\ UNCHANGED <<now, fired, stopped>>

Move(id, t) ==
  /\ due[id] # Off /\ t > now
  /\ due' = [due EXCEPT ![id] = t]
  /\ UNCHANGED <<now, fired, stopped>>

Stop(id) ==
  /\ due' = [due EXCEPT ![id] = Off]
  /\ stopped' = stopped \cup {id}
  /\ UNCHANGED <<now, fired>>

Fire(id) ==
  /\ due[id] = now /\ id \notin fired \cup stopped
  /\ due' = [due EXCEPT ![id] = Off]
  /\ fired' = fired \cup {id}
  /\ UNCHANGED <<now, stopped>>

Pass ==
  /\ \A id \in Id : due[id] # now
  /\ now' = now + 1
  /\ UNCHANGED <<due, fired, stopped>>

Next ==
  \/ \E id \in Id, t \in Time : Set(id, t) \/ Move(id, t)
  \/ \E id \in Id : Stop(id) \/ Fire(id)
  \/ Pass

Spec == Init /\ [][Next]_vars
=============================================================================
