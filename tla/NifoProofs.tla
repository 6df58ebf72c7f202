----------------------------- MODULE NifoProofs -----------------------------
(***************************************************************************)
(* That nifo passes messages whole, for any number of processes and nodes  *)
(* and any length of the queues, if what a live process or a queue has is  *)
(* never left unstamped (Prompt): the inductive invariant of Nifo, what it *)
(* implies, and that Nifo implements MsgSpec.                              *)
(***************************************************************************)
EXTENDS Nifo, TLAPS

-----------------------------------------------------------------------------
(* Rings                                                                   *)

Lists == [Node -> Links]

Closed(list, S) == \A m \in S : list[m].offset_next \in S \cup {NULL}

(* A ring holds its node, and nothing leads out of it. *)
LEMMA RingClosed ==
  ASSUME NEW list \in Lists, NEW n \in Node
  PROVE  n \in Ring(list, n) /\ Ring(list, n) \subseteq Node /\ Closed(list, Ring(list, n))
BY DEF Ring, Closed, Lists, Links

(* It is the least such set. *)
LEMMA RingLeast ==
  ASSUME NEW list, NEW n \in Node, NEW S \in SUBSET Node, n \in S, Closed(list, S)
  PROVE  Ring(list, n) \subseteq S
BY DEF Ring, Closed

(* An entry that is its own neighbour is a ring. *)
LEMMA RingOfOne ==
  ASSUME NEW list \in Lists, NEW n \in Node, list[n] = CINIT_LIST_HEAD(n)
  PROVE  Ring(list, n) = {n} /\ IsRing(list, {n})
BY DEF Ring, IsRing, CINIT_LIST_HEAD

(* Nothing but its own entries matters to a ring. *)
LEMMA RingFrame ==
  ASSUME NEW list \in Lists, NEW new \in Lists, NEW R \in SUBSET Node,
         IsRing(list, R), \A n \in R : new[n] = list[n]
  PROVE  IsRing(new, R)
<1> SUFFICES ASSUME NEW n \in R PROVE Ring(new, n) = R
  BY DEF IsRing
<1>1. Ring(new, n) \subseteq R
  <2>1. Closed(new, R)
    BY DEF Closed, IsRing
  <2> QED BY <2>1, RingLeast
<1>2. n \in Ring(new, n) /\ Closed(new, Ring(new, n))
  BY RingClosed
<1>3. Closed(list, Ring(new, n))
  BY <1>1, <1>2 DEF Closed
<1>4. Ring(list, n) \subseteq Ring(new, n)
  BY <1>1, <1>2, <1>3, RingLeast
<1> QED BY <1>1, <1>4 DEF IsRing

(* clist_add puts an entry into a ring, between two neighbours. *)
LEMMA RingAdd ==
  ASSUME NEW list \in Lists, NEW R \in SUBSET Node, IsRing(list, R),
         NEW prev \in R, NEW new \in Node \ R,
         NEW then, then = clist_add(list, new, prev, list[prev].offset_next)
  PROVE  /\ then \in Lists /\ IsRing(then, R \cup {new})
         /\ \A n \in Node \ (R \cup {new}) : then[n] = list[n]
<1> DEFINE next == list[prev].offset_next
<1>1. next \in R /\ next \in Node /\ prev \in Node /\ next # new /\ prev # new
  BY DEF IsRing
<1>2. /\ then \in Lists
      /\ then[new] = [offset_next |-> next, offset_prev |-> prev]
      /\ \A n \in Node \ {new} :
           /\ then[n].offset_next = IF n = prev THEN new ELSE list[n].offset_next
           /\ then[n].offset_prev = IF n = next THEN new ELSE list[n].offset_prev
      /\ \A n \in Node \ (R \cup {new}) : then[n] = list[n]
  BY <1>1 DEF clist_add, Lists, Links
<1>3. Closed(then, R \cup {new})
  BY <1>1, <1>2 DEF Closed, IsRing
<1>4. ASSUME NEW n \in R \cup {new} PROVE Ring(then, n) = R \cup {new}
  <2> DEFINE T == Ring(then, n)
  <2>1. T \subseteq R \cup {new}
    BY <1>3, RingLeast
  <2>2. n \in T /\ Closed(then, T)
    BY <1>2, RingClosed
  <2> HIDE DEF T
  <2>3. \A m \in T : then[m].offset_next \in T
    BY <1>1, <1>2, <2>1, <2>2, NifoAssumption DEF Closed, IsRing, NifoAssumption
  <2>4. Closed(list, T \ {new})
    BY <1>1, <1>2, <2>1, <2>3 DEF Closed, IsRing
  <2>5. PICK m \in T \ {new} : m \in R
    BY <1>1, <1>2, <2>1, <2>2, <2>3
  <2>6. R \subseteq T \ {new}
    <3>1. Ring(list, m) = R
      BY <2>5 DEF IsRing
    <3> QED BY <2>1, <2>4, <2>5, <3>1, RingLeast
  <2>7. new \in T
    BY <1>1, <1>2, <2>3, <2>6
  <2> QED BY <2>1, <2>6, <2>7 DEF T
<1>5. \A n \in R \cup {new} :
        /\ then[n].offset_next \in R \cup {new} /\ then[then[n].offset_next].offset_prev = n
        /\ then[n].offset_prev \in R \cup {new} /\ then[then[n].offset_prev].offset_next = n
  BY <1>1, <1>2 DEF IsRing
<1> QED BY <1>2, <1>4, <1>5 DEF IsRing

(* clist_del_init takes an entry out and leaves it a ring of its own. *)
LEMMA RingDel ==
  ASSUME NEW list \in Lists, NEW R \in SUBSET Node, IsRing(list, R), NEW n \in R,
         NEW then, then = clist_del_init(list, n)
  PROVE  /\ then \in Lists /\ then[n] = CINIT_LIST_HEAD(n) /\ IsRing(then, R \ {n})
         /\ \A m \in Node \ R : then[m] = list[m]
<1> DEFINE prev == list[n].offset_prev
           next == list[n].offset_next
<1>1. next \in R /\ next \in Node /\ prev \in R /\ prev \in Node
  BY DEF IsRing
<1>2. /\ then \in Lists /\ then[n] = CINIT_LIST_HEAD(n)
      /\ \A m \in Node \ {n} :
           /\ then[m].offset_next = IF m = prev THEN next ELSE list[m].offset_next
           /\ then[m].offset_prev = IF m = next THEN prev ELSE list[m].offset_prev
      /\ \A m \in Node \ R : then[m] = list[m]
  BY <1>1 DEF clist_del_init, CINIT_LIST_HEAD, Lists, Links
<1>3. \A m \in R \ {n} :
        /\ then[m].offset_next \in R \ {n} /\ then[then[m].offset_next].offset_prev = m
        /\ then[m].offset_prev \in R \ {n} /\ then[then[m].offset_prev].offset_next = m
  BY <1>1, <1>2 DEF IsRing
<1>4. ASSUME NEW x \in R \ {n} PROVE Ring(then, x) = R \ {n}
  <2> DEFINE T == Ring(then, x)
  <2>1. T \subseteq R \ {n}
    <3>1. Closed(then, R \ {n})
      BY <1>3 DEF Closed
    <3> QED BY <3>1, RingLeast
  <2>2. x \in T /\ Closed(then, T)
    BY <1>2, RingClosed
  <2> HIDE DEF T
  <2>3. \A m \in T : then[m].offset_next \in T
    BY <1>3, <2>1, <2>2, NifoAssumption DEF Closed, NifoAssumption
  <2>4. prev \in T
    <3> SUFFICES ASSUME prev \notin T PROVE FALSE
      OBVIOUS
    <3>1. Closed(list, T)
      BY <1>2, <2>1, <2>3 DEF Closed
    <3>2. Ring(list, x) \subseteq T
      BY <2>1, <2>2, <3>1, RingLeast
    <3> QED BY <2>1, <3>2 DEF IsRing
  <2>5. Closed(list, T \cup {n})
    <3>1. \A m \in T \ {prev} : list[m].offset_next \in T
      BY <1>2, <2>1, <2>3
    <3>2. list[prev].offset_next = n
      BY DEF IsRing
    <3>3. next \in T
      BY <1>1, <1>2, <2>1, <2>3, <2>4
    <3> QED BY <3>1, <3>2, <3>3 DEF Closed
  <2>6. Ring(list, x) \subseteq T \cup {n}
    <3>1. T \cup {n} \in SUBSET Node
      BY <2>1
    <3> QED BY <2>2, <2>5, <3>1, RingLeast
  <2> QED BY <2>1, <2>6 DEF T, IsRing
<1> QED BY <1>2, <1>3, <1>4 DEF IsRing

-----------------------------------------------------------------------------
(* Messages                                                                *)

ListsType == nont \in Lists /\ cont \in Lists

(* A message has its head, the nodes of its nont ring, and theirs. *)
LEMMA PartsHave ==
  ASSUME ListsType, NEW h \in Node
  PROVE  /\ h \in Ring(nont, h) /\ Ring(nont, h) \subseteq Parts(h)
         /\ Parts(h) \subseteq Node
         /\ \A b \in Ring(nont, h) :
              b \in Node /\ b \in Ring(cont, b) /\ Ring(cont, b) \subseteq Parts(h)
<1>1. h \in Ring(nont, h) /\ Ring(nont, h) \subseteq Node
  BY RingClosed DEF ListsType
<1>2. \A b \in Node : b \in Ring(cont, b) /\ Ring(cont, b) \subseteq Node
  BY RingClosed DEF ListsType
<1> QED BY <1>1, <1>2 DEF Parts

(* In a message, the cont rings of two nodes of the nont ring are apart,   *)
(* and a node of the nont ring continues no other.                         *)
LEMMA RingsApart ==
  ASSUME ListsType, NEW h \in Node, Whole(h),
         NEW a \in Ring(nont, h), NEW b \in Ring(nont, h), a # b
  PROVE  Ring(cont, a) \cap Ring(cont, b) = {} /\ b \notin Ring(cont, a)
<1>1. b \notin Ring(cont, a)
  <2> SUFFICES ASSUME b \in Ring(cont, a) PROVE FALSE
    OBVIOUS
  <2>1. nont[b] = CINIT_LIST_HEAD(b) /\ b \in Node
    BY PartsHave DEF Whole
  <2>2. Ring(nont, b) = {b}
    BY <2>1, RingOfOne DEF ListsType
  <2> QED BY <2>2 DEF Whole, IsRing
<1>2. b \in Ring(cont, b)
  BY PartsHave
<1>3. ASSUME NEW c \in Ring(cont, a), c \in Ring(cont, b) PROVE FALSE
  <2>1. Ring(cont, c) = Ring(cont, a) /\ Ring(cont, c) = Ring(cont, b)
    BY <1>3 DEF Whole, IsRing
  <2> QED BY <1>1, <1>2, <2>1
<1> QED BY <1>1, <1>3

(* Steps elsewhere leave a message as it is. *)
LEMMA MessageFrame ==
  ASSUME ListsType, ListsType', NEW h \in Node, Whole(h),
         \A n \in Parts(h) : nont'[n] = nont[n] /\ cont'[n] = cont[n]
  PROVE  Whole(h)' /\ Parts(h)' = Parts(h)
<1> DEFINE R == Ring(nont, h)
<1>1. h \in R /\ R \subseteq Parts(h) /\ Parts(h) \subseteq Node
      /\ \A b \in R : b \in Node /\ b \in Ring(cont, b) /\ Ring(cont, b) \subseteq Parts(h)
  BY PartsHave
<1>2. IsRing(nont', R)
  BY <1>1, RingFrame DEF Whole, ListsType
<1>3. ASSUME NEW b \in R PROVE IsRing(cont', Ring(cont, b))
  BY <1>1, RingFrame DEF Whole, ListsType
<1>4. Ring(nont', h) = R /\ \A b \in R : Ring(cont', b) = Ring(cont, b)
  BY <1>1, <1>2, <1>3 DEF IsRing
<1> QED BY <1>1, <1>2, <1>3, <1>4 DEF Whole, Parts

(* A node x leaves the nont ring of a message, with the nodes that         *)
(* continue it: two messages.                                              *)
LEMMA SplitNont ==
  ASSUME ListsType, NEW h \in Node, Whole(h), NEW x \in Ring(nont, h),
         nont' = clist_del_init(nont, x), UNCHANGED cont
  PROVE  /\ ListsType' /\ nont'[x] = CINIT_LIST_HEAD(x)
         /\ Whole(x)' /\ Parts(x)' = Ring(cont, x)
         /\ \A y \in Ring(nont, h) \ {x} :
              Whole(y)' /\ Parts(y)' = Parts(h) \ Ring(cont, x)
         /\ \A n \in Node \ Parts(h) : nont'[n] = nont[n]
<1> DEFINE R == Ring(nont, h)
<1>1. h \in R /\ R \subseteq Parts(h) /\ Parts(h) \subseteq Node
      /\ \A b \in R : b \in Node /\ b \in Ring(cont, b) /\ Ring(cont, b) \subseteq Parts(h)
  BY PartsHave
<1>2. R \in SUBSET Node /\ IsRing(nont, R) /\ x \in R
  BY <1>1 DEF Whole
<1> HIDE DEF R
<1>3. /\ nont' \in Lists /\ nont'[x] = CINIT_LIST_HEAD(x) /\ IsRing(nont', R \ {x})
      /\ \A n \in Node \ R : nont'[n] = nont[n]
  BY <1>2, RingDel DEF ListsType
<1>4. ListsType'
  BY <1>3 DEF ListsType
<1>5. Ring(nont', x) = {x} /\ IsRing(nont', {x})
  BY <1>2, <1>3, RingOfOne
<1>6. ASSUME NEW b \in R, NEW c \in Ring(cont, b) \ {b} PROVE nont'[c] = CINIT_LIST_HEAD(c)
  <2>1. c \notin R
    BY <1>6, RingsApart DEF R
  <2>2. c \in Node /\ nont[c] = CINIT_LIST_HEAD(c)
    BY <1>1 DEF Whole, R
  <2> QED BY <1>3, <2>1, <2>2
<1>7. \A b \in R : Ring(cont', b) = Ring(cont, b) /\ IsRing(cont', Ring(cont', b))
  BY DEF Whole, R
<1>8. Whole(x)' /\ Parts(x)' = Ring(cont, x)
  BY <1>2, <1>5, <1>6, <1>7 DEF Whole, Parts
<1>9. ASSUME NEW y \in R \ {x} PROVE Whole(y)' /\ Parts(y)' = Parts(h) \ Ring(cont, x)
  <2>1. Ring(nont', y) = R \ {x}
    BY <1>3 DEF IsRing
  <2>2. Whole(y)'
    BY <1>3, <1>6, <1>7, <2>1 DEF Whole
  <2>3. Parts(y)' = UNION {Ring(cont, b) : b \in R \ {x}}
    BY <1>7, <2>1 DEF Parts
  <2>4. \A b \in R \ {x} : Ring(cont, b) \cap Ring(cont, x) = {}
    BY <1>2, RingsApart DEF R
  <2>5. Parts(h) = UNION {Ring(cont, b) : b \in R}
    BY DEF Parts, R
  <2> QED BY <1>2, <2>2, <2>3, <2>4, <2>5
<1> QED BY <1>1, <1>3, <1>4, <1>8, <1>9 DEF R

(* A node c that continues another leaves a message: two messages. *)
LEMMA SplitCont ==
  ASSUME ListsType, NEW h \in Node, Whole(h), NEW b \in Ring(nont, h),
         NEW c \in Ring(cont, b) \ {b},
         cont' = clist_del_init(cont, c), UNCHANGED nont
  PROVE  /\ ListsType'
         /\ Whole(c)' /\ Parts(c)' = {c}
         /\ Whole(h)' /\ Parts(h)' = Parts(h) \ {c}
         /\ \A n \in Node \ Parts(h) : cont'[n] = cont[n]
<1> DEFINE R == Ring(nont, h)
           C == Ring(cont, b)
<1>1. h \in R /\ R \subseteq Parts(h) /\ Parts(h) \subseteq Node
      /\ \A a \in R : a \in Node /\ a \in Ring(cont, a) /\ Ring(cont, a) \subseteq Parts(h)
  BY PartsHave
<1>2. C \in SUBSET Node /\ C \subseteq Parts(h) /\ IsRing(cont, C) /\ b \in C /\ c \in C
  BY <1>1 DEF Whole
<1> HIDE DEF C
<1>3. /\ cont' \in Lists /\ cont'[c] = CINIT_LIST_HEAD(c) /\ IsRing(cont', C \ {c})
      /\ \A n \in Node \ C : cont'[n] = cont[n]
  BY <1>2, RingDel DEF ListsType
<1>4. ListsType'
  BY <1>3 DEF ListsType
<1>5. Ring(cont', c) = {c} /\ IsRing(cont', {c}) /\ Ring(nont', c) = {c} /\ IsRing(nont', {c})
  <2>1. nont'[c] = CINIT_LIST_HEAD(c) /\ c \in Node
    BY <1>2 DEF Whole, C
  <2> QED BY <1>3, <1>4, <2>1, RingOfOne DEF ListsType
<1>6. Whole(c)' /\ Parts(c)' = {c}
  BY <1>5 DEF Whole, Parts
<1>7. Ring(nont', h) = R /\ IsRing(nont', R)
  BY DEF Whole
<1>8. Ring(cont', b) = C \ {c} /\ IsRing(cont', C \ {c})
  BY <1>2, <1>3 DEF IsRing
<1>9. ASSUME NEW a \in R \ {b}
      PROVE  /\ Ring(cont', a) = Ring(cont, a) /\ IsRing(cont', Ring(cont, a))
             /\ c \notin Ring(cont, a)
  <2>1. Ring(cont, a) \cap C = {}
    BY RingsApart DEF C
  <2>2. Ring(cont, a) \in SUBSET Node /\ IsRing(cont, Ring(cont, a)) /\ a \in Ring(cont, a)
    BY <1>1 DEF Whole
  <2>3. IsRing(cont', Ring(cont, a))
    BY <1>3, <2>1, <2>2, RingFrame DEF ListsType
  <2> QED BY <1>2, <2>1, <2>2, <2>3 DEF IsRing
<1>10. Whole(h)'
  <2>1. \A a \in R : \A d \in Ring(cont', a) \ {a} : nont'[d] = CINIT_LIST_HEAD(d)
    BY <1>8, <1>9 DEF Whole, C
  <2> QED BY <1>7, <1>8, <1>9, <2>1 DEF Whole
<1>11. Parts(h)' = Parts(h) \ {c}
  <2>1. Parts(h)' = UNION {Ring(cont', a) : a \in R}
    BY <1>7 DEF Parts
  <2>2. Parts(h) = UNION {Ring(cont, a) : a \in R}
    BY DEF Parts
  <2> HIDE DEF R
  <2>3. \A a \in R : Ring(cont', a) = Ring(cont, a) \ {c}
    BY <1>8, <1>9 DEF C
  <2> QED BY <2>1, <2>2, <2>3
<1> QED BY <1>2, <1>3, <1>4, <1>6, <1>10, <1>11

(* The node nifo_cont_delete takes out of the ring of a node that is alone *)
(* in its nont ring leaves a message with the others.                      *)
LEMMA TakeNode ==
  ASSUME ListsType, NEW n \in Node, Whole(n), nont[n] = CINIT_LIST_HEAD(n),
         cont' = clist_del_init(cont, n), nont' \in Lists,
         \A m \in Parts(n) : nont'[m] = nont[m]
  PROVE  /\ ListsType' /\ Parts(n) = Ring(cont, n)
         /\ \A c \in Ring(cont, n) \ {n} :
              /\ nont'[c] = CINIT_LIST_HEAD(c)
              /\ Whole(c)' /\ Parts(c)' = Parts(n) \ {n}
         /\ \A m \in Node \ Parts(n) : cont'[m] = cont[m]
<1> DEFINE C == Ring(cont, n)
<1>1. Ring(nont, n) = {n}
  BY RingOfOne DEF ListsType
<1>2. Parts(n) = C /\ C \in SUBSET Node /\ n \in C /\ IsRing(cont, C)
  BY <1>1, PartsHave DEF Whole, Parts
<1>3. \A c \in C \ {n} : nont'[c] = CINIT_LIST_HEAD(c)
  BY <1>1, <1>2 DEF Whole
<1> HIDE DEF C
<1>4. /\ cont' \in Lists /\ IsRing(cont', C \ {n})
      /\ \A m \in Node \ C : cont'[m] = cont[m]
  <2>1. cont \in Lists /\ cont' = clist_del_init(cont, n)
    BY DEF ListsType
  <2> QED BY SMTT(30), <1>2, <2>1, RingDel
<1>5. ASSUME NEW c \in C \ {n} PROVE Whole(c)' /\ Parts(c)' = C \ {n}
  <2>1. c \in Node /\ nont'[c] = CINIT_LIST_HEAD(c)
    BY <1>2, <1>3
  <2>2. Ring(nont', c) = {c} /\ IsRing(nont', {c})
    BY <2>1, RingOfOne
  <2>3. Ring(cont', c) = C \ {n}
    BY <1>4 DEF IsRing
  <2> QED BY <1>3, <1>4, <2>2, <2>3 DEF Whole, Parts
<1> QED BY <1>2, <1>3, <1>4, <1>5 DEF ListsType, C

(* A message of one node has no links. *)
LEMMA LoneNode ==
  ASSUME ListsType, NEW n \in Node, Whole(n), Parts(n) = {n}
  PROVE  nont[n] = CINIT_LIST_HEAD(n) /\ cont[n] = CINIT_LIST_HEAD(n)
<1>1. Ring(nont, n) = {n} /\ Ring(cont, n) = {n}
  BY PartsHave
<1>2. nont[n] \in Links /\ cont[n] \in Links
  BY DEF ListsType, Lists
<1> QED BY <1>1, <1>2 DEF Whole, IsRing, CINIT_LIST_HEAD, Links

(* A node of its own is linked into a nont ring. *)
LEMMA JoinNont ==
  ASSUME ListsType, NEW h \in Node, Whole(h), NEW n \in Node \ Parts(h),
         Whole(n), Parts(n) = {n},
         nont' \in {clist_add_tail(nont, n, h), clist_add_head(nont, n, h)},
         UNCHANGED cont
  PROVE  /\ ListsType' /\ Whole(h)' /\ Parts(h)' = Parts(h) \cup {n}
         /\ \A m \in Node \ (Parts(h) \cup {n}) : nont'[m] = nont[m]
<1> DEFINE R == Ring(nont, h)
<1>1. h \in R /\ R \subseteq Parts(h) /\ Parts(h) \subseteq Node
      /\ \A b \in R : b \in Node /\ b \in Ring(cont, b) /\ Ring(cont, b) \subseteq Parts(h)
  BY PartsHave
<1>2. R \in SUBSET Node /\ IsRing(nont, R) /\ n \notin R
  BY <1>1 DEF Whole
<1>3. PICK prev \in R : nont' = clist_add(nont, n, prev, nont[prev].offset_next)
  <2>1. CASE nont' = clist_add_head(nont, n, h)
    BY <1>1, <2>1 DEF clist_add_head
  <2>2. CASE nont' = clist_add_tail(nont, n, h)
    BY <1>1, <1>2, <2>2 DEF clist_add_tail, IsRing
  <2> QED BY <2>1, <2>2
<1> HIDE DEF R
<1>4. /\ nont' \in Lists /\ IsRing(nont', R \cup {n})
      /\ \A m \in Node \ (R \cup {n}) : nont'[m] = nont[m]
  BY <1>2, <1>3, RingAdd DEF ListsType
<1>5. Ring(cont', n) = {n} /\ IsRing(cont', {n})
  BY LoneNode, RingOfOne DEF ListsType
<1>6. ASSUME NEW b \in R, NEW c \in Ring(cont, b) \ {b} PROVE nont'[c] = CINIT_LIST_HEAD(c)
  <2>1. c \notin R
    BY <1>6, RingsApart DEF R
  <2>2. c \in Parts(h) /\ nont[c] = CINIT_LIST_HEAD(c)
    BY <1>1 DEF Whole, R
  <2> QED BY <1>1, <1>4, <2>1, <2>2
<1>7. \A b \in R : Ring(cont', b) = Ring(cont, b) /\ IsRing(cont', Ring(cont', b))
  BY DEF Whole, R
<1>8. Ring(nont', h) = R \cup {n}
  BY <1>1, <1>4 DEF IsRing
<1>9. Whole(h)'
  BY <1>4, <1>5, <1>6, <1>7, <1>8 DEF Whole
<1>10. Parts(h)' = Parts(h) \cup {n}
  BY <1>5, <1>7, <1>8 DEF Parts, R
<1> QED BY <1>1, <1>4, <1>9, <1>10 DEF ListsType

(* A node of its own is linked into the cont ring of a node. *)
LEMMA JoinCont ==
  ASSUME ListsType, NEW h \in Node, Whole(h), NEW b \in Ring(nont, h),
         NEW n \in Node \ Parts(h), Whole(n), Parts(n) = {n},
         cont' \in {clist_add_tail(cont, n, b), clist_add_head(cont, n, b)},
         UNCHANGED nont
  PROVE  /\ ListsType' /\ Whole(h)' /\ Parts(h)' = Parts(h) \cup {n}
         /\ \A m \in Node \ (Parts(h) \cup {n}) : cont'[m] = cont[m]
<1> DEFINE R == Ring(nont, h)
           C == Ring(cont, b)
<1>1. h \in R /\ R \subseteq Parts(h) /\ Parts(h) \subseteq Node
      /\ \A a \in R : a \in Node /\ a \in Ring(cont, a) /\ Ring(cont, a) \subseteq Parts(h)
  BY PartsHave
<1>2. /\ C \in SUBSET Node /\ C \subseteq Parts(h) /\ IsRing(cont, C) /\ b \in C
      /\ n \notin C
  BY <1>1 DEF Whole
<1>3. PICK prev \in C : cont' = clist_add(cont, n, prev, cont[prev].offset_next)
  <2>1. CASE cont' = clist_add_head(cont, n, b)
    BY <1>2, <2>1 DEF clist_add_head
  <2>2. CASE cont' = clist_add_tail(cont, n, b)
    BY <1>2, <2>2 DEF clist_add_tail, IsRing
  <2> QED BY <2>1, <2>2
<1> HIDE DEF C
<1>4. /\ cont' \in Lists /\ IsRing(cont', C \cup {n})
      /\ \A m \in Node \ (C \cup {n}) : cont'[m] = cont[m]
  <2>1. cont \in Lists /\ n \in Node \ C
    BY <1>2 DEF ListsType
  <2>2. /\ C \in SUBSET Node /\ IsRing(cont, C)
        /\ cont' = clist_add(cont, n, prev, cont[prev].offset_next)
    BY <1>2, <1>3
  <2> QED BY ONLY <2>1, <2>2, prev \in C, RingAdd
<1>5. nont'[n] = CINIT_LIST_HEAD(n)
  BY LoneNode
<1>6. Ring(nont', h) = R /\ IsRing(nont', R)
  BY DEF Whole
<1>7. Ring(cont', b) = C \cup {n}
  BY <1>2, <1>4 DEF IsRing
<1>8. ASSUME NEW a \in R \ {b}
      PROVE  Ring(cont', a) = Ring(cont, a) /\ IsRing(cont', Ring(cont, a))
  <2>1. Ring(cont, a) \cap C = {} /\ n \notin Ring(cont, a)
    BY <1>1, RingsApart DEF C
  <2>2. Ring(cont, a) \in SUBSET Node /\ IsRing(cont, Ring(cont, a)) /\ a \in Ring(cont, a)
    BY <1>1 DEF Whole
  <2>3. IsRing(cont', Ring(cont, a))
    BY <1>4, <2>1, <2>2, RingFrame DEF ListsType
  <2> QED BY <2>2, <2>3 DEF IsRing
<1>9. Whole(h)'
  <2>1. \A a \in R : \A d \in Ring(cont', a) \ {a} : nont'[d] = CINIT_LIST_HEAD(d)
    BY <1>5, <1>7, <1>8 DEF Whole, C
  <2> QED BY <1>4, <1>6, <1>7, <1>8, <2>1 DEF Whole
<1>10. Parts(h)' = Parts(h) \cup {n}
  <2>1. Parts(h)' = UNION {Ring(cont', a) : a \in R}
    BY <1>6 DEF Parts
  <2>2. Parts(h) = UNION {Ring(cont, a) : a \in R} /\ b \in R
    BY DEF Parts
  <2> HIDE DEF R
  <2>3. Ring(cont', b) = Ring(cont, b) \cup {n}
        /\ \A a \in R \ {b} : Ring(cont', a) = Ring(cont, a)
    BY <1>7, <1>8 DEF C
  <2> QED BY <2>1, <2>2, <2>3
<1> QED BY <1>2, <1>4, <1>9, <1>10 DEF ListsType

-----------------------------------------------------------------------------
(* Types                                                                   *)

(* The types, and that a call which is not over is about a node. *)
TypeInv == TypeOK /\ \A p \in Proc : pc[p] # "idle" => cur[p] \in Node

(* What clisto makes of lists are lists, whatever their links. *)
LEMMA DelType ==
  ASSUME NEW list \in Lists, NEW n \in Node
  PROVE  clist_del_init(list, n) \in Lists /\ After(list, n) \in Node \cup {NULL}
<1>1. list[n].offset_next \in Node \cup {NULL} /\ list[n].offset_prev \in Node \cup {NULL}
  BY DEF Lists, Links
<1> QED BY <1>1 DEF clist_del_init, CINIT_LIST_HEAD, After, Lists, Links

LEMMA AddType ==
  ASSUME NEW list \in Lists, NEW n \in Node, NEW h \in Node
  PROVE  clist_add_tail(list, n, h) \in Lists /\ clist_add_head(list, n, h) \in Lists
<1>1. list[h].offset_next \in Node \cup {NULL} /\ list[h].offset_prev \in Node \cup {NULL}
  BY DEF Lists, Links
<1>2. ASSUME NEW prev \in Node \cup {NULL}, NEW next \in Node \cup {NULL}
      PROVE  clist_add(list, n, prev, next) \in Lists
  BY DEF clist_add, Lists, Links
<1> QED BY <1>1, <1>2 DEF clist_add_tail, clist_add_head

LEMMA PartsType == ASSUME ListsType, NEW h \in Node PROVE Parts(h) \subseteq Node
BY PartsHave

LEMMA InitTypes == NifoAssumption /\ Init => TypeInv
<1> SUFFICES ASSUME NifoAssumption, Init PROVE TypeInv
  OBVIOUS
<1>1. \A p \in Proc : Len(msgq[p]) = 0
  BY DEF Init
<1> QED BY <1>1 DEF Init, TypeInv, TypeOK, Links, NifoAssumption

LEMMA NextTypes == ASSUME NifoAssumption, TypeInv, [Next]_vars PROVE TypeInv'
<1> USE DEF TypeInv, TypeOK, rings, pool, local
<1>1. ListsType
  BY DEF ListsType, Lists
<1>2. ASSUME NEW p \in Proc, NEW n \in Node, nifo_node_alloc(p, n) PROVE TypeInv'
  <2>1. CINIT_LIST_HEAD(n) \in Links
    BY DEF CINIT_LIST_HEAD, Links
  <2> QED BY <1>2, <2>1 DEF nifo_node_alloc
<1>3. ASSUME NEW p \in Proc, NEW h \in Node, NEW b \in Node, NEW n \in Node,
             nifo_node_link_cont(p, h, b, n)
      PROVE  TypeInv'
  <2>1. cont' \in Lists
    <3>1. cont \in Lists /\ cont' \in {clist_add_tail(cont, n, b), clist_add_head(cont, n, b)}
      BY <1>1, <1>3 DEF nifo_node_link_cont, ListsType
    <3> QED BY <3>1, AddType
  <2> QED BY <1>3, <2>1 DEF nifo_node_link_cont, Link, Lists
<1>4. ASSUME NEW p \in Proc, NEW h \in Node, NEW n \in Node, nifo_node_link_nont(p, h, n)
      PROVE  TypeInv'
  <2>1. nont' \in Lists
    <3>1. nont \in Lists /\ nont' \in {clist_add_tail(nont, n, h), clist_add_head(nont, n, h)}
      BY <1>1, <1>4 DEF nifo_node_link_nont, ListsType
    <3> QED BY <3>1, AddType
  <2> QED BY <1>4, <2>1 DEF nifo_node_link_nont, Link, Lists
<1>5. ASSUME NEW p \in Proc, NEW h \in Node, NEW b \in Node, nifo_node_unlink_nont(p, h, b)
      PROVE  TypeInv'
  <2>1. nont' \in Lists
    BY <1>1, <1>5, DelType DEF nifo_node_unlink_nont, ListsType
  <2> QED BY <1>5, <2>1 DEF nifo_node_unlink_nont, Lists
<1>6. ASSUME NEW p \in Proc, NEW h \in Node, NEW b \in Node, NEW c \in Node,
             nifo_node_unlink_cont(p, h, b, c)
      PROVE  TypeInv'
  <2>1. cont' \in Lists
    BY <1>1, <1>6, DelType DEF nifo_node_unlink_cont, ListsType
  <2> QED BY <1>6, <2>1 DEF nifo_node_unlink_cont, Lists
<1>7. ASSUME NEW p \in Proc, Exit(p) PROVE
        /\ pc' \in [Proc -> {"idle", "send", "receive", "delete"}]
        /\ held' \in [Proc -> SUBSET Node]
        /\ cur' \in [Proc -> Node \cup {NULL}] /\ pNext' \in [Proc -> Node \cup {NULL}]
        /\ dest' \in [Proc -> Proc]
        /\ \A q \in Proc : pc'[q] # "idle" => cur'[q] \in Node
  BY <1>7 DEF Exit
<1>8. ASSUME NEW p \in Proc, NEW h \in Node, NEW r \in Proc, WriteCheck(p, h, r)
      PROVE  TypeInv'
  <2>1. CASE Valid(h)
    <3>1. /\ pc' = [pc EXCEPT ![p] = "send"] /\ cur' = [cur EXCEPT ![p] = h]
          /\ dest' = [dest EXCEPT ![p] = r] /\ stale' = stale \ Parts(h)
          /\ UNCHANGED <<held, pNext, ucIsFree, rings, msgq, gc, sent>>
      BY <1>8, <2>1 DEF WriteCheck
    <3>2. /\ pc' \in [Proc -> {"idle", "send", "receive", "delete"}]
          /\ cur' \in [Proc -> Node \cup {NULL}] /\ dest' \in [Proc -> Proc]
          /\ stale' \in SUBSET Node /\ \A q \in Proc : pc'[q] # "idle" => cur'[q] \in Node
      BY <3>1
    <3> QED BY <3>1, <3>2
  <2>2. CASE ~Valid(h)
    BY <1>7, <1>8, <2>2 DEF WriteCheck
  <2> QED BY <2>1, <2>2
<1>9. ASSUME NEW p \in Proc, WriteSend(p) PROVE TypeInv'
  <2>1. cur[p] \in Node /\ Parts(cur[p]) \subseteq Node
    BY <1>1, <1>9, PartsType DEF WriteSend
  <2>2. CASE QueueFull(dest[p])
    BY <1>9, <2>2 DEF WriteSend
  <2>3. CASE ~QueueFull(dest[p])
    <3>1. msgq' = [msgq EXCEPT ![dest[p]] = Append(@, cur[p])]
      BY <1>9, <2>3 DEF WriteSend
    <3>2. msgq' \in [Proc -> Seq(Node)] /\ \A q \in Proc : Len(msgq'[q]) <= QMax
      <4>1. dest[p] \in Proc /\ msgq[dest[p]] \in Seq(Node)
        OBVIOUS
      <4>2. Len(msgq[dest[p]]) < QMax
        BY <2>3, <4>1 DEF QueueFull, NifoAssumption
      <4>3. /\ Append(msgq[dest[p]], cur[p]) \in Seq(Node)
            /\ Len(Append(msgq[dest[p]], cur[p])) <= QMax
        BY <2>1, <4>1, <4>2 DEF NifoAssumption
      <4> QED BY <3>1, <4>1, <4>3
    <3>3. sent' \in [Node -> SUBSET Node] /\ held' \in [Proc -> SUBSET Node]
      <4>1. sent' = [sent EXCEPT ![cur[p]] = Parts(cur[p])] /\ held' = Handed(p)
        BY <1>9, <2>3 DEF WriteSend
      <4> QED BY <2>1, <4>1 DEF Handed
    <3> QED BY <1>9, <3>2, <3>3 DEF WriteSend
  <2> QED BY <2>2, <2>3
<1>10. ASSUME NEW p \in Proc, ReadReceive(p) PROVE TypeInv'
  <2>1. msgq[p] \in Seq(Node) /\ msgq[p] # <<>>
    BY <1>10 DEF ReadReceive
  <2>2. Head(msgq[p]) \in Node /\ Tail(msgq[p]) \in Seq(Node) /\ Len(Tail(msgq[p])) <= QMax
    BY <2>1 DEF NifoAssumption
  <2>3. msgq' \in [Proc -> Seq(Node)] /\ \A q \in Proc : Len(msgq'[q]) <= QMax
    BY <1>10, <2>2 DEF ReadReceive
  <2> QED BY <1>10, <2>2, <2>3 DEF ReadReceive
<1>11. ASSUME NEW p \in Proc, ReadCheck(p) PROVE TypeInv'
  <2>1. cur[p] \in Node
    BY <1>11 DEF ReadCheck
  <2>2. CASE Valid(cur[p])
    <3>1. /\ pc' = [pc EXCEPT ![p] = "idle"] /\ cur' = [cur EXCEPT ![p] = NULL]
          /\ held' = [held EXCEPT ![p] = @ \cup {cur[p]}]
          /\ stale' = stale \ Parts(cur[p]) /\ sent' = [sent EXCEPT ![cur[p]] = {}]
          /\ UNCHANGED <<pNext, dest, ucIsFree, rings, msgq, gc>>
      BY <1>11, <2>2 DEF ReadCheck
    <3>2. /\ pc' \in [Proc -> {"idle", "send", "receive", "delete"}]
          /\ cur' \in [Proc -> Node \cup {NULL}] /\ held' \in [Proc -> SUBSET Node]
          /\ stale' \in SUBSET Node /\ sent' \in [Node -> SUBSET Node]
          /\ \A q \in Proc : pc'[q] # "idle" => cur'[q] \in Node
      BY <2>1, <3>1
    <3> QED BY <3>1, <3>2
  <2>3. CASE ~Valid(cur[p])
    BY <1>7, <1>11, <2>3 DEF ReadCheck
  <2> QED BY <2>2, <2>3
<1>12. ASSUME NEW p \in Proc, NEW h \in Node, DeleteCall(p, h) PROVE TypeInv'
  <2>1. nont' \in Lists /\ After(nont, h) \in Node \cup {NULL}
    BY <1>1, <1>12, DelType DEF DeleteCall, nifo_nont_delete, ListsType
  <2> QED BY <1>12, <2>1 DEF DeleteCall, nifo_nont_delete, Lists
<1>13. ASSUME NEW p \in Proc, nifo_cont_delete(p) PROVE TypeInv'
  <2>1. cur[p] \in Node
    BY <1>13 DEF nifo_cont_delete
  <2>2. cont' \in Lists /\ After(cont, cur[p]) \in Node \cup {NULL}
    BY <1>1, <1>13, <2>1, DelType DEF nifo_cont_delete, ListsType
  <2>3. CASE ucIsFree[cur[p]] # ALLOCED
    BY <1>7, <1>13, <2>2, <2>3 DEF nifo_cont_delete, Lists
  <2>4. CASE ucIsFree[cur[p]] = ALLOCED /\ After(cont, cur[p]) # NULL
    BY ZenonT(30), <1>13, <2>1, <2>2, <2>4 DEF nifo_cont_delete, Lists
  <2>5. CASE ucIsFree[cur[p]] = ALLOCED /\ After(cont, cur[p]) = NULL
    <3>1. /\ nont' \in Lists /\ pc' \in [Proc -> {"idle", "send", "receive", "delete"}]
          /\ cur' \in [Proc -> Node \cup {NULL}] /\ pNext' \in [Proc -> Node \cup {NULL}]
          /\ \A q \in Proc : pc'[q] # "idle" => cur'[q] \in Node
      <4>1. DeleteNext(p)
        BY <1>13, <2>5 DEF nifo_cont_delete
      <4>2. CASE pNext[p] = NULL
        BY <1>1, <4>1, <4>2 DEF DeleteNext, ListsType
      <4>3. CASE pNext[p] # NULL
        <5>1. pNext[p] \in Node
          BY <4>3
        <5>2. nont' \in Lists /\ After(nont, pNext[p]) \in Node \cup {NULL}
          BY <1>1, <4>1, <4>3, <5>1, DelType DEF DeleteNext, nifo_nont_delete, ListsType
        <5> QED BY <4>1, <4>3, <5>1, <5>2 DEF DeleteNext, nifo_nont_delete
      <4> QED BY <4>2, <4>3
    <3> QED BY <1>13, <2>1, <2>2, <2>5, <3>1 DEF nifo_cont_delete, Lists
  <2> QED BY <2>3, <2>4, <2>5
<1>14. ASSUME NEW p \in Proc, Crash(p) PROVE TypeInv'
  BY <1>7, <1>14 DEF Crash
<1>15. ASSUME NEW n \in Node, Age(n) PROVE TypeInv'
  BY <1>15 DEF Age
<1>16. ASSUME Collector PROVE TypeInv'
  BY <1>16 DEF Collector, GcFree, GcLook
<1>17. ASSUME UNCHANGED vars PROVE TypeInv'
  BY <1>17 DEF vars
<1> QED
  BY <1>2, <1>3, <1>4, <1>5, <1>6, <1>8, <1>9, <1>10, <1>11, <1>12, <1>13, <1>14, <1>15,
     <1>16, <1>17 DEF Next, Build, Write, Read, Delete

(* Every variable keeps its type and no queue its limit exceeded, stamped  *)
(* in time or not: a head from a queue, a link of a node that is no        *)
(* message any more, lead to nodes or nowhere.                             *)
THEOREM TypeCorrect == Spec => []TypeOK
<1>1. Init => TypeInv
  BY InitTypes, NifoAssumption
<1>2. TypeInv /\ [Next]_vars => TypeInv'
  BY NextTypes, NifoAssumption
<1>3. TypeInv => TypeOK
  BY DEF TypeInv
<1> QED BY <1>1, <1>2, <1>3, PTL DEF Spec

-----------------------------------------------------------------------------
(* What holds of the messages, and what a step must show                   *)

LEMMA TypesOfInv == IInv => TypeInv /\ ListsType
BY DEF IInv, CallInv, CallSound, TypeInv, TypeOK, ListsType, Lists

LEMMA HeadsAreNodes ==
  TypeInv /\ CallInv =>
    /\ Heads \subseteq Node
    /\ \A p \in Proc : Owns(p) \subseteq Heads /\ Queued(p) \subseteq Heads
BY DEF TypeInv, TypeOK, CallInv, CallSound, Heads, Owns, Queued

(* A node of a message that is a head is the head of that message. *)
LEMMA HeadsOwnParts ==
  ASSUME IInv, NEW h \in Heads
  PROVE  /\ h \in Node /\ Whole(h) /\ h \in Parts(h) /\ Parts(h) \subseteq Node
         /\ \A g \in Heads : g \in Parts(h) => g = h
<1>1. ListsType /\ Heads \subseteq Node
  BY TypesOfInv, HeadsAreNodes DEF IInv
<1>2. \A g \in Heads : g \in Parts(g) /\ Parts(g) \subseteq Node
  BY <1>1, PartsHave
<1> QED BY <1>1, <1>2 DEF IInv, MessageInv

(* The nodes a process has are those of the messages it has. *)
HandsSound ==
  \A p \in Proc : /\ InHand(p) = UNION {Parts(h) : h \in Owns(p)}
                  /\ InQueue(p) = UNION {Parts(h) : h \in Queued(p)}

LEMMA HandsAre == IInv => HandsSound
<1> SUFFICES ASSUME IInv, NEW p \in Proc
             PROVE  /\ InHand(p) = UNION {Parts(h) : h \in Owns(p)}
                    /\ InQueue(p) = UNION {Parts(h) : h \in Queued(p)}
  BY DEF HandsSound
<1>1. TypeInv /\ ListsType /\ CallSound(p)
  BY TypesOfInv DEF IInv, CallInv
<1>2. pc[p] = "delete" => Parts(cur[p]) = Ring(cont, cur[p])
  <2> SUFFICES ASSUME pc[p] = "delete" PROVE Parts(cur[p]) = Ring(cont, cur[p])
    OBVIOUS
  <2>1. Ring(nont, cur[p]) = {cur[p]}
    BY <1>1, RingOfOne DEF CallSound, ListsType
  <2> QED BY <2>1 DEF Parts
<1>3. InQueue(p) = UNION {Parts(h) : h \in Queued(p)}
  BY DEF InQueue, Queued
<1>4. InHand(p) = UNION {Parts(h) : h \in Owns(p)}
  <2>1. CASE pc[p] = "delete"
    <3>1. CASE pNext[p] = NULL
      BY <1>2, <2>1, <3>1 DEF InHand, Rest, Owns
    <3>2. CASE pNext[p] # NULL
      BY <1>2, <2>1, <3>2 DEF InHand, Rest, Owns
    <3> QED BY <3>1, <3>2
  <2>2. CASE pc[p] # "delete"
    <3>1. pNext[p] = NULL
      BY <1>1, <2>2 DEF CallSound
    <3> QED BY <2>2, <3>1 DEF InHand, Rest, Owns
  <2> QED BY <2>1, <2>2
<1> QED BY <1>3, <1>4

LEMMA HandsAreNext == IInv' => HandsSound'
BY HandsAre, PTL

(* Some messages of the process that moves, Old, with nodes in W, become   *)
(* others, N; whatever else there is stays as it is.                       *)
Reworks(W, Old, N) ==
  /\ Heads' \subseteq (Heads \ Old) \cup N
  /\ \A h \in Heads \ Old : Parts(h) \cap W = {}
  /\ \A n \in Node \ W :
       nont'[n] = nont[n] /\ cont'[n] = cont[n] /\ ucIsFree'[n] = ucIsFree[n]
  /\ \A n \in stale' \cup ({gc'} \ {NULL}) :
       /\ n \in Node \ W
       /\ \/ n \in stale \cup ({gc} \ {NULL})
          \/ ucIsFree[n] = ALLOCED /\ \A h \in Heads : n \notin Parts(h)
  /\ \A h \in N : /\ Whole(h)' /\ Parts(h)' \subseteq W
                  /\ \A n \in Parts(h)' : ucIsFree'[n] = ALLOCED
  /\ \A g, h \in N : g # h => Parts(g)' \cap Parts(h)' = {}

LEMMA Reworked ==
  ASSUME IInv, TypeInv', NEW W, NEW Old, NEW N, Reworks(W, Old, N)
  PROVE  /\ MessageInv' /\ PoolInv'
         /\ \A h \in Heads \ Old : Parts(h)' = Parts(h) /\ nont'[h] = nont[h]
<1>1. ListsType /\ ListsType'
  BY TypesOfInv DEF ListsType, Lists, TypeInv, TypeOK
<1>2. ASSUME NEW h \in Heads \ Old
      PROVE  Whole(h)' /\ Parts(h)' = Parts(h) /\ nont'[h] = nont[h]
             /\ \A n \in Parts(h) : n \in Node \ W
  <2>1. h \in Node /\ Whole(h) /\ h \in Parts(h) /\ Parts(h) \subseteq Node
    BY HeadsOwnParts
  <2>2. \A n \in Parts(h) : n \in Node \ W
    BY <2>1 DEF Reworks
  <2>3. \A n \in Parts(h) : nont'[n] = nont[n] /\ cont'[n] = cont[n]
    BY <2>2 DEF Reworks
  <2> QED BY <1>1, <2>1, <2>2, <2>3, MessageFrame
<1>3. MessageInv'
  <2>1. ASSUME NEW h \in Heads' PROVE Whole(h)'
    BY <1>2, <2>1 DEF Reworks
  <2>2. ASSUME NEW g \in Heads', NEW h \in Heads', g # h PROVE Parts(g)' \cap Parts(h)' = {}
    <3>1. CASE g \in N /\ h \in N
      BY <2>2, <3>1 DEF Reworks
    <3>2. CASE g \notin N /\ h \notin N
      <4>1. g \in Heads \ Old /\ h \in Heads \ Old
        BY <3>2 DEF Reworks
      <4> QED BY <1>2, <2>2, <4>1 DEF IInv, MessageInv
    <3>3. CASE g \in N /\ h \notin N
      BY <1>2, <3>3 DEF Reworks
    <3>4. CASE g \notin N /\ h \in N
      BY <1>2, <3>4 DEF Reworks
    <3> QED BY <3>1, <3>2, <3>3, <3>4
  <2> QED BY <2>1, <2>2 DEF MessageInv
<1>4. PoolInv'
  <2>1. ASSUME NEW h \in Heads', NEW n \in Parts(h)' PROVE ucIsFree'[n] = ALLOCED
    <3>1. CASE h \in N
      BY <2>1, <3>1 DEF Reworks
    <3>2. CASE h \notin N
      <4>1. h \in Heads \ Old
        BY <3>2 DEF Reworks
      <4>2. n \in Parts(h) /\ n \in Node \ W /\ ucIsFree[n] = ALLOCED
        BY <1>2, <2>1, <4>1 DEF IInv, PoolInv
      <4> QED BY <4>2 DEF Reworks
    <3> QED BY <3>1, <3>2
  <2>2. ASSUME NEW n \in stale' \cup ({gc'} \ {NULL})
        PROVE  ucIsFree'[n] = ALLOCED /\ \A h \in Heads' : n \notin Parts(h)'
    <3>1. n \in Node \ W /\ ucIsFree[n] = ALLOCED /\ \A h \in Heads : n \notin Parts(h)
      BY <2>2 DEF Reworks, IInv, PoolInv
    <3>2. ucIsFree'[n] = ALLOCED
      BY <3>1 DEF Reworks
    <3>3. ASSUME NEW h \in Heads' PROVE n \notin Parts(h)'
      <4>1. CASE h \in N
        BY <3>1, <4>1 DEF Reworks
      <4>2. CASE h \notin N
        BY <1>2, <3>1, <4>2 DEF Reworks
      <4> QED BY <4>1, <4>2
    <3> QED BY <3>2, <3>3
  <2> QED BY <2>1, <2>2 DEF PoolInv
<1> QED BY <1>2, <1>3, <1>4

(* A step of p alone: nothing of anybody else, nor what is on its way. *)
Alone(p) ==
  /\ UNCHANGED msgq
  /\ \A q \in Proc \ {p} : /\ pc'[q] = pc[q] /\ held'[q] = held[q]
                           /\ cur'[q] = cur[q] /\ pNext'[q] = pNext[q]
  /\ pc'[p] # "receive"
  /\ \A h \in Node \ Owns(p) : sent'[h] = sent[h]

LEMMA LocalStep ==
  ASSUME IInv, TypeInv', NEW p \in Proc, NEW W, NEW Old \in SUBSET Owns(p), NEW N \in SUBSET Node,
         Reworks(W, Old, N), Alone(p), CallSound(p)',
         Owns(p)' = (Owns(p) \ Old) \cup N, N \cap (Heads \ Old) = {}
  PROVE  /\ IInv'
         /\ \A n : n \in InHand(p)' <=> \/ \E h \in Owns(p) \ Old : n \in Parts(h)
                                     \/ \E h \in N : n \in Parts(h)'
         /\ \A q \in Proc \ {p} : InHand(q)' = InHand(q)
         /\ \A q \in Proc : InQueue(q)' = InQueue(q)
<1>1. TypeInv /\ Heads \subseteq Node
      /\ \A q \in Proc : Owns(q) \subseteq Heads /\ Queued(q) \subseteq Heads
  BY TypesOfInv, HeadsAreNodes DEF IInv
<1>2. \A q \in Proc : Queued(q)' = Queued(q)
  BY DEF Alone, Queued
<1>3. \A q \in Proc \ {p} : Owns(q)' = Owns(q)
  BY DEF Alone, Owns
<1>4. /\ MessageInv' /\ PoolInv'
      /\ \A h \in Heads \ Old : Parts(h)' = Parts(h) /\ nont'[h] = nont[h]
  BY Reworked
<1>5. /\ \A q \in Proc : Queued(q) \cap Owns(p) = {}
      /\ \A q \in Proc \ {p} : Owns(q) \cap Owns(p) = {}
  BY DEF IInv, PlaceInv
<1>6. PlaceInv'
  <2>1. ASSUME NEW q \in Proc, NEW r \in Proc
        PROVE  /\ q # r => Owns(q)' \cap Owns(r)' = {} /\ Queued(q)' \cap Queued(r)' = {}
               /\ Owns(q)' \cap Queued(r)' = {}
    BY <1>1, <1>2, <1>3, <1>5 DEF IInv, PlaceInv
  <2>2. \A q \in Proc : \A i, j \in DOMAIN msgq'[q] : msgq'[q][i] = msgq'[q][j] => i = j
    BY DEF Alone, IInv, PlaceInv
  <2> QED BY <2>1, <2>2 DEF PlaceInv
<1>7. CallInv'
  <2> SUFFICES ASSUME NEW q \in Proc \ {p} PROVE CallSound(q)'
    BY DEF CallInv
  <2>1. CallSound(q)
    BY DEF IInv, CallInv
  <2>2. pc[q] = "delete" => cur[q] \in Owns(q)
    BY DEF Owns
  <2>3. pc[q] = "delete" => nont'[cur[q]] = nont[cur[q]]
    BY <1>1, <1>4, <1>5, <2>2
  <2> QED BY <2>1, <2>3 DEF Alone, CallSound, CINIT_LIST_HEAD
<1>8. SentInv'
  <2> SUFFICES ASSUME NEW q \in Proc
               PROVE  /\ \A h \in Queued(q)' : sent'[h] = Parts(h)'
                      /\ pc'[q] = "receive" => sent'[cur'[q]] = Parts(cur[q])'
    BY DEF SentInv
  <2>1. \A h \in Queued(q) : sent'[h] = Parts(h)'
    BY <1>1, <1>4, <1>5 DEF Alone, IInv, SentInv
  <2>2. ASSUME pc'[q] = "receive" PROVE sent'[cur'[q]] = Parts(cur[q])'
    <3>1. q # p /\ pc[q] = "receive" /\ cur'[q] = cur[q]
      BY <2>2 DEF Alone
    <3>2. cur[q] \in Owns(q) /\ sent[cur[q]] = Parts(cur[q])
      BY <3>1 DEF Owns, IInv, SentInv
    <3>3. cur[q] \in Heads \ Old /\ cur[q] \in Node \ Owns(p)
      BY <1>1, <1>5, <3>1, <3>2
    <3>4. PICK c : c = cur[q]
      OBVIOUS
    <3>5. Parts(c)' = Parts(c) /\ sent'[c] = sent[c] /\ sent[c] = Parts(c)
      BY <1>4, <3>2, <3>3, <3>4 DEF Alone
    <3>6. cur'[q] = c
      BY <3>1, <3>4
    <3> QED BY <3>5, <3>6
  <2> QED BY <1>2, <2>1, <2>2
<1>9. IInv'
  BY <1>4, <1>6, <1>7, <1>8 DEF IInv, TypeInv
<1>10. /\ \A q \in Proc : InHand(q)' = UNION {Parts(h)' : h \in Owns(q)'}
       /\ \A q \in Proc : InQueue(q)' = UNION {Parts(h)' : h \in Queued(q)'}
  BY <1>9, HandsAreNext DEF HandsSound
<1>11. \A q \in Proc \ {p} : InHand(q)' = InHand(q)
  BY <1>1, <1>3, <1>4, <1>5, <1>10, HandsAre DEF HandsSound
<1>12. \A q \in Proc : InQueue(q)' = InQueue(q)
  BY <1>1, <1>2, <1>4, <1>5, <1>10, HandsAre DEF HandsSound
<1>13. \A n : n \in InHand(p)' <=> \/ \E h \in Owns(p) \ Old : n \in Parts(h)
                                   \/ \E h \in N : n \in Parts(h)'
  <2>1. \A h \in Owns(p) \ Old : Parts(h)' = Parts(h)
    BY <1>1, <1>4
  <2>2. \A n : n \in InHand(p)' <=> \E h \in (Owns(p) \ Old) \cup N : n \in Parts(h)'
    BY <1>10
  <2> QED BY <2>1, <2>2
<1> QED BY <1>9, <1>11, <1>12, <1>13

-----------------------------------------------------------------------------
(* The steps of one process                                                *)

(* Process p has the nodes H then, and everybody else what he had. *)
HandBecomes(p, H) ==
  /\ InHand(p)' = H
  /\ \A q \in Proc \ {p} : InHand(q)' = InHand(q)
  /\ \A q \in Proc : InQueue(q)' = InQueue(q)

LEMMA IdleOwns ==
  ASSUME IInv, NEW p \in Proc, pc[p] = "idle"
  PROVE  Owns(p) = held[p] /\ pNext[p] = NULL
BY DEF IInv, CallInv, CallSound, Owns

(* What others have is not changed, and p's heads are new. *)
LEMMA HeadsThen ==
  ASSUME NEW p \in Proc, Alone(p), NEW Old, NEW N, Owns(p)' = (Owns(p) \ Old) \cup N,
         \A h \in Old : \A q \in Proc : h \notin Queued(q) /\ (q # p => h \notin Owns(q))
  PROVE  Heads' \subseteq (Heads \ Old) \cup N
<1>1. \A q \in Proc : Queued(q)' = Queued(q)
  BY DEF Alone, Queued
<1>2. \A q \in Proc \ {p} : Owns(q)' = Owns(q)
  BY DEF Alone, Owns
<1> QED BY <1>1, <1>2 DEF Heads

LEMMA OwnedByOne ==
  ASSUME IInv, NEW p \in Proc, NEW h \in Owns(p)
  PROVE  /\ h \in Heads
         /\ \A q \in Proc : h \notin Queued(q) /\ (q # p => h \notin Owns(q))
BY DEF IInv, PlaceInv, Heads

(* Of the nodes W of the messages Old of p the messages N are made, and    *)
(* the nodes D of W are freed.                                             *)
Remakes(p, Old, W, N, D) ==
  /\ Old \subseteq Owns(p) /\ W \subseteq Node /\ W = UNION {Parts(h) : h \in Old}
  /\ D \subseteq W /\ N \subseteq W /\ Owns(p)' = (Owns(p) \ Old) \cup N
  /\ \A n \in Node \ D : ucIsFree'[n] = ucIsFree[n]
  /\ stale' \subseteq stale /\ UNCHANGED gc
  /\ \A n \in Node \ W : nont'[n] = nont[n] /\ cont'[n] = cont[n]
  /\ \A h \in N : Whole(h)' /\ Parts(h)' \subseteq W \ D
  /\ \A g, h \in N : g # h => Parts(g)' \cap Parts(h)' = {}
  /\ \A n \in W \ D : \E h \in N : n \in Parts(h)'

LEMMA RemakeStep ==
  ASSUME NifoAssumption, IInv, TypeInv', NEW p \in Proc, NEW Old, NEW W, NEW N, NEW D,
         Remakes(p, Old, W, N, D), Alone(p), CallSound(p)'
  PROVE  IInv' /\ HandBecomes(p, InHand(p) \ D)
<1> USE DEF Remakes
<1>1. /\ Old \subseteq Heads
      /\ \A h \in Old : \A q \in Proc : h \notin Queued(q) /\ (q # p => h \notin Owns(q))
  BY OwnedByOne
<1>2. Heads' \subseteq (Heads \ Old) \cup N
  BY <1>1, HeadsThen
<1>3. \A h \in Heads \ Old : Parts(h) \cap W = {}
  BY <1>1 DEF IInv, MessageInv
<1>4. \A n \in W : ucIsFree[n] = ALLOCED
  BY <1>1 DEF IInv, PoolInv
<1>5. \A n \in stale \cup ({gc} \ {NULL}) : n \in Node \ W
  BY <1>1 DEF IInv, PoolInv, TypeOK
<1>6. Reworks(W, Old, N)
  BY <1>2, <1>3, <1>4, <1>5 DEF Reworks
<1>7. N \cap (Heads \ Old) = {} /\ N \in SUBSET Node
  BY <1>3, HeadsOwnParts
<1>8. /\ IInv'
      /\ \A n : n \in InHand(p)' <=> \/ \E h \in Owns(p) \ Old : n \in Parts(h)
                                  \/ \E h \in N : n \in Parts(h)'
      /\ \A q \in Proc \ {p} : InHand(q)' = InHand(q)
      /\ \A q \in Proc : InQueue(q)' = InQueue(q)
  BY <1>6, <1>7, LocalStep
<1>9. InHand(p)' = InHand(p) \ D
  <2>1. \A n : n \in InHand(p) <=> \/ \E h \in Owns(p) \ Old : n \in Parts(h)
                                \/ n \in W
    BY HandsAre DEF HandsSound
  <2>2. \A n : n \in W \ D <=> \E h \in N : n \in Parts(h)'
    OBVIOUS
  <2>3. \A h \in Owns(p) \ Old : Parts(h) \cap D = {}
    BY <1>3, OwnedByOne
  <2> QED BY <1>8, <2>1, <2>2, <2>3
<1> QED BY <1>8, <1>9 DEF HandBecomes

LEMMA AllocStep ==
  ASSUME NifoAssumption, IInv, TypeInv', NEW p \in Proc, NEW n \in Node, nifo_node_alloc(p, n)
  PROVE  IInv' /\ HandBecomes(p, InHand(p) \cup {n})
<1>1. TypeInv /\ ListsType /\ ListsType'
  BY TypesOfInv DEF ListsType, Lists, TypeInv, TypeOK
<1>2. pc[p] = "idle" /\ Owns(p) = held[p] /\ pNext[p] = NULL
  BY IdleOwns DEF nifo_node_alloc
<1>3. Owns(p)' = (Owns(p) \ {}) \cup {n} /\ Alone(p) /\ CallSound(p)'
  <2>1. /\ held' = [held EXCEPT ![p] = @ \cup {n}] /\ held \in [Proc -> SUBSET Node]
        /\ UNCHANGED <<pc, cur, pNext, msgq, sent>>
    BY <1>1 DEF nifo_node_alloc, local, TypeInv, TypeOK
  <2> QED BY <1>2, <2>1 DEF Owns, Alone, CallSound
<1>4. /\ \A h \in Heads : n \notin Parts(h)
      /\ n \notin stale \cup ({gc} \ {NULL})
  BY DEF nifo_node_alloc, IInv, PoolInv, FREE, ALLOCED
<1>5. {n} \cap (Heads \ {}) = {}
  BY <1>4, HeadsOwnParts
<1>6. Whole(n)' /\ Parts(n)' = {n}
  <2>1. nont'[n] = CINIT_LIST_HEAD(n) /\ cont'[n] = CINIT_LIST_HEAD(n)
    BY <1>1 DEF nifo_node_alloc, ListsType, Lists
  <2>2. /\ Ring(nont', n) = {n} /\ IsRing(nont', {n})
        /\ Ring(cont', n) = {n} /\ IsRing(cont', {n})
    BY <1>1, <2>1, RingOfOne DEF ListsType
  <2> QED BY <2>2 DEF Whole, Parts
<1>7. Reworks({n}, {}, {n})
  <2>1. Heads' \subseteq (Heads \ {}) \cup {n}
    BY <1>3, HeadsThen
  <2>2. \A m \in Node \ {n} :
          nont'[m] = nont[m] /\ cont'[m] = cont[m] /\ ucIsFree'[m] = ucIsFree[m]
    BY <1>1 DEF nifo_node_alloc, ListsType, Lists, TypeInv, TypeOK
  <2>3. \A m \in stale' \cup ({gc'} \ {NULL}) :
          m \in Node \ {n} /\ m \in stale \cup ({gc} \ {NULL})
    BY <1>1, <1>4 DEF nifo_node_alloc, TypeInv, TypeOK
  <2>4. ucIsFree'[n] = ALLOCED
    BY <1>1 DEF nifo_node_alloc, TypeInv, TypeOK
  <2> QED BY <1>4, <1>6, <2>1, <2>2, <2>3, <2>4 DEF Reworks
<1>8. /\ IInv'
      /\ \A m : m \in InHand(p)' <=> \/ \E h \in Owns(p) \ {} : m \in Parts(h)
                                  \/ \E h \in {n} : m \in Parts(h)'
      /\ \A q \in Proc \ {p} : InHand(q)' = InHand(q)
      /\ \A q \in Proc : InQueue(q)' = InQueue(q)
  <2>1. {} \in SUBSET Owns(p) /\ {n} \in SUBSET Node
    OBVIOUS
  <2> QED BY <1>3, <1>5, <1>7, <2>1, LocalStep
<1>9. InHand(p)' = InHand(p) \cup {n}
  <2>1. InHand(p) = UNION {Parts(h) : h \in Owns(p)}
    BY HandsAre DEF HandsSound
  <2> QED BY <1>6, <1>8, <2>1
<1> QED BY <1>8, <1>9 DEF HandBecomes

(* Node n is linked to message h of p: they become one. *)
LEMMA JoinStep ==
  ASSUME NifoAssumption, IInv, TypeInv', NEW p \in Proc, NEW h \in Node, NEW b \in Node,
         NEW n \in Node, Link(p, h, b, n),
         ListsType', Whole(h)', Parts(h)' = Parts(h) \cup {n},
         \A m \in Node \ (Parts(h) \cup {n}) : nont'[m] = nont[m] /\ cont'[m] = cont[m]
  PROVE  IInv' /\ HandBecomes(p, InHand(p))
<1>1. TypeInv
  BY TypesOfInv
<1>2. /\ pc[p] = "idle" /\ Owns(p) = held[p] /\ pNext[p] = NULL
      /\ h \in Owns(p) /\ n \in Owns(p) /\ n # h /\ Parts(n) = {n}
  BY IdleOwns DEF Link
<1>3. Owns(p)' = (Owns(p) \ {h, n}) \cup {h} /\ Alone(p) /\ CallSound(p)'
  <2>1. /\ held' = [held EXCEPT ![p] = @ \ {n}] /\ held \in [Proc -> SUBSET Node]
        /\ UNCHANGED <<pc, cur, pNext, msgq, sent>>
    BY <1>1 DEF Link, local, TypeInv, TypeOK
  <2> QED BY <1>2, <2>1 DEF Owns, Alone, CallSound
<1>4. h \in Parts(h) /\ Parts(h) \subseteq Node
  BY <1>2, OwnedByOne, HeadsOwnParts
<1>5. PICK Old, N, W : Old = {h, n} /\ N = {h} /\ W = Parts(h) \cup {n}
  OBVIOUS
<1>6. /\ Old \subseteq Owns(p) /\ W \subseteq Node /\ N \subseteq W
      /\ W = UNION {Parts(g) : g \in Old} /\ Owns(p)' = (Owns(p) \ Old) \cup N
  BY <1>2, <1>3, <1>4, <1>5
<1>7. UNCHANGED <<ucIsFree, stale, gc>>
  BY DEF Link, pool
<1>8. /\ \A m \in Node \ W : nont'[m] = nont[m] /\ cont'[m] = cont[m]
      /\ \A g \in N : Whole(g)' /\ Parts(g)' \subseteq W
      /\ \A f, g \in N : f # g => Parts(f)' \cap Parts(g)' = {}
      /\ \A m \in W : \E g \in N : m \in Parts(g)'
  BY <1>5
<1>9. Remakes(p, Old, W, N, {})
  BY <1>6, <1>7, <1>8 DEF Remakes
<1>10. InHand(p) \ {} = InHand(p)
  OBVIOUS
<1> QED BY <1>3, <1>9, <1>10, RemakeStep

LEMMA LinkContStep ==
  ASSUME NifoAssumption, IInv, TypeInv', NEW p \in Proc, NEW h \in Node, NEW b \in Node,
         NEW n \in Node, nifo_node_link_cont(p, h, b, n)
  PROVE  IInv' /\ HandBecomes(p, InHand(p))
<1>1. /\ Link(p, h, b, n) /\ UNCHANGED nont
      /\ cont' \in {clist_add_tail(cont, n, b), clist_add_head(cont, n, b)}
  BY DEF nifo_node_link_cont
<1>2. h \in Heads /\ n \in Heads /\ n # h /\ b \in Ring(nont, h) /\ Parts(n) = {n}
  BY <1>1, IdleOwns, OwnedByOne DEF Link
<1>3. ListsType /\ Whole(h) /\ Whole(n) /\ n \in Node \ Parts(h)
  BY <1>2, HeadsOwnParts, TypesOfInv
<1>4. /\ ListsType' /\ Whole(h)' /\ Parts(h)' = Parts(h) \cup {n}
      /\ \A m \in Node \ (Parts(h) \cup {n}) : cont'[m] = cont[m]
  BY <1>1, <1>2, <1>3, JoinCont
<1> QED BY <1>1, <1>4, JoinStep

LEMMA LinkNontStep ==
  ASSUME NifoAssumption, IInv, TypeInv', NEW p \in Proc, NEW h \in Node, NEW n \in Node,
         nifo_node_link_nont(p, h, n)
  PROVE  IInv' /\ HandBecomes(p, InHand(p))
<1>1. /\ Link(p, h, h, n) /\ UNCHANGED cont
      /\ nont' \in {clist_add_tail(nont, n, h), clist_add_head(nont, n, h)}
  BY DEF nifo_node_link_nont
<1>2. h \in Heads /\ n \in Heads /\ n # h /\ Parts(n) = {n}
  BY <1>1, IdleOwns, OwnedByOne DEF Link
<1>3. ListsType /\ Whole(h) /\ Whole(n) /\ n \in Node \ Parts(h)
  BY <1>2, HeadsOwnParts, TypesOfInv
<1>4. /\ ListsType' /\ Whole(h)' /\ Parts(h)' = Parts(h) \cup {n}
      /\ \A m \in Node \ (Parts(h) \cup {n}) : nont'[m] = nont[m]
  BY <1>1, <1>2, <1>3, JoinNont
<1> QED BY <1>1, <1>4, JoinStep

(* A message x is taken out of message h of p. *)
LEMMA PartStep ==
  ASSUME NifoAssumption, IInv, TypeInv', NEW p \in Proc, NEW h \in Node, NEW x \in Node,
         pc[p] = "idle", h \in held[p], x # h,
         held' = [held EXCEPT ![p] = @ \cup {x}],
         UNCHANGED <<pool, msgq, local, gc, sent>>,
         Whole(h)', Whole(x)', Parts(x)' \cap Parts(h)' = {},
         x \in Parts(x)', Parts(h) = Parts(h)' \cup Parts(x)',
         \A m \in Node \ Parts(h) : nont'[m] = nont[m] /\ cont'[m] = cont[m]
  PROVE  IInv' /\ HandBecomes(p, InHand(p))
<1>1. TypeInv
  BY TypesOfInv
<1>2. Owns(p) = held[p] /\ pNext[p] = NULL /\ h \in Owns(p)
  BY IdleOwns
<1>3. Owns(p)' = (Owns(p) \ {h}) \cup {h, x} /\ Alone(p) /\ CallSound(p)'
  <2>1. held \in [Proc -> SUBSET Node] /\ UNCHANGED <<pc, cur, pNext, msgq, sent>>
    BY <1>1 DEF local, TypeInv, TypeOK
  <2> QED BY <1>2, <2>1 DEF Owns, Alone, CallSound
<1>4. h \in Parts(h) /\ Parts(h) \subseteq Node
  BY <1>2, OwnedByOne, HeadsOwnParts
<1>5. PICK Old, N, W : Old = {h} /\ N = {h, x} /\ W = Parts(h)
  OBVIOUS
<1>6. /\ Old \subseteq Owns(p) /\ W \subseteq Node /\ N \subseteq W
      /\ W = UNION {Parts(g) : g \in Old} /\ Owns(p)' = (Owns(p) \ Old) \cup N
  BY <1>2, <1>3, <1>4, <1>5
<1>7. UNCHANGED <<ucIsFree, stale, gc>>
  BY DEF pool
<1>8. /\ \A m \in Node \ W : nont'[m] = nont[m] /\ cont'[m] = cont[m]
      /\ \A g \in N : Whole(g)' /\ Parts(g)' \subseteq W
      /\ \A f, g \in N : f # g => Parts(f)' \cap Parts(g)' = {}
      /\ \A m \in W : \E g \in N : m \in Parts(g)'
  BY <1>5
<1>9. Remakes(p, Old, W, N, {})
  BY <1>6, <1>7, <1>8 DEF Remakes
<1>10. InHand(p) \ {} = InHand(p)
  OBVIOUS
<1> QED BY <1>3, <1>9, <1>10, RemakeStep

LEMMA UnlinkNontStep ==
  ASSUME NifoAssumption, IInv, TypeInv', NEW p \in Proc, NEW h \in Node, NEW b \in Node,
         nifo_node_unlink_nont(p, h, b)
  PROVE  IInv' /\ HandBecomes(p, InHand(p))
<1>1. /\ pc[p] = "idle" /\ h \in held[p] /\ b \in Ring(nont, h) /\ b # h
      /\ nont' = clist_del_init(nont, b) /\ UNCHANGED cont
      /\ held' = [held EXCEPT ![p] = @ \cup {b}]
      /\ UNCHANGED <<pool, msgq, local, gc, sent>>
  BY DEF nifo_node_unlink_nont
<1>2. Whole(h) /\ ListsType
  BY <1>1, IdleOwns, OwnedByOne, HeadsOwnParts, TypesOfInv
<1>3. /\ Whole(b)' /\ Parts(b)' = Ring(cont, b)
      /\ \A y \in Ring(nont, h) \ {b} : Whole(y)' /\ Parts(y)' = Parts(h) \ Ring(cont, b)
      /\ \A m \in Node \ Parts(h) : nont'[m] = nont[m]
  BY <1>1, <1>2, SplitNont
<1>4. h \in Ring(nont, h) /\ b \in Ring(cont, b) /\ Ring(cont, b) \subseteq Parts(h)
  BY <1>1, <1>2, PartsHave
<1>5. /\ Whole(h)' /\ Parts(b)' \cap Parts(h)' = {} /\ b \in Parts(b)'
      /\ Parts(h) = Parts(h)' \cup Parts(b)'
  BY <1>1, <1>3, <1>4
<1> QED BY <1>1, <1>3, <1>5, PartStep

LEMMA UnlinkContStep ==
  ASSUME NifoAssumption, IInv, TypeInv', NEW p \in Proc, NEW h \in Node, NEW b \in Node,
         NEW c \in Node, nifo_node_unlink_cont(p, h, b, c)
  PROVE  IInv' /\ HandBecomes(p, InHand(p))
<1>1. /\ pc[p] = "idle" /\ h \in held[p]
      /\ b \in Ring(nont, h) /\ c \in Ring(cont, b) \ {b}
      /\ cont' = clist_del_init(cont, c) /\ UNCHANGED nont
      /\ held' = [held EXCEPT ![p] = @ \cup {c}]
      /\ UNCHANGED <<pool, msgq, local, gc, sent>>
  BY DEF nifo_node_unlink_cont
<1>2. Whole(h) /\ ListsType
  BY <1>1, IdleOwns, OwnedByOne, HeadsOwnParts, TypesOfInv
<1>3. /\ Whole(c)' /\ Parts(c)' = {c}
      /\ Whole(h)' /\ Parts(h)' = Parts(h) \ {c}
      /\ \A m \in Node \ Parts(h) : cont'[m] = cont[m]
  BY <1>1, <1>2, SplitCont
<1>4. c \in Parts(h) /\ c # h
  <2>1. /\ h \in Ring(nont, h) /\ Ring(cont, b) \subseteq Parts(h)
    BY <1>1, <1>2, PartsHave
  <2>2. c # h
    <3> SUFFICES ASSUME c = h PROVE FALSE
      OBVIOUS
    <3>1. h # b /\ h \in Ring(cont, b)
      BY <1>1
    <3> QED BY <1>1, <1>2, <2>1, <3>1, RingsApart
  <2> QED BY <1>1, <2>1, <2>2
<1>5. /\ Parts(c)' \cap Parts(h)' = {} /\ c \in Parts(c)'
      /\ Parts(h) = Parts(h)' \cup Parts(c)'
  BY <1>3, <1>4
<1> QED BY <1>1, <1>3, <1>4, <1>5, PartStep

(* A step of p that leaves nodes and links alone. *)
LEMMA QuietStep ==
  ASSUME NifoAssumption, IInv, TypeInv', NEW p \in Proc, Alone(p), CallSound(p)',
         Owns(p)' \subseteq Owns(p), UNCHANGED <<nont, cont, ucIsFree, gc>>, stale' \subseteq stale
  PROVE  /\ IInv'
         /\ Owns(p)' = Owns(p) => HandBecomes(p, InHand(p))
         /\ Owns(p)' = {} => HandBecomes(p, {})
<1>1. PICK Old, N : Old = Owns(p) \ Owns(p)' /\ N = {}
  OBVIOUS
<1>2. /\ Old \in SUBSET Owns(p) /\ N \in SUBSET Node /\ Owns(p)' = (Owns(p) \ Old) \cup N
      /\ N \cap (Heads \ Old) = {}
  BY <1>1
<1>3. \A h \in Old : \A q \in Proc : h \notin Queued(q) /\ (q # p => h \notin Owns(q))
  BY <1>2, OwnedByOne
<1>4. Heads' \subseteq (Heads \ Old) \cup N
  BY <1>2, <1>3, HeadsThen
<1>5. Reworks({}, Old, N)
  <2>1. \A n \in stale' \cup ({gc'} \ {NULL}) : n \in Node /\ n \in stale \cup ({gc} \ {NULL})
    BY DEF IInv, TypeOK
  <2> QED BY <1>1, <1>4, <2>1 DEF Reworks
<1>6. /\ IInv'
      /\ \A n : n \in InHand(p)' <=> \/ \E h \in Owns(p) \ Old : n \in Parts(h)
                                  \/ \E h \in N : n \in Parts(h)'
      /\ \A q \in Proc \ {p} : InHand(q)' = InHand(q)
      /\ \A q \in Proc : InQueue(q)' = InQueue(q)
  BY <1>2, <1>5, LocalStep
<1>7. ASSUME Owns(p)' = Owns(p) PROVE InHand(p)' = InHand(p)
  <2>1. \A n : n \in InHand(p) <=> \E h \in Owns(p) : n \in Parts(h)
    BY HandsAre DEF HandsSound
  <2> QED BY <1>1, <1>6, <1>7, <2>1
<1>8. ASSUME Owns(p)' = {} PROVE InHand(p)' = {}
  BY <1>1, <1>6, <1>8
<1> QED BY <1>6, <1>7, <1>8 DEF HandBecomes

(* The check never fails a message somebody has. *)
LEMMA AllValid == ASSUME IInv, NEW h \in Heads PROVE Valid(h)
BY DEF IInv, PoolInv, Valid

LEMMA WriteCheckStep ==
  ASSUME NifoAssumption, IInv, TypeInv', NEW p \in Proc, NEW h \in Node, NEW r \in Proc,
         WriteCheck(p, h, r)
  PROVE  IInv' /\ HandBecomes(p, InHand(p))
<1>1. pc[p] = "idle" /\ h \in held[p] /\ Owns(p) = held[p] /\ pNext[p] = NULL
  BY IdleOwns DEF WriteCheck
<1>2. Valid(h)
  BY <1>1, OwnedByOne, AllValid
<1>3. /\ pc' = [pc EXCEPT ![p] = "send"] /\ cur' = [cur EXCEPT ![p] = h]
      /\ stale' = stale \ Parts(h)
      /\ UNCHANGED <<held, pNext, ucIsFree, nont, cont, msgq, gc, sent>>
  BY <1>2 DEF WriteCheck, rings
<1>4. Alone(p) /\ CallSound(p)' /\ Owns(p)' = Owns(p)
  BY <1>1, <1>3 DEF Alone, CallSound, Owns, IInv, TypeOK
<1> QED BY <1>3, <1>4, QuietStep

LEMMA ReadCheckStep ==
  ASSUME NifoAssumption, IInv, TypeInv', NEW p \in Proc, ReadCheck(p)
  PROVE  IInv' /\ HandBecomes(p, InHand(p)) /\ held'[p] = held[p] \cup {cur[p]}
<1>1. /\ pc[p] = "receive" /\ cur[p] \in Node /\ pNext[p] = NULL
      /\ Owns(p) = held[p] \cup {cur[p]}
  BY DEF ReadCheck, Owns, IInv, CallInv, CallSound
<1>2. Valid(cur[p])
  BY <1>1, OwnedByOne, AllValid
<1>3. /\ pc' = [pc EXCEPT ![p] = "idle"] /\ cur' = [cur EXCEPT ![p] = NULL]
      /\ held' = [held EXCEPT ![p] = @ \cup {cur[p]}]
      /\ stale' = stale \ Parts(cur[p]) /\ sent' = [sent EXCEPT ![cur[p]] = {}]
      /\ UNCHANGED <<pNext, ucIsFree, nont, cont, msgq, gc>>
  BY <1>2 DEF ReadCheck, rings
<1>4. /\ pc' [p] = "idle" /\ held'[p] = held[p] \cup {cur[p]} /\ pNext'[p] = NULL
      /\ \A q \in Proc \ {p} : pc'[q] = pc[q] /\ cur'[q] = cur[q] /\ held'[q] = held[q]
      /\ \A h \in Node \ {cur[p]} : sent'[h] = sent[h]
  BY <1>1, <1>3 DEF IInv, TypeOK
<1>5. Alone(p) /\ CallSound(p)' /\ Owns(p)' = Owns(p)
  BY <1>1, <1>3, <1>4 DEF Alone, CallSound, Owns
<1> QED BY <1>3, <1>4, <1>5, QuietStep

LEMMA CrashStep ==
  ASSUME NifoAssumption, IInv, TypeInv', NEW p \in Proc, Crash(p)
  PROVE  IInv' /\ HandBecomes(p, {})
<1>1. /\ pc' = [pc EXCEPT ![p] = "idle"] /\ held' = [held EXCEPT ![p] = {}]
      /\ cur' = [cur EXCEPT ![p] = NULL] /\ pNext' = [pNext EXCEPT ![p] = NULL]
      /\ UNCHANGED <<nont, cont, ucIsFree, stale, gc, msgq, sent>>
  BY DEF Crash, Exit, pool, rings
<1>2. Alone(p) /\ CallSound(p)' /\ Owns(p)' = {}
  BY <1>1 DEF Alone, CallSound, Owns, IInv, TypeOK
<1> QED BY <1>1, <1>2, QuietStep

(* The node after one, if there is one. *)
LEMMA AfterIs ==
  ASSUME NEW list \in Lists, NEW n \in Node, IsRing(list, Ring(list, n)), NULL \notin Node
  PROVE  /\ After(list, n) = NULL => list[n] = CINIT_LIST_HEAD(n) /\ Ring(list, n) = {n}
         /\ After(list, n) # NULL => After(list, n) \in Ring(list, n) \ {n}
<1>1. n \in Ring(list, n) /\ Ring(list, n) \subseteq Node
  BY RingClosed
<1>2. /\ list[n].offset_next \in Node /\ list[n].offset_next \in Ring(list, n)
      /\ list[n] \in Links /\ list[list[n].offset_next].offset_prev = n
  BY <1>1 DEF IsRing, Lists
<1>3. ASSUME After(list, n) = NULL PROVE list[n] = CINIT_LIST_HEAD(n) /\ Ring(list, n) = {n}
  <2>1. list[n].offset_next = n
    BY <1>2, <1>3 DEF After
  <2> QED BY <1>2, <2>1 DEF Links, CINIT_LIST_HEAD, Ring
<1>4. ASSUME After(list, n) # NULL PROVE After(list, n) \in Ring(list, n) \ {n}
  BY <1>2, <1>4 DEF After
<1> QED BY <1>3, <1>4

LEMMA DeleteCallStep ==
  ASSUME NifoAssumption, IInv, TypeInv', NEW p \in Proc, NEW h \in Node, DeleteCall(p, h)
  PROVE  IInv' /\ HandBecomes(p, InHand(p))
<1>1. /\ pc[p] = "idle" /\ h \in held[p] /\ Owns(p) = held[p] /\ h \in Owns(p)
      /\ held' = [held EXCEPT ![p] = @ \ {h}] /\ pc' = [pc EXCEPT ![p] = "delete"]
      /\ pNext' = [pNext EXCEPT ![p] = After(nont, h)] /\ cur' = [cur EXCEPT ![p] = h]
      /\ nont' = clist_del_init(nont, h)
      /\ UNCHANGED <<cont, ucIsFree, stale, gc, msgq, sent>>
  BY IdleOwns DEF DeleteCall, nifo_nont_delete, pool
<1>2. /\ Whole(h) /\ ListsType /\ h \in Parts(h) /\ Parts(h) \subseteq Node
      /\ \A g \in Heads : g \in Parts(h) => g = h
  BY <1>1, OwnedByOne, HeadsOwnParts, TypesOfInv
<1>3. /\ h \in Ring(nont, h) /\ h \in Ring(cont, h) /\ Ring(nont, h) \subseteq Parts(h)
      /\ Ring(cont, h) \subseteq Parts(h)
  BY <1>2, PartsHave
<1>4. /\ nont'[h] = CINIT_LIST_HEAD(h) /\ Whole(h)' /\ Parts(h)' = Ring(cont, h)
      /\ \A y \in Ring(nont, h) \ {h} : Whole(y)' /\ Parts(y)' = Parts(h) \ Ring(cont, h)
      /\ \A m \in Node \ Parts(h) : nont'[m] = nont[m]
  BY <1>1, <1>2, <1>3, SplitNont
<1>5. /\ pc'[p] = "delete" /\ cur'[p] = h /\ pNext'[p] = After(nont, h)
      /\ held'[p] = held[p] \ {h}
      /\ \A q \in Proc \ {p} : /\ pc'[q] = pc[q] /\ cur'[q] = cur[q]
                               /\ pNext'[q] = pNext[q] /\ held'[q] = held[q]
  BY <1>1 DEF IInv, TypeOK
<1>6. Alone(p)
  BY <1>1, <1>5 DEF Alone
<1>7. /\ After(nont, h) = NULL => Ring(nont, h) = {h}
      /\ After(nont, h) # NULL => After(nont, h) \in Ring(nont, h) \ {h}
  BY <1>2, AfterIs, NifoAssumption DEF ListsType, Whole, NifoAssumption
<1>8. After(nont, h) \notin held[p] /\ After(nont, h) # h
  <2>1. CASE After(nont, h) = NULL
    BY <2>1 DEF IInv, TypeOK, NifoAssumption
  <2>2. CASE After(nont, h) # NULL
    BY <1>1, <1>2, <1>3, <1>7, <2>2, OwnedByOne
  <2> QED BY <2>1, <2>2
<1>9. CallSound(p)'
  BY <1>4, <1>5, <1>8 DEF CallSound, CINIT_LIST_HEAD
<1>10. CASE After(nont, h) = NULL
  <2>1. Parts(h) = Ring(cont, h)
    BY <1>7, <1>10 DEF Parts
  <2>2. PICK Old, N, W : Old = {h} /\ N = {h} /\ W = Parts(h)
    OBVIOUS
  <2>3. Owns(p)' = (Owns(p) \ Old) \cup N
    BY <1>1, <1>5, <1>10, <2>2 DEF Owns
  <2>4. Remakes(p, Old, W, N, {})
    BY <1>1, <1>2, <1>4, <2>1, <2>2, <2>3 DEF Remakes
  <2>5. InHand(p) \ {} = InHand(p)
    OBVIOUS
  <2> QED BY <1>6, <1>9, <2>4, <2>5, RemakeStep
<1>11. CASE After(nont, h) # NULL
  <2>0. PICK y : y = After(nont, h)
    OBVIOUS
  <2>1. /\ y # h /\ y \in Parts(h) /\ Whole(y)' /\ Parts(y)' = Parts(h) \ Ring(cont, h)
    BY <1>3, <1>4, <1>7, <1>11, <2>0
  <2>2. PICK Old, N, W : Old = {h} /\ N = {h, y} /\ W = Parts(h)
    OBVIOUS
  <2>3. Owns(p)' = (Owns(p) \ Old) \cup N
    BY <1>1, <1>5, <1>11, <2>0, <2>2 DEF Owns
  <2>4. Remakes(p, Old, W, N, {})
    BY <1>1, <1>2, <1>3, <1>4, <2>1, <2>2, <2>3 DEF Remakes
  <2>5. InHand(p) \ {} = InHand(p)
    OBVIOUS
  <2> QED BY <1>6, <1>9, <2>4, <2>5, RemakeStep
<1> QED BY <1>10, <1>11

LEMMA ContDeleteStep ==
  ASSUME NifoAssumption, IInv, TypeInv', NEW p \in Proc, nifo_cont_delete(p)
  PROVE  /\ IInv' /\ HandBecomes(p, InHand(p) \ {cur[p]})
         /\ cur[p] \in InHand(p) /\ ucIsFree' = [ucIsFree EXCEPT ![cur[p]] = FREE]
<1>0. PICK n : n = cur[p]
  OBVIOUS
<1>1. /\ pc[p] = "delete" /\ n \in Node /\ n \in Owns(p) /\ n \in Heads
      /\ n \notin held[p] /\ n # pNext[p] /\ nont[n] = CINIT_LIST_HEAD(n)
      /\ Owns(p) = held[p] \cup {n} \cup ({pNext[p]} \ {NULL})
  <2>1. pc[p] = "delete" /\ CallSound(p) /\ n \in Owns(p)
    BY <1>0 DEF nifo_cont_delete, IInv, CallInv, Owns
  <2> QED BY <1>0, <2>1, OwnedByOne DEF CallSound, Owns
<1>2. /\ Whole(n) /\ n \in Parts(n) /\ Parts(n) \subseteq Node /\ ListsType /\ ListsType'
      /\ \A g \in Heads : g \in Parts(n) => g = n
  BY <1>1, HeadsOwnParts, TypesOfInv DEF ListsType, Lists, TypeInv, TypeOK
<1>3. ucIsFree[n] = ALLOCED
  BY <1>1, <1>2 DEF IInv, PoolInv
<1>4. /\ cont' = clist_del_init(cont, n) /\ ucIsFree' = [ucIsFree EXCEPT ![n] = FREE]
      /\ stale' = stale \ {n} /\ UNCHANGED <<held, msgq, gc, sent>>
      /\ IF After(cont, n) # NULL
           THEN cur' = [cur EXCEPT ![p] = After(cont, n)] /\ UNCHANGED <<pc, pNext, nont>>
           ELSE DeleteNext(p)
  BY <1>0, <1>3 DEF nifo_cont_delete
<1>5. \A m \in Node \ {n} : ucIsFree'[m] = ucIsFree[m]
  BY <1>4 DEF IInv, TypeOK
<1>6. Parts(n) = Ring(cont, n) /\ IsRing(cont, Ring(cont, n))
  <2>1. Ring(nont, n) = {n}
    BY <1>1, <1>2, RingOfOne DEF ListsType
  <2> QED BY <1>2, <2>1 DEF Parts, Whole
<1>7. /\ After(cont, n) = NULL => cont[n] = CINIT_LIST_HEAD(n) /\ Parts(n) = {n}
      /\ After(cont, n) # NULL => After(cont, n) \in Parts(n) \ {n}
  BY <1>2, <1>6, AfterIs, NifoAssumption DEF ListsType, NifoAssumption
<1>8. ASSUME After(cont, n) # NULL PROVE IInv' /\ HandBecomes(p, InHand(p) \ {n})
  <2>1. PICK c : c = After(cont, n)
    OBVIOUS
  <2>2. c \in Parts(n) /\ c # n /\ c \in Node /\ c \notin Heads
    BY <1>2, <1>7, <1>8, <2>1
  <2>3. /\ nont'[c] = CINIT_LIST_HEAD(c) /\ Whole(c)' /\ Parts(c)' = Parts(n) \ {n}
        /\ \A m \in Node \ Parts(n) : cont'[m] = cont[m]
    BY <1>1, <1>2, <1>4, <1>6, <1>8, <2>2, TakeNode DEF ListsType
  <2>4. /\ pc'[p] = "delete" /\ cur'[p] = c /\ held'[p] = held[p] /\ pNext'[p] = pNext[p]
        /\ \A q \in Proc \ {p} : cur'[q] = cur[q]
    BY <1>1, <1>4, <1>8, <2>1 DEF IInv, TypeOK
  <2>5. c \notin held[p] /\ c # pNext[p]
    BY <1>1, <2>2, HeadsAreNodes, TypesOfInv, NifoAssumption DEF IInv, NifoAssumption
  <2>6. Alone(p)
    BY <1>4, <1>8, <2>4 DEF Alone
  <2>7. CallSound(p)'
    <3>1. CallSound(p)
      BY DEF IInv, CallInv
    <3> QED BY <1>1, <2>2, <2>3, <2>4, <2>5, <3>1 DEF CallSound, CINIT_LIST_HEAD
  <2>8. PICK Old, W, N, D : Old = {n} /\ W = Parts(n) /\ N = {c} /\ D = {n}
    OBVIOUS
  <2>9. Owns(p)' = (Owns(p) \ Old) \cup N
    BY <1>1, <2>4, <2>8 DEF Owns
  <2>10. Remakes(p, Old, W, N, D)
    BY <1>1, <1>2, <1>4, <1>5, <1>8, <2>2, <2>3, <2>8, <2>9 DEF Remakes
  <2>11. IInv' /\ HandBecomes(p, InHand(p) \ D)
    BY <2>6, <2>7, <2>10, RemakeStep
  <2> QED BY <2>8, <2>11 DEF HandBecomes
<1>9. ASSUME After(cont, n) = NULL PROVE IInv' /\ HandBecomes(p, InHand(p) \ {n})
  <2>1. cont[n] = CINIT_LIST_HEAD(n) /\ Parts(n) = {n} /\ DeleteNext(p)
    BY <1>4, <1>7, <1>9
  <2>2. UNCHANGED cont
    <3>1. cont \in Lists /\ cont' = clist_del_init(cont, n)
      BY <1>2, <1>4 DEF ListsType
    <3> QED BY <1>1, <2>1, <3>1 DEF clist_del_init, CINIT_LIST_HEAD, Lists
  <2>3. CASE pNext[p] = NULL
    <3>1. UNCHANGED nont /\ pc'[p] = "idle" /\ pNext'[p] = NULL /\ held'[p] = held[p]
          /\ \A q \in Proc \ {p} : pc'[q] = pc[q] /\ cur'[q] = cur[q] /\ pNext'[q] = pNext[q]
      BY <1>4, <2>1, <2>3 DEF DeleteNext, IInv, TypeOK
    <3>2. Alone(p) /\ CallSound(p)'
      BY <1>4, <3>1 DEF Alone, CallSound
    <3>3. PICK Old, W, N, D : Old = {n} /\ W = {n} /\ N = {} /\ D = {n}
      OBVIOUS
    <3>4. Owns(p)' = (Owns(p) \ Old) \cup N
      BY <1>1, <2>3, <3>1, <3>3 DEF Owns
    <3>5. Remakes(p, Old, W, N, D)
      BY <1>1, <1>4, <1>5, <2>1, <2>2, <3>1, <3>3, <3>4 DEF Remakes
    <3>6. IInv' /\ HandBecomes(p, InHand(p) \ D)
      BY <3>2, <3>5, RemakeStep
    <3> QED BY <3>3, <3>6 DEF HandBecomes
  <2>4. CASE pNext[p] # NULL
    <3>0. PICK b, y : b = pNext[p] /\ y = After(nont, b)
      OBVIOUS
    <3>1. /\ b \in Owns(p) /\ b \in Heads /\ b # n /\ b \notin held[p] /\ b # NULL
      <4>1. b \in Owns(p) /\ b # n /\ b # NULL
        BY <1>1, <2>4, <3>0
      <4>2. b \notin held[p]
        BY <2>4, <3>0 DEF IInv, CallInv, CallSound
      <4> QED BY <4>1, <4>2, OwnedByOne
    <3>2. /\ b \in Node /\ Whole(b) /\ b \in Parts(b) /\ Parts(b) \subseteq Node
          /\ \A g \in Heads : g \in Parts(b) => g = b
      BY <3>1, HeadsOwnParts
    <3>3. /\ nont' = clist_del_init(nont, b) /\ pc'[p] = "delete" /\ cur'[p] = b
          /\ pNext'[p] = y /\ held'[p] = held[p]
          /\ \A q \in Proc \ {p} : pc'[q] = pc[q] /\ cur'[q] = cur[q] /\ pNext'[q] = pNext[q]
      BY <1>1, <1>4, <2>1, <2>4, <3>0 DEF DeleteNext, nifo_nont_delete, IInv, TypeOK
    <3>4. /\ b \in Ring(nont, b) /\ b \in Ring(cont, b) /\ Ring(nont, b) \subseteq Parts(b)
          /\ Ring(cont, b) \subseteq Parts(b)
      BY <1>2, <3>2, PartsHave
    <3>5. /\ nont'[b] = CINIT_LIST_HEAD(b) /\ Whole(b)' /\ Parts(b)' = Ring(cont, b)
          /\ \A x \in Ring(nont, b) \ {b} : Whole(x)' /\ Parts(x)' = Parts(b) \ Ring(cont, b)
          /\ \A m \in Node \ Parts(b) : nont'[m] = nont[m]
      BY <1>2, <2>2, <3>2, <3>3, <3>4, SplitNont
    <3>6. /\ y = NULL => Ring(nont, b) = {b}
          /\ y # NULL => y \in Ring(nont, b) \ {b}
      BY <1>2, <3>0, <3>2, AfterIs, NifoAssumption DEF ListsType, Whole, NifoAssumption
    <3>7. n \notin Parts(b) /\ y # b /\ (y # NULL => y \notin Heads)
      BY <1>1, <3>1, <3>2, <3>4, <3>6
    <3>8. y \notin held[p]
      BY <3>7, HeadsAreNodes, TypesOfInv, NifoAssumption DEF IInv, TypeOK, Heads, Owns, NifoAssumption
    <3>9. Alone(p) /\ CallSound(p)'
      BY <1>4, <3>1, <3>2, <3>3, <3>5, <3>7, <3>8 DEF Alone, CallSound, CINIT_LIST_HEAD
    <3>10. PICK Old, W, N, D : /\ Old = {n, b} /\ W = Parts(b) \cup {n} /\ D = {n}
                               /\ N = {b} \cup ({y} \ {NULL})
      OBVIOUS
    <3>11. Owns(p)' = (Owns(p) \ Old) \cup N
      BY <1>1, <3>0, <3>1, <3>3, <3>10 DEF Owns
    <3>12. /\ \A g \in N : Whole(g)' /\ Parts(g)' \subseteq W \ D
           /\ \A f, g \in N : f # g => Parts(f)' \cap Parts(g)' = {}
           /\ \A m \in W \ D : \E g \in N : m \in Parts(g)'
      <4>1. CASE y = NULL
        <5>1. Parts(b) = Ring(cont, b)
          BY <3>6, <4>1 DEF Parts
        <5> QED BY <3>5, <3>7, <3>10, <4>1, <5>1
      <4>2. CASE y # NULL
        <5>1. y \in Ring(nont, b) \ {b} /\ N = {b, y}
          BY <3>6, <3>10, <4>2
        <5> QED BY <3>4, <3>5, <3>7, <3>10, <5>1
      <4> QED BY <4>1, <4>2
    <3>13. /\ Old \subseteq Owns(p) /\ W \subseteq Node /\ W = UNION {Parts(h) : h \in Old}
           /\ D \subseteq W /\ N \subseteq W
      BY <1>1, <2>1, <3>1, <3>2, <3>4, <3>6, <3>10
    <3>14. Remakes(p, Old, W, N, D)
      BY <1>4, <1>5, <2>2, <3>5, <3>10, <3>11, <3>12, <3>13 DEF Remakes
    <3>15. IInv' /\ HandBecomes(p, InHand(p) \ D)
      BY <3>9, <3>14, RemakeStep
    <3> QED BY <3>10, <3>15 DEF HandBecomes
  <2> QED BY <2>3, <2>4
<1>10. n \in InHand(p)
  BY <1>1, <1>2, HandsAre DEF HandsSound
<1>11. IInv' /\ HandBecomes(p, InHand(p) \ {n})
  BY <1>8, <1>9
<1> QED BY <1>0, <1>4, <1>10, <1>11 DEF HandBecomes

-----------------------------------------------------------------------------
(* Messages on their way, and the pool                                     *)

(* Nobody's nodes are changed, no message is made. *)
LEMMA Still ==
  ASSUME NifoAssumption, IInv, TypeInv', Heads' \subseteq Heads,
         UNCHANGED <<nont, cont, ucIsFree, gc>>, stale' \subseteq stale
  PROVE  MessageInv' /\ PoolInv' /\ \A h \in Heads : Parts(h)' = Parts(h)
<1>1. \A n \in stale' \cup ({gc'} \ {NULL}) : n \in Node /\ n \in stale \cup ({gc} \ {NULL})
  BY DEF IInv, TypeOK
<1>2. Reworks({}, {}, {})
  BY <1>1 DEF Reworks
<1> QED BY <1>2, Reworked

(* A process that owns the same messages, with the same nodes, has the same *)
(* nodes in hand; a queue likewise.                                        *)
LEMMA SameHand ==
  ASSUME NEW q \in Proc, HandsSound, HandsSound', Owns(q)' = Owns(q),
         \A h \in Owns(q) : Parts(h)' = Parts(h)
  PROVE  InHand(q)' = InHand(q)
<1>1. ASSUME NEW n PROVE n \in InHand(q) <=> \E h \in Owns(q) : n \in Parts(h)
  BY DEF HandsSound
<1>2. ASSUME NEW n PROVE n \in InHand(q)' <=> \E h \in Owns(q)' : n \in Parts(h)'
  BY DEF HandsSound
<1>3. ASSUME NEW n PROVE n \in InHand(q)' <=> n \in InHand(q)
  BY <1>1, <1>2
<1> QED BY <1>3

LEMMA SameQueue ==
  ASSUME NEW q \in Proc, HandsSound, HandsSound', Queued(q)' = Queued(q),
         \A h \in Queued(q) : Parts(h)' = Parts(h)
  PROVE  InQueue(q)' = InQueue(q)
<1>1. ASSUME NEW n PROVE n \in InQueue(q) <=> \E h \in Queued(q) : n \in Parts(h)
  BY DEF HandsSound
<1>2. ASSUME NEW n PROVE n \in InQueue(q)' <=> \E h \in Queued(q)' : n \in Parts(h)'
  BY DEF HandsSound
<1>3. ASSUME NEW n PROVE n \in InQueue(q)' <=> n \in InQueue(q)
  BY <1>1, <1>2
<1> QED BY <1>3

(* p's message c is in queue r now, or nothing happened. *)
MessageSent(p, r, c) ==
  /\ InHand(p)' = InHand(p) \ Parts(c) /\ Parts(c) \subseteq InHand(p)
  /\ InQueue(r)' = InQueue(r) \cup Parts(c)
  /\ \A q \in Proc \ {p} : InHand(q)' = InHand(q)
  /\ \A q \in Proc \ {r} : InQueue(q)' = InQueue(q)

LEMMA WriteSendStep ==
  ASSUME NifoAssumption, IInv, TypeInv', NEW p \in Proc, WriteSend(p)
  PROVE  IInv' /\ (HandBecomes(p, InHand(p)) \/ \E r \in Proc, c \in Node : MessageSent(p, r, c))
<1>1. PICK c, r : c = cur[p] /\ r = dest[p]
  OBVIOUS
<1>2. /\ pc[p] = "send" /\ c \in held[p] /\ c \in Node /\ r \in Proc /\ pNext[p] = NULL
      /\ Owns(p) = held[p] /\ c \in Owns(p)
  BY <1>1 DEF WriteSend, Owns, IInv, CallInv, CallSound, TypeOK
<1>3. /\ pc' = [pc EXCEPT ![p] = "idle"] /\ cur' = [cur EXCEPT ![p] = NULL]
      /\ UNCHANGED <<pNext, nont, cont, ucIsFree, stale, gc>>
  BY DEF WriteSend, pool, rings
<1>4. /\ c \in Heads /\ \A q \in Proc : c \notin Queued(q) /\ (q # p => c \notin Owns(q))
  BY <1>2, OwnedByOne
<1>5. CASE QueueFull(r)
  <2>1. UNCHANGED <<msgq, held, sent>>
    BY <1>1, <1>5 DEF WriteSend
  <2>2. Alone(p) /\ CallSound(p)' /\ Owns(p)' = Owns(p)
    BY <1>2, <1>3, <2>1 DEF Alone, CallSound, Owns, IInv, TypeOK
  <2> QED BY <1>3, <2>2, QuietStep
<1>6. CASE ~QueueFull(r)
  <2>1. /\ msgq' = [msgq EXCEPT ![r] = Append(@, c)] /\ held' = [held EXCEPT ![p] = @ \ {c}]
        /\ sent' = [sent EXCEPT ![c] = Parts(c)]
    BY <1>1, <1>6 DEF WriteSend, Handed
  <2>2. /\ pc'[p] = "idle" /\ held'[p] = held[p] \ {c} /\ pNext'[p] = NULL
        /\ \A q \in Proc \ {p} : /\ pc'[q] = pc[q] /\ held'[q] = held[q]
                                 /\ cur'[q] = cur[q] /\ pNext'[q] = pNext[q]
        /\ sent'[c] = Parts(c) /\ \A h \in Node \ {c} : sent'[h] = sent[h]
        /\ msgq'[r] = Append(msgq[r], c) /\ \A q \in Proc \ {r} : msgq'[q] = msgq[q]
        /\ msgq[r] \in Seq(Node)
    BY <1>2, <1>3, <2>1 DEF IInv, TypeOK
  <2>3. Owns(p)' = Owns(p) \ {c} /\ \A q \in Proc \ {p} : Owns(q)' = Owns(q)
    BY <1>2, <2>2 DEF Owns
  <2>4. Queued(r)' = Queued(r) \cup {c} /\ \A q \in Proc \ {r} : Queued(q)' = Queued(q)
    <3>1. /\ DOMAIN msgq'[r] = 1 .. Len(msgq[r]) + 1 /\ DOMAIN msgq[r] = 1 .. Len(msgq[r])
          /\ \A i \in 1 .. Len(msgq[r]) : msgq'[r][i] = msgq[r][i]
          /\ msgq'[r][Len(msgq[r]) + 1] = c /\ Len(msgq[r]) \in Nat
      BY <1>2, <2>2
    <3>2. Queued(r)' = Queued(r) \cup {c}
      BY <3>1 DEF Queued
    <3> QED BY <2>2, <3>2 DEF Queued
  <2>5. Heads' \subseteq Heads
    BY <1>2, <1>4, <2>3, <2>4 DEF Heads
  <2>6. MessageInv' /\ PoolInv' /\ \A h \in Heads : Parts(h)' = Parts(h)
    BY <1>3, <2>5, Still
  <2>7. PlaceInv'
    <3>1. ASSUME NEW q \in Proc, NEW s \in Proc
          PROVE  /\ q # s => Owns(q)' \cap Owns(s)' = {} /\ Queued(q)' \cap Queued(s)' = {}
                 /\ Owns(q)' \cap Queued(s)' = {}
      BY <1>2, <1>4, <2>3, <2>4 DEF IInv, PlaceInv
    <3>2. ASSUME NEW q \in Proc, NEW i \in DOMAIN msgq'[q], NEW j \in DOMAIN msgq'[q],
                 msgq'[q][i] = msgq'[q][j]
          PROVE  i = j
      <4>1. CASE q # r
        BY <2>2, <3>2, <4>1 DEF IInv, PlaceInv
      <4>2. CASE q = r
        <5>1. \A k \in DOMAIN msgq[r] : msgq[r][k] # c
          BY <1>2, <1>4 DEF Queued
        <5>2. \A k, l \in DOMAIN msgq[r] : msgq[r][k] = msgq[r][l] => k = l
          BY <1>2 DEF IInv, PlaceInv
        <5> QED BY SMTT(30), <2>2, <3>2, <4>2, <5>1, <5>2
      <4> QED BY <4>1, <4>2
    <3> QED BY <3>1, <3>2 DEF PlaceInv
  <2>8. CallInv'
    BY <1>3, <2>2 DEF CallInv, CallSound, IInv, CINIT_LIST_HEAD
  <2>9. SentInv'
    <3> SUFFICES ASSUME NEW q \in Proc
                 PROVE  /\ \A h \in Queued(q)' : sent'[h] = Parts(h)'
                        /\ pc'[q] = "receive" => sent'[cur'[q]] = Parts(cur[q])'
      BY DEF SentInv
    <3>0. Heads \subseteq Node /\ Queued(q) \subseteq Heads /\ Owns(q) \subseteq Heads
      BY HeadsAreNodes, TypesOfInv DEF IInv
    <3>1. \A h \in Queued(q) : sent'[h] = Parts(h)' /\ sent'[c] = Parts(c)'
      BY <1>4, <2>2, <2>6, <3>0 DEF IInv, SentInv
    <3>2. ASSUME pc'[q] = "receive" PROVE sent'[cur'[q]] = Parts(cur[q])'
      <4>1. PICK d : d = cur[q]
        OBVIOUS
      <4>2. q # p /\ cur'[q] = d /\ d \in Owns(q) /\ sent[d] = Parts(d)
        BY <2>2, <3>2, <4>1 DEF Owns, IInv, SentInv
      <4>3. sent'[d] = sent[d] /\ Parts(d)' = Parts(d)
        BY <1>4, <2>2, <2>6, <3>0, <4>2
      <4> QED BY <4>2, <4>3
    <3>3. sent'[c] = Parts(c)'
      BY <1>4, <2>2, <2>6
    <3> QED BY <2>4, <3>1, <3>2, <3>3
  <2>10. IInv'
    BY <2>6, <2>7, <2>8, <2>9 DEF IInv, TypeInv
  <2>11. MessageSent(p, r, c)
    <3>1. \A q \in Proc : /\ InHand(q) = UNION {Parts(h) : h \in Owns(q)}
                          /\ InQueue(q) = UNION {Parts(h) : h \in Queued(q)}
                          /\ InHand(q)' = UNION {Parts(h)' : h \in Owns(q)'}
                          /\ InQueue(q)' = UNION {Parts(h)' : h \in Queued(q)'}
                          /\ Owns(q) \subseteq Heads /\ Queued(q) \subseteq Heads
      BY <2>10, HandsAre, HandsAreNext, HeadsAreNodes, TypesOfInv DEF HandsSound, IInv
    <3>2. InHand(p)' = InHand(p) \ Parts(c)
      <4>1. \A h \in Owns(p) \ {c} : Parts(h) \cap Parts(c) = {} /\ Parts(h)' = Parts(h)
        BY <1>4, <2>6, <3>1 DEF IInv, MessageInv
      <4> QED BY <1>2, <2>3, <3>1, <4>1
    <3>3. InQueue(r)' = InQueue(r) \cup Parts(c)
      BY <1>2, <1>4, <2>4, <2>6, <3>1
    <3>4. ASSUME NEW q \in Proc \ {p} PROVE InHand(q)' = InHand(q)
      <4>1. Owns(q)' = Owns(q) /\ \A h \in Owns(q) : Parts(h)' = Parts(h)
        BY <2>3, <2>6, <3>1
      <4> QED BY <2>10, <4>1, HandsAre, HandsAreNext, SameHand
    <3>5. ASSUME NEW q \in Proc \ {r} PROVE InQueue(q)' = InQueue(q)
      <4>1. Queued(q)' = Queued(q) /\ \A h \in Queued(q) : Parts(h)' = Parts(h)
        BY <2>4, <2>6, <3>1
      <4> QED BY <2>10, <4>1, HandsAre, HandsAreNext, SameQueue
    <3>6. Parts(c) \subseteq InHand(p)
      BY <1>2, <3>1
    <3> QED BY <3>2, <3>3, <3>4, <3>5, <3>6 DEF MessageSent
  <2> QED BY <1>2, <2>10, <2>11
<1> QED BY <1>5, <1>6

(* Message c came from p's queue. *)
MessageTaken(p, c) ==
  /\ InHand(p)' = InHand(p) \cup Parts(c)
  /\ InQueue(p)' = InQueue(p) \ Parts(c) /\ Parts(c) \subseteq InQueue(p)
  /\ \A q \in Proc \ {p} : InHand(q)' = InHand(q) /\ InQueue(q)' = InQueue(q)

LEMMA ReadReceiveStep ==
  ASSUME NifoAssumption, IInv, TypeInv', NEW p \in Proc, ReadReceive(p)
  PROVE  IInv' /\ \E c \in Node : MessageTaken(p, c)
<1>1. PICK c : c = Head(msgq[p])
  OBVIOUS
<1>2. /\ pc[p] = "idle" /\ Owns(p) = held[p] /\ pNext[p] = NULL
      /\ msgq[p] \in Seq(Node) /\ msgq[p] # <<>>
  BY IdleOwns DEF ReadReceive, IInv, TypeOK
<1>3. /\ msgq' = [msgq EXCEPT ![p] = Tail(@)] /\ pc' = [pc EXCEPT ![p] = "receive"]
      /\ cur' = [cur EXCEPT ![p] = c]
      /\ UNCHANGED <<nont, cont, ucIsFree, stale, gc, held, pNext, sent>>
  BY <1>1 DEF ReadReceive, pool, rings
<1>4. /\ pc'[p] = "receive" /\ cur'[p] = c /\ msgq'[p] = Tail(msgq[p])
      /\ \A q \in Proc \ {p} : pc'[q] = pc[q] /\ cur'[q] = cur[q] /\ msgq'[q] = msgq[q]
  BY <1>3 DEF IInv, TypeOK
<1>5. /\ Len(msgq[p]) \in Nat \ {0} /\ DOMAIN msgq[p] = 1 .. Len(msgq[p]) /\ msgq[p][1] = c
      /\ DOMAIN msgq'[p] = 1 .. Len(msgq[p]) - 1
      /\ \A i \in 1 .. Len(msgq[p]) - 1 : msgq'[p][i] = msgq[p][i + 1]
  BY <1>1, <1>2, <1>4
<1>6. \A i, j \in DOMAIN msgq[p] : msgq[p][i] = msgq[p][j] => i = j
  BY DEF IInv, PlaceInv
<1>7. /\ Queued(p)' = Queued(p) \ {c} /\ c \in Queued(p)
      /\ \A q \in Proc \ {p} : Queued(q)' = Queued(q)
  <2>1. c \in Queued(p)
    BY <1>5 DEF Queued
  <2>2. Queued(p)' \subseteq Queued(p) \ {c}
    <3> SUFFICES ASSUME NEW i \in DOMAIN msgq'[p] PROVE msgq'[p][i] \in Queued(p) \ {c}
      BY DEF Queued
    <3>1. /\ i + 1 \in DOMAIN msgq[p] /\ 1 \in DOMAIN msgq[p] /\ i + 1 # 1
          /\ msgq'[p][i] = msgq[p][i + 1]
      BY <1>5
    <3> QED BY <1>5, <1>6, <3>1 DEF Queued
  <2>3. Queued(p) \ {c} \subseteq Queued(p)'
    <3> SUFFICES ASSUME NEW i \in DOMAIN msgq[p], msgq[p][i] # c PROVE msgq[p][i] \in Queued(p)'
      BY DEF Queued
    <3>1. i - 1 \in DOMAIN msgq'[p] /\ msgq'[p][i - 1] = msgq[p][i]
      BY <1>5
    <3> QED BY <3>1 DEF Queued
  <2>4. Queued(p)' = Queued(p) \ {c}
    BY <2>2, <2>3
  <2>5. ASSUME NEW q \in Proc \ {p} PROVE Queued(q)' = Queued(q)
    BY <1>4 DEF Queued
  <2> QED BY <2>1, <2>4, <2>5
<1>8. /\ \A q \in Proc : Owns(q) \subseteq Heads /\ Queued(q) \subseteq Heads
      /\ Heads \subseteq Node /\ c \in Heads /\ c \in Node
      /\ \A q \in Proc : c \notin Owns(q) /\ (q # p => c \notin Queued(q))
  BY <1>7, HeadsAreNodes, TypesOfInv DEF IInv, PlaceInv
<1>9. Owns(p)' = Owns(p) \cup {c} /\ \A q \in Proc \ {p} : Owns(q)' = Owns(q)
  BY <1>2, <1>3, <1>4 DEF Owns
<1>10. Heads' \subseteq Heads
  BY <1>7, <1>8, <1>9 DEF Heads
<1>11. MessageInv' /\ PoolInv' /\ \A h \in Heads : Parts(h)' = Parts(h)
  BY <1>3, <1>10, Still
<1>12. PlaceInv'
  <2>1. ASSUME NEW q \in Proc, NEW s \in Proc
        PROVE  /\ q # s => Owns(q)' \cap Owns(s)' = {} /\ Queued(q)' \cap Queued(s)' = {}
               /\ Owns(q)' \cap Queued(s)' = {}
    BY <1>7, <1>8, <1>9 DEF IInv, PlaceInv
  <2>2. ASSUME NEW q \in Proc, NEW i \in DOMAIN msgq'[q], NEW j \in DOMAIN msgq'[q],
               msgq'[q][i] = msgq'[q][j]
        PROVE  i = j
    <3>1. CASE q # p
      BY <1>4, <2>2, <3>1 DEF IInv, PlaceInv
    <3>2. CASE q = p
      <4>1. i \in Int /\ j \in Int /\ i + 1 \in DOMAIN msgq[p] /\ j + 1 \in DOMAIN msgq[p]
            /\ msgq[p][i + 1] = msgq[p][j + 1]
        BY <1>5, <2>2, <3>2
      <4> QED BY <1>6, <4>1
    <3> QED BY <3>1, <3>2
  <2> QED BY <2>1, <2>2 DEF PlaceInv
<1>13. CallInv'
  <2>1. CallSound(p)'
    BY <1>2, <1>3, <1>4, <1>8, NifoAssumption DEF CallSound, NifoAssumption
  <2>2. \A q \in Proc \ {p} : CallSound(q)'
    BY <1>3, <1>4 DEF CallSound, IInv, CallInv, CINIT_LIST_HEAD
  <2> QED BY <2>1, <2>2 DEF CallInv
<1>14. SentInv'
  <2> SUFFICES ASSUME NEW q \in Proc
               PROVE  /\ \A h \in Queued(q)' : sent'[h] = Parts(h)'
                      /\ pc'[q] = "receive" => sent'[cur'[q]] = Parts(cur[q])'
    BY DEF SentInv
  <2>1. \A h \in Queued(q)' : sent'[h] = Parts(h)'
    BY <1>3, <1>7, <1>8, <1>11 DEF IInv, SentInv
  <2>2. ASSUME pc'[q] = "receive" PROVE sent'[cur'[q]] = Parts(cur[q])'
    <3>1. PICK d : d = cur'[q]
      OBVIOUS
    <3>2. d \in Heads /\ sent[d] = Parts(d)
      <4>1. CASE q = p
        BY <1>4, <1>7, <1>8, <3>1, <4>1 DEF IInv, SentInv
      <4>2. CASE q # p
        BY <1>4, <1>8, <2>2, <3>1, <4>2 DEF IInv, SentInv, Owns
      <4> QED BY <4>1, <4>2
    <3> QED BY <1>3, <1>11, <3>1, <3>2
  <2> QED BY <2>1, <2>2
<1>15. IInv'
  BY <1>11, <1>12, <1>13, <1>14 DEF IInv, TypeInv
<1>16. MessageTaken(p, c)
  <2>1. \A q \in Proc : /\ InHand(q) = UNION {Parts(h) : h \in Owns(q)}
                        /\ InQueue(q) = UNION {Parts(h) : h \in Queued(q)}
                        /\ InHand(q)' = UNION {Parts(h)' : h \in Owns(q)'}
                        /\ InQueue(q)' = UNION {Parts(h)' : h \in Queued(q)'}
    BY <1>15, HandsAre, HandsAreNext DEF HandsSound
  <2>2. InHand(p)' = InHand(p) \cup Parts(c)
    BY <1>8, <1>9, <1>11, <2>1
  <2>3. InQueue(p)' = InQueue(p) \ Parts(c)
    <3>1. \A h \in Queued(p) \ {c} : Parts(h) \cap Parts(c) = {} /\ Parts(h)' = Parts(h)
      BY <1>8, <1>11 DEF IInv, MessageInv
    <3> QED BY <1>7, <2>1, <3>1
  <2>4. ASSUME NEW q \in Proc \ {p} PROVE InHand(q)' = InHand(q) /\ InQueue(q)' = InQueue(q)
    <3>1. /\ Owns(q)' = Owns(q) /\ \A h \in Owns(q) : Parts(h)' = Parts(h)
          /\ Queued(q)' = Queued(q) /\ \A h \in Queued(q) : Parts(h)' = Parts(h)
      BY <1>7, <1>8, <1>9, <1>11
    <3> QED BY <1>15, <3>1, HandsAre, HandsAreNext, SameHand, SameQueue
  <2>5. Parts(c) \subseteq InQueue(p)
    BY <1>7, <2>1
  <2> QED BY <2>2, <2>3, <2>4, <2>5 DEF MessageTaken
<1> QED BY <1>8, <1>15, <1>16

(* Time and the collector: nobody has anything else than before. *)
LEMMA PoolStep ==
  ASSUME NifoAssumption, IInv, TypeInv', NEW W, Reworks(W, {}, {}),
         UNCHANGED <<msgq, held, local, sent>>
  PROVE  /\ IInv'
         /\ \A q \in Proc : InHand(q)' = InHand(q) /\ InQueue(q)' = InQueue(q)
<1>1. /\ MessageInv' /\ PoolInv'
      /\ \A h \in Heads : Parts(h)' = Parts(h) /\ nont'[h] = nont[h]
  BY Reworked
<1>2. \A q \in Proc : Owns(q)' = Owns(q) /\ Queued(q)' = Queued(q)
  BY DEF Owns, Queued, local
<1>3. \A q \in Proc : Owns(q) \subseteq Heads /\ Queued(q) \subseteq Heads
  BY HeadsAreNodes, TypesOfInv DEF IInv
<1>4. PlaceInv'
  BY <1>2 DEF IInv, PlaceInv
<1>5. CallInv'
  <2> SUFFICES ASSUME NEW q \in Proc PROVE CallSound(q)'
    BY DEF CallInv
  <2>1. CallSound(q) /\ (pc[q] = "delete" => cur[q] \in Heads)
    BY <1>3 DEF IInv, CallInv, Owns
  <2>2. pc[q] = "delete" => nont'[cur[q]] = nont[cur[q]]
    BY <1>1, <2>1
  <2> QED BY <2>1, <2>2 DEF CallSound, CINIT_LIST_HEAD, local
<1>6. SentInv'
  <2> SUFFICES ASSUME NEW q \in Proc
               PROVE  /\ \A h \in Queued(q)' : sent'[h] = Parts(h)'
                      /\ pc'[q] = "receive" => sent'[cur'[q]] = Parts(cur[q])'
    BY DEF SentInv
  <2>1. \A h \in Queued(q)' : sent'[h] = Parts(h)'
    BY <1>1, <1>2, <1>3 DEF IInv, SentInv
  <2>2. PICK d : d = cur[q]
    OBVIOUS
  <2>3. ASSUME pc[q] = "receive" PROVE sent'[d] = Parts(d)'
    BY <1>1, <1>3, <2>2, <2>3 DEF IInv, SentInv, Owns
  <2>4. pc'[q] = pc[q] /\ cur'[q] = d
    BY <2>2 DEF local
  <2> QED BY <2>1, <2>3, <2>4
<1>7. IInv'
  BY <1>1, <1>4, <1>5, <1>6 DEF IInv, TypeInv
<1>8. \A q \in Proc : InHand(q)' = InHand(q) /\ InQueue(q)' = InQueue(q)
  <2> SUFFICES ASSUME NEW q \in Proc
               PROVE  InHand(q)' = InHand(q) /\ InQueue(q)' = InQueue(q)
    OBVIOUS
  <2>1. /\ Owns(q)' = Owns(q) /\ \A h \in Owns(q) : Parts(h)' = Parts(h)
        /\ Queued(q)' = Queued(q) /\ \A h \in Queued(q) : Parts(h)' = Parts(h)
    BY <1>1, <1>2, <1>3
  <2> QED BY <1>7, <2>1, HandsAre, HandsAreNext, SameHand, SameQueue
<1> QED BY <1>7, <1>8
-----------------------------------------------------------------------------
(* The invariant of all steps, if nothing in use is left unstamped         *)

LEMMA InitInv == NifoAssumption /\ Init => IInv
<1> SUFFICES ASSUME NifoAssumption, Init PROVE IInv
  OBVIOUS
<1>1. TypeInv
  BY InitTypes
<1>2. \A p \in Proc : Owns(p) = {} /\ Queued(p) = {}
  BY DEF Init, Owns, Queued
<1>3. Heads = {}
  BY <1>2 DEF Heads
<1>4. CallInv
  BY DEF Init, CallInv, CallSound
<1>5. PlaceInv
  BY <1>2 DEF Init, PlaceInv
<1>6. MessageInv /\ PoolInv /\ SentInv
  BY <1>2, <1>3 DEF Init, MessageInv, PoolInv, SentInv
<1> QED BY <1>1, <1>4, <1>5, <1>6 DEF IInv, TypeInv

LEMMA AgeStep ==
  ASSUME NifoAssumption, Prompt, IInv, TypeInv', NEW n \in Node, Age(n)
  PROVE  IInv' /\ \A q \in Proc : InHand(q)' = InHand(q) /\ InQueue(q)' = InQueue(q)
<1>1. /\ ucIsFree[n] = ALLOCED /\ stale' = stale \cup {n} /\ Leaked(n)
      /\ UNCHANGED <<ucIsFree, nont, cont, msgq, held, local, gc, sent>>
  BY DEF Age, rings
<1>2. ASSUME NEW h \in Heads PROVE n \notin Parts(h)
  <2>1. PICK q \in Proc : h \in Owns(q) \cup Queued(q)
    BY DEF Heads
  <2>2. n \notin InHand(q) /\ n \notin InQueue(q)
    BY <1>1 DEF Leaked
  <2> QED BY <2>1, <2>2, HandsAre DEF HandsSound
<1>3. TypeInv /\ \A m \in stale \cup ({gc} \ {NULL}) : m \in Node
  BY TypesOfInv DEF TypeInv, TypeOK
<1>4. Heads' = Heads
  BY <1>1 DEF Heads, Owns, Queued, local
<1>5. PICK W : W = {}
  OBVIOUS
<1>6. Reworks(W, {}, {})
  BY <1>1, <1>2, <1>3, <1>4, <1>5 DEF Reworks
<1> QED BY <1>1, <1>6, PoolStep

LEMMA GcLookStep ==
  ASSUME NifoAssumption, IInv, TypeInv', NEW n \in Node, GcLook(n)
  PROVE  IInv' /\ \A q \in Proc : InHand(q)' = InHand(q) /\ InQueue(q)' = InQueue(q)
<1>1. /\ n \in stale /\ gc' = n
      /\ UNCHANGED <<ucIsFree, stale, nont, cont, msgq, held, local, sent>>
  BY DEF GcLook, rings, pool
<1>2. TypeInv /\ \A m \in stale \cup ({gc} \ {NULL}) : m \in Node
  BY TypesOfInv DEF TypeInv, TypeOK
<1>3. Heads' = Heads
  BY <1>1 DEF Heads, Owns, Queued, local
<1>4. PICK W : W = {}
  OBVIOUS
<1>5. Reworks(W, {}, {})
  BY <1>1, <1>2, <1>3, <1>4 DEF Reworks
<1> QED BY <1>1, <1>5, PoolStep

(* The collector frees a node that nobody has. *)
LEMMA GcFreeStep ==
  ASSUME NifoAssumption, IInv, TypeInv', GcFree
  PROVE  /\ IInv' /\ \A q \in Proc : InHand(q)' = InHand(q) /\ InQueue(q)' = InQueue(q)
         /\ gc \in Node /\ ucIsFree[gc] = ALLOCED /\ \A h \in Heads : gc \notin Parts(h)
<1>1. /\ gc # NULL /\ gc' = NULL
      /\ ucIsFree' = [ucIsFree EXCEPT ![gc] = FREE] /\ stale' = stale \ {gc}
      /\ UNCHANGED <<nont, cont, msgq, held, local, sent>>
  BY DEF GcFree, rings
<1>2. TypeInv /\ gc \in Node /\ \A m \in stale \cup ({gc} \ {NULL}) : m \in Node
  BY <1>1, TypesOfInv DEF TypeInv, TypeOK
<1>3. ucIsFree[gc] = ALLOCED /\ \A h \in Heads : gc \notin Parts(h)
  BY <1>1 DEF IInv, PoolInv
<1>4. Heads' = Heads
  BY <1>1 DEF Heads, Owns, Queued, local
<1>5. \A m \in Node \ {gc} : ucIsFree'[m] = ucIsFree[m]
  BY <1>1, <1>2 DEF TypeInv, TypeOK
<1>6. PICK W : W = {gc}
  OBVIOUS
<1>7. Reworks(W, {}, {})
  BY <1>1, <1>2, <1>3, <1>4, <1>5, <1>6 DEF Reworks
<1> QED BY <1>1, <1>2, <1>3, <1>7, PoolStep

(* What a step may do to the nodes that processes and queues have.         *)
Unmoved ==
  /\ \A q \in Proc : InHand(q)' = InHand(q) /\ InQueue(q)' = InQueue(q)
  /\ UNCHANGED ucIsFree

Granted(p, n) ==
  /\ HandBecomes(p, InHand(p) \cup {n})
  /\ ucIsFree[n] = FREE /\ ucIsFree' = [ucIsFree EXCEPT ![n] = ALLOCED]

GivenBack(p, n) ==
  /\ n \in InHand(p) /\ HandBecomes(p, InHand(p) \ {n})
  /\ ucIsFree' = [ucIsFree EXCEPT ![n] = FREE]

Died(p) == HandBecomes(p, {}) /\ UNCHANGED ucIsFree

Collected(n) ==
  /\ \A q \in Proc : InHand(q)' = InHand(q) /\ InQueue(q)' = InQueue(q)
  /\ ucIsFree[n] = ALLOCED /\ \A q \in Proc : n \notin InHand(q) \cup InQueue(q)
  /\ ucIsFree' = [ucIsFree EXCEPT ![n] = FREE]

Moves ==
  \/ Unmoved
  \/ \E p \in Proc, n \in Node : Granted(p, n) \/ GivenBack(p, n)
  \/ \E p, r \in Proc, c \in Node : MessageSent(p, r, c) /\ UNCHANGED ucIsFree
  \/ \E p \in Proc, c \in Node : MessageTaken(p, c) /\ UNCHANGED ucIsFree
  \/ \E p \in Proc : Died(p)
  \/ \E n \in Node : Collected(n)

LEMMA SameHandsUnmoved ==
  ASSUME NEW p \in Proc, HandBecomes(p, InHand(p)), UNCHANGED ucIsFree
  PROVE  Moves
BY DEF HandBecomes, Unmoved, Moves

LEMMA NextInv ==
  ASSUME NifoAssumption, Prompt, IInv, [Next]_vars
  PROVE  IInv' /\ Moves
<1>0. TypeInv' /\ TypeInv
  BY NextTypes, TypesOfInv
<1>1. ASSUME NEW p \in Proc, NEW n \in Node, nifo_node_alloc(p, n) PROVE IInv' /\ Moves
  BY <1>0, <1>1, AllocStep DEF nifo_node_alloc, Moves, Granted
<1>2. ASSUME NEW p \in Proc, NEW h \in Node, NEW b \in Node, NEW n \in Node,
             nifo_node_link_cont(p, h, b, n)
      PROVE  IInv' /\ Moves
  <2>1. UNCHANGED ucIsFree
    BY <1>2 DEF nifo_node_link_cont, Link, pool
  <2> QED BY <1>0, <1>2, <2>1, LinkContStep, SameHandsUnmoved
<1>3. ASSUME NEW p \in Proc, NEW h \in Node, NEW n \in Node, nifo_node_link_nont(p, h, n)
      PROVE  IInv' /\ Moves
  <2>1. UNCHANGED ucIsFree
    BY <1>3 DEF nifo_node_link_nont, Link, pool
  <2> QED BY <1>0, <1>3, <2>1, LinkNontStep, SameHandsUnmoved
<1>4. ASSUME NEW p \in Proc, NEW h \in Node, NEW b \in Node, nifo_node_unlink_nont(p, h, b)
      PROVE  IInv' /\ Moves
  <2>1. UNCHANGED ucIsFree
    BY <1>4 DEF nifo_node_unlink_nont, pool
  <2> QED BY <1>0, <1>4, <2>1, UnlinkNontStep, SameHandsUnmoved
<1>5. ASSUME NEW p \in Proc, NEW h \in Node, NEW b \in Node, NEW c \in Node,
             nifo_node_unlink_cont(p, h, b, c)
      PROVE  IInv' /\ Moves
  <2>1. UNCHANGED ucIsFree
    BY <1>5 DEF nifo_node_unlink_cont, pool
  <2> QED BY <1>0, <1>5, <2>1, UnlinkContStep, SameHandsUnmoved
<1>6. ASSUME NEW p \in Proc, NEW h \in Node, NEW r \in Proc, WriteCheck(p, h, r)
      PROVE  IInv' /\ Moves
  <2>1. UNCHANGED ucIsFree
    BY <1>6 DEF WriteCheck
  <2> QED BY <1>0, <1>6, <2>1, WriteCheckStep, SameHandsUnmoved
<1>7. ASSUME NEW p \in Proc, WriteSend(p) PROVE IInv' /\ Moves
  <2>1. UNCHANGED ucIsFree
    BY <1>7 DEF WriteSend, pool
  <2> QED BY <1>0, <1>7, <2>1, WriteSendStep, SameHandsUnmoved DEF Moves
<1>8. ASSUME NEW p \in Proc, ReadReceive(p) PROVE IInv' /\ Moves
  <2>1. UNCHANGED ucIsFree
    BY <1>8 DEF ReadReceive, pool
  <2> QED BY <1>0, <1>8, <2>1, ReadReceiveStep DEF Moves
<1>9. ASSUME NEW p \in Proc, ReadCheck(p) PROVE IInv' /\ Moves
  <2>1. UNCHANGED ucIsFree
    BY <1>9 DEF ReadCheck
  <2> QED BY <1>0, <1>9, <2>1, ReadCheckStep, SameHandsUnmoved
<1>10. ASSUME NEW p \in Proc, NEW h \in Node, DeleteCall(p, h) PROVE IInv' /\ Moves
  <2>1. UNCHANGED ucIsFree
    BY <1>10 DEF DeleteCall, pool
  <2> QED BY <1>0, <1>10, <2>1, DeleteCallStep, SameHandsUnmoved
<1>11. ASSUME NEW p \in Proc, nifo_cont_delete(p) PROVE IInv' /\ Moves
  <2>1. PICK n : n = cur[p]
    OBVIOUS
  <2>2. n \in Node
    BY <1>11, <2>1 DEF nifo_cont_delete, IInv, CallInv, CallSound
  <2>3. IInv' /\ GivenBack(p, n)
    BY <1>0, <1>11, <2>1, ContDeleteStep DEF GivenBack
  <2> QED BY <2>2, <2>3 DEF Moves
<1>12. ASSUME NEW p \in Proc, Crash(p) PROVE IInv' /\ Moves
  <2>1. UNCHANGED ucIsFree
    BY <1>12 DEF Crash, pool
  <2> QED BY <1>0, <1>12, <2>1, CrashStep DEF Moves, Died
<1>13. ASSUME NEW n \in Node, Age(n) PROVE IInv' /\ Moves
  BY <1>0, <1>13, AgeStep DEF Age, Moves, Unmoved
<1>14. ASSUME NEW n \in Node, GcLook(n) PROVE IInv' /\ Moves
  BY <1>0, <1>14, GcLookStep DEF GcLook, pool, Moves, Unmoved
<1>15. ASSUME GcFree PROVE IInv' /\ Moves
  <2>1. PICK n : n = gc
    OBVIOUS
  <2>2. /\ IInv' /\ n \in Node /\ ucIsFree[n] = ALLOCED /\ \A h \in Heads : n \notin Parts(h)
        /\ \A q \in Proc : InHand(q)' = InHand(q) /\ InQueue(q)' = InQueue(q)
    BY <1>0, <1>15, <2>1, GcFreeStep
  <2>3. ASSUME NEW q \in Proc PROVE n \notin InHand(q) \cup InQueue(q)
    <3>1. Owns(q) \subseteq Heads /\ Queued(q) \subseteq Heads
      BY DEF Heads
    <3> QED BY <2>2, <3>1, HandsAre DEF HandsSound
  <2>4. Collected(n)
    BY <1>15, <2>1, <2>2, <2>3 DEF GcFree, Collected
  <2> QED BY <2>2, <2>4 DEF Moves
<1>16. ASSUME UNCHANGED vars PROVE IInv' /\ Moves
  <2>1. UNCHANGED <<ucIsFree, stale, nont, cont, msgq, held, pc, cur, pNext, dest, gc, sent>>
    BY <1>16 DEF vars, pool, rings, local
  <2>2. Heads' = Heads
    BY <2>1 DEF Heads, Owns, Queued
  <2>3. \A m \in stale \cup ({gc} \ {NULL}) : m \in Node
    BY <1>0 DEF TypeInv, TypeOK
  <2>4. PICK W : W = {}
    OBVIOUS
  <2>5. Reworks(W, {}, {})
    BY <2>1, <2>2, <2>3, <2>4 DEF Reworks
  <2>6. IInv' /\ \A q \in Proc : InHand(q)' = InHand(q) /\ InQueue(q)' = InQueue(q)
    BY <1>0, <2>1, <2>5, PoolStep DEF local
  <2> QED BY <2>1, <2>6 DEF Moves, Unmoved
<1> QED BY <1>1, <1>2, <1>3, <1>4, <1>5, <1>6, <1>7, <1>8, <1>9, <1>10, <1>11, <1>12, <1>13,
           <1>14, <1>15, <1>16 DEF Next, Build, Write, Read, Delete, Collector

(* The inductive invariant always holds, if what a live process or a queue *)
(* has is never left unstamped for timegap: the messages stay whole and    *)
(* apart while they are built, sent, read and deleted and processes die.   *)
THEOREM InvariantHolds == ASSUME Prompt PROVE Spec => []IInv
<1>1. Init => IInv
  BY InitInv, NifoAssumption
<1>2. IInv /\ [Next]_vars => IInv'
  BY NextInv, NifoAssumption
<1> QED BY <1>1, <1>2, PTL DEF Spec
-----------------------------------------------------------------------------
(* What follows from the invariant                                         *)

(* Messages and Heads speak of the same messages. *)
LEMMA MessageIs ==
  ASSUME NEW a \in Messages
  PROVE  \/ \E p \in Proc : \E h \in Owns(p) : a = <<"held", p, h>>
         \/ \E p \in Proc : \E i \in DOMAIN msgq[p] : a = <<"queued", i, msgq[p][i]>>
<1>1. CASE a \in UNION {{<<"held", p, h>> : h \in held[p]} : p \in Proc}
  <2>1. PICK p \in Proc : a \in {<<"held", p, h>> : h \in held[p]}
    BY <1>1
  <2>2. PICK h \in held[p] : a = <<"held", p, h>>
    BY <2>1
  <2> QED BY <2>2 DEF Owns
<1>2. CASE a \in UNION {{<<"queued", i, msgq[p][i]>> : i \in DOMAIN msgq[p]} : p \in Proc}
  <2>1. PICK p \in Proc : a \in {<<"queued", i, msgq[p][i]>> : i \in DOMAIN msgq[p]}
    BY <1>2
  <2> QED BY <2>1
<1> QED BY <1>1, <1>2 DEF Messages

LEMMA MessagesApart ==
  ASSUME IInv, NEW a \in Messages, NEW b \in Messages, a # b
  PROVE  a[3] \in Heads /\ b[3] \in Heads /\ a[3] # b[3]
<1> DEFINE HeldBy(e, p) == e[3] \in Owns(p) /\ e = <<"held", p, e[3]>>
           QueuedAt(e, p, i) == e[3] = msgq[p][i] /\ e = <<"queued", i, e[3]>>
<1>1. ASSUME NEW e \in Messages
      PROVE  \/ \E p \in Proc : HeldBy(e, p)
             \/ \E p \in Proc : \E i \in DOMAIN msgq[p] : QueuedAt(e, p, i)
  BY MessageIs
<1>2. \A e, p : HeldBy(e, p) => e[3] \in Owns(p) /\ e = <<"held", p, e[3]>>
  OBVIOUS
<1>3. \A e, p, i : QueuedAt(e, p, i) => e[3] = msgq[p][i] /\ e = <<"queued", i, e[3]>>
  OBVIOUS
<1> HIDE DEF HeldBy, QueuedAt
<1>4. \A e, p, i : i \in DOMAIN msgq[p] /\ QueuedAt(e, p, i) => e[3] \in Queued(p)
  BY <1>3 DEF Queued
<1>5. CASE \E p \in Proc : HeldBy(a, p)
  <2>1. PICK p \in Proc : HeldBy(a, p)
    BY <1>5
  <2>2. ASSUME NEW q \in Proc, HeldBy(b, q) PROVE a[3] \in Heads /\ b[3] \in Heads /\ a[3] # b[3]
    <3>1. a[3] \in Heads /\ b[3] \in Heads
      BY <1>2, <2>1, <2>2 DEF Heads
    <3>2. p # q => a[3] # b[3]
      BY <1>2, <2>1, <2>2 DEF IInv, PlaceInv
    <3>3. p = q => a[3] # b[3]
      BY <1>2, <2>1, <2>2
    <3> QED BY <3>1, <3>2, <3>3
  <2>3. ASSUME NEW q \in Proc, NEW j \in DOMAIN msgq[q], QueuedAt(b, q, j)
        PROVE  a[3] \in Heads /\ b[3] \in Heads /\ a[3] # b[3]
    BY <1>2, <1>4, <2>1, <2>3 DEF Heads, IInv, PlaceInv
  <2> QED BY <1>1, <2>2, <2>3
<1>6. CASE \E p \in Proc : \E i \in DOMAIN msgq[p] : QueuedAt(a, p, i)
  <2>0. PICK p \in Proc : \E i \in DOMAIN msgq[p] : QueuedAt(a, p, i)
    BY <1>6
  <2>1. PICK i \in DOMAIN msgq[p] : QueuedAt(a, p, i)
    BY <2>0
  <2>2. ASSUME NEW q \in Proc, HeldBy(b, q) PROVE a[3] \in Heads /\ b[3] \in Heads /\ a[3] # b[3]
    BY <1>2, <1>4, <2>1, <2>2 DEF Heads, IInv, PlaceInv
  <2>3. ASSUME NEW q \in Proc, NEW j \in DOMAIN msgq[q], QueuedAt(b, q, j)
        PROVE  a[3] \in Heads /\ b[3] \in Heads /\ a[3] # b[3]
    <3>1. a[3] \in Queued(p) /\ b[3] \in Queued(q)
      BY <1>4, <2>1, <2>3
    <3>2. a[3] \in Heads /\ b[3] \in Heads
      BY <3>1 DEF Heads
    <3>3. p # q => a[3] # b[3]
      BY <3>1 DEF IInv, PlaceInv
    <3>4. i # j => msgq[p][i] # msgq[p][j] \/ p # q
      BY DEF IInv, PlaceInv
    <3>5. a[3] = b[3] => i # j
      BY <1>3, <2>1, <2>3
    <3> QED BY <1>3, <2>1, <2>3, <3>2, <3>3, <3>4, <3>5
  <2> QED BY <1>1, <2>2, <2>3
<1> QED BY <1>1, <1>5, <1>6

LEMMA HandsApart ==
  ASSUME IInv
  PROVE  \A p, q \in Proc :
           /\ p # q => InHand(p) \cap InHand(q) = {} /\ InQueue(p) \cap InQueue(q) = {}
           /\ InHand(p) \cap InQueue(q) = {}
<1> SUFFICES ASSUME NEW p \in Proc, NEW q \in Proc
             PROVE  /\ p # q => InHand(p) \cap InHand(q) = {} /\ InQueue(p) \cap InQueue(q) = {}
                    /\ InHand(p) \cap InQueue(q) = {}
  OBVIOUS
<1>1. \A r \in Proc : Owns(r) \subseteq Heads /\ Queued(r) \subseteq Heads
  BY DEF Heads
<1>2. \A g, h \in Heads : \A n \in Parts(g) \cap Parts(h) : g = h
  BY DEF IInv, MessageInv
<1>3. \A r \in Proc : /\ \A n \in InHand(r) : \E h \in Owns(r) : n \in Parts(h)
                      /\ \A n \in InQueue(r) : \E h \in Queued(r) : n \in Parts(h)
  BY HandsAre DEF HandsSound
<1>4. ASSUME p # q PROVE InHand(p) \cap InHand(q) = {} /\ InQueue(p) \cap InQueue(q) = {}
  <2>1. Owns(p) \cap Owns(q) = {} /\ Queued(p) \cap Queued(q) = {}
    BY <1>4 DEF IInv, PlaceInv
  <2> QED BY <1>1, <1>2, <1>3, <2>1
<1>5. InHand(p) \cap InQueue(q) = {}
  <2>1. Owns(p) \cap Queued(q) = {}
    BY DEF IInv, PlaceInv
  <2> QED BY <1>1, <1>2, <1>3, <2>1
<1> QED BY <1>4, <1>5

LEMMA InvOneHolder == IInv => OneHolder
<1> SUFFICES ASSUME IInv PROVE OneHolder
  OBVIOUS
<1>1. ASSUME NEW a \in Messages, NEW b \in Messages, a # b
      PROVE  Parts(a[3]) \cap Parts(b[3]) = {}
  BY <1>1, MessagesApart DEF IInv, MessageInv
<1>2. ASSUME NEW p \in Proc, NEW n \in InHand(p) \cup InQueue(p) PROVE ucIsFree[n] = ALLOCED
  <2>1. PICK h \in Owns(p) \cup Queued(p) : n \in Parts(h)
    BY HandsAre DEF HandsSound
  <2>2. h \in Heads
    BY DEF Heads
  <2> QED BY <2>1, <2>2 DEF IInv, PoolInv
<1> QED BY <1>1, <1>2, HandsApart DEF OneHolder

LEMMA InvRingsSound == IInv => RingsSound
<1> SUFFICES ASSUME IInv, NEW p \in Proc, NEW n \in InHand(p) \cup InQueue(p),
                    NEW list \in {nont, cont}
             PROVE  /\ list[list[n].offset_next].offset_prev = n
                    /\ list[list[n].offset_prev].offset_next = n
  BY DEF RingsSound
<1>1. PICK h \in Owns(p) \cup Queued(p) : n \in Parts(h)
  BY HandsAre DEF HandsSound
<1>2. Whole(h)
  BY DEF Heads, IInv, MessageInv
<1>3. PICK b \in Ring(nont, h) : n \in Ring(cont, b)
  BY <1>1 DEF Parts
<1>4. CASE list = cont
  BY <1>2, <1>3, <1>4 DEF Whole, IsRing
<1>5. CASE list = nont
  <2>1. CASE n = b
    BY <1>2, <1>5, <2>1 DEF Whole, IsRing
  <2>2. CASE n # b
    <3>1. nont[n] = CINIT_LIST_HEAD(n)
      BY <1>2, <1>3, <2>2 DEF Whole
    <3> QED BY <1>5, <3>1 DEF CINIT_LIST_HEAD
  <2> QED BY <2>1, <2>2
<1> QED BY <1>4, <1>5

(* A node belongs to one message at most, a message to one process or one  *)
(* queue, and whoever has a node has it ALLOCED, through every transfer,   *)
(* refusal, deletion and death.                                            *)
THEOREM OneHolderHolds == ASSUME Prompt PROVE Spec => []OneHolder
BY InvOneHolder, InvariantHolds, PTL

(* The two rings of every node somebody has lead back and forth.           *)
THEOREM RingsCorrect == ASSUME Prompt PROVE Spec => []RingsSound
BY InvRingsSound, InvariantHolds, PTL

(* A message that nifo_msg_read accepts has the nodes it was sent with, and *)
(* no other process has one of them.                                       *)
THEOREM AcceptedValid == ASSUME Prompt PROVE Spec => AcceptedIsValid
<1>1. IInv /\ [Next]_vars =>
        [\A p \in Proc : pc[p] = "receive" /\ cur[p] \in held'[p] =>
           /\ Parts(cur[p]) = sent[cur[p]]
           /\ \A q \in Proc \ {p} : Parts(cur[p]) \cap InHand(q) = {}]_vars
  <2> SUFFICES ASSUME IInv, NEW p \in Proc, pc[p] = "receive"
               PROVE  /\ Parts(cur[p]) = sent[cur[p]]
                      /\ \A q \in Proc \ {p} : Parts(cur[p]) \cap InHand(q) = {}
    OBVIOUS
  <2>1. Parts(cur[p]) \subseteq InHand(p)
    BY DEF InHand
  <2> QED BY <2>1, HandsApart DEF IInv, SentInv
<1> QED BY <1>1, InvariantHolds, PTL DEF Spec, AcceptedIsValid

-----------------------------------------------------------------------------
(* Refinement of MsgSpec                                                   *)

(* Who has a node, by its place. *)
HolderFacts ==
  /\ \A n \in Node :
       /\ ucIsFree[n] = FREE => holder[n] = Nobody
       /\ \A p \in Proc : /\ n \in InHand(p) => holder[n] = Passing!Hand(p)
                          /\ n \in InQueue(p) => holder[n] = Passing!Queue(p)
       /\ ucIsFree[n] # FREE /\ (\A p \in Proc : n \notin InHand(p) \cup InQueue(p)) =>
            holder[n] = Lost
  /\ \A p \in Proc : \A n \in InHand(p) \cup InQueue(p) : n \in Node /\ ucIsFree[n] # FREE

LEMMA HolderFactsHold == IInv => HolderFacts
<1> SUFFICES ASSUME IInv PROVE HolderFacts
  OBVIOUS
<1>1. ASSUME NEW p \in Proc, NEW n \in InHand(p) \cup InQueue(p)
      PROVE  n \in Node /\ ucIsFree[n] = ALLOCED
  <2>1. PICK h \in Owns(p) \cup Queued(p) : n \in Parts(h)
    BY HandsAre DEF HandsSound
  <2>2. h \in Heads
    BY DEF Heads
  <2> QED BY <2>1, <2>2, HeadsAreNodes, TypesOfInv, PartsType DEF IInv, PoolInv
<1>2. ASSUME NEW n \in Node
      PROVE  /\ ucIsFree[n] = FREE => holder[n] = Nobody
             /\ \A p \in Proc : /\ n \in InHand(p) => holder[n] = Passing!Hand(p)
                                /\ n \in InQueue(p) => holder[n] = Passing!Queue(p)
             /\ ucIsFree[n] # FREE /\ (\A p \in Proc : n \notin InHand(p) \cup InQueue(p)) =>
                  holder[n] = Lost
  <2> DEFINE hand == [p \in Proc |-> InHand(p)]
             queue == [p \in Proc |-> InQueue(p)]
             H == {p \in Proc : n \in hand[p]}
             Q == {p \in Proc : n \in queue[p]}
  <2>1. holder[n] = IF ucIsFree[n] = FREE THEN Nobody
                    ELSE IF H # {} THEN <<"process", CHOOSE p \in H : TRUE>>
                    ELSE IF Q # {} THEN <<"queue", CHOOSE p \in Q : TRUE>>
                    ELSE Lost
    BY DEF holder
  <2>a. (\A p \in Proc : p \in H <=> n \in InHand(p)) /\ (\A p \in H : p \in Proc)
    OBVIOUS
  <2>b. (\A p \in Proc : p \in Q <=> n \in InQueue(p)) /\ (\A p \in Q : p \in Proc)
    OBVIOUS
  <2> HIDE DEF H, Q
  <2>2. ASSUME NEW p \in Proc, n \in InHand(p) PROVE holder[n] = Passing!Hand(p)
    <3>1. H = {p}
      BY <2>2, <2>a, HandsApart
    <3>2. ucIsFree[n] # FREE
      BY <1>1, <2>2 DEF FREE, ALLOCED
    <3>3. (CHOOSE r \in H : TRUE) = p
      BY <3>1
    <3> QED BY <2>1, <3>1, <3>2, <3>3 DEF Passing!Hand, Passing!Queue
  <2>3. ASSUME NEW p \in Proc, n \in InQueue(p) PROVE holder[n] = Passing!Queue(p)
    <3>1. Q = {p} /\ H = {}
      BY <2>3, <2>a, <2>b, HandsApart
    <3>2. ucIsFree[n] # FREE
      BY <1>1, <2>3 DEF FREE, ALLOCED
    <3>3. (CHOOSE r \in Q : TRUE) = p
      BY <3>1
    <3> QED BY <2>1, <3>1, <3>2, <3>3 DEF Passing!Hand, Passing!Queue
  <2>4. H # {} => \E p \in Proc : n \in InHand(p)
    BY <2>a
  <2>5. Q # {} => \E p \in Proc : n \in InQueue(p)
    BY <2>b
  <2> QED BY <2>1, <2>2, <2>3, <2>4, <2>5
<1> QED BY <1>1, <1>2 DEF HolderFacts, FREE, ALLOCED
HolderIs == holder = [n \in Node |-> holder[n]]

LEMMA HolderIsHolds == HolderIs
BY DEF HolderIs, holder

LEMMA HolderIsNext == HolderIs'
BY HolderIsHolds, PTL

LEMMA HolderFactsNext == IInv' => HolderFacts'
BY HolderFactsHold, PTL

LEMMA HoldersDiffer ==
  /\ Nobody # Lost
  /\ \A p : /\ Passing!Hand(p) = <<"process", p>> /\ Passing!Queue(p) = <<"queue", p>>
            /\ Passing!Hand(p) \notin {Nobody, Lost} /\ Passing!Queue(p) \notin {Nobody, Lost}
  /\ \A p, q : Passing!Hand(p) # Passing!Queue(q)
  /\ \A p, q : Passing!Hand(p) = Passing!Hand(q) => p = q
<1>1. Nobody[1] = "nobody" /\ Lost[1] = "lost"
  BY DEF Nobody, Lost
<1>2. \A p : /\ Passing!Hand(p) = <<"process", p>> /\ Passing!Queue(p) = <<"queue", p>>
             /\ Passing!Hand(p)[1] = "process" /\ Passing!Queue(p)[1] = "queue"
             /\ Passing!Hand(p)[2] = p
  BY DEF Passing!Hand, Passing!Queue
<1> QED BY <1>1, <1>2

(* Nodes M go from one holder to another. *)
Hands(M, from, to) ==
  /\ M \in SUBSET Node /\ M # {} /\ from # to
  /\ \A n \in M : holder[n] = from /\ holder'[n] = to
  /\ \A n \in Node \ M : holder'[n] = holder[n]

LEMMA HandedOver ==
  ASSUME NEW M, NEW from, NEW to, Hands(M, from, to),
         <<from, to>> \in Passing!OneByOne \cup Passing!AsAWhole \cup Passing!Deaths,
         <<from, to>> \in Passing!OneByOne => \A m, n \in M : m = n,
         <<from, to>> \in Passing!Deaths => M = {n \in Node : holder[n] = from}
  PROVE  Passing!Next
<1>1. PICK w : w = <<from, to>>
  OBVIOUS
<1>2. w[1] = from
  BY <1>1
<1> DEFINE moved == {n \in Node : holder[n] # holder'[n]}
           ways == {<<holder[n], holder'[n]>> : n \in moved}
<1>3. moved = M
  BY DEF Hands
<1>4. ways = {w}
  <2>1. \A n \in M : <<holder[n], holder'[n]>> = w
    BY <1>1 DEF Hands
  <2>2. ways = {<<holder[n], holder'[n]>> : n \in M}
    BY <1>3
  <2> QED BY <2>1, <2>2 DEF Hands
<1>5. /\ w \in Passing!OneByOne \cup Passing!AsAWhole \cup Passing!Deaths
      /\ ways = {w}
      /\ w \in Passing!OneByOne => \A m, n \in moved : m = n
      /\ w \in Passing!Deaths => moved = {n \in Node : holder[n] = w[1]}
  BY <1>1, <1>2, <1>3, <1>4
<1> QED BY <1>5 DEF Passing!Next, Passing!HandOver

(* A node whose place and state stay has the holder it had. *)
LEMMA HolderStays ==
  ASSUME HolderFacts, HolderFacts', NEW n \in Node, ucIsFree'[n] = ucIsFree[n],
         \A q \in Proc : /\ n \in InHand(q)' <=> n \in InHand(q)
                         /\ n \in InQueue(q)' <=> n \in InQueue(q)
  PROVE  holder'[n] = holder[n]
<1>1. CASE ucIsFree[n] = FREE
  BY <1>1 DEF HolderFacts
<1>2. CASE ucIsFree[n] # FREE /\ \E q \in Proc : n \in InHand(q)
  BY <1>2 DEF HolderFacts
<1>3. CASE ucIsFree[n] # FREE /\ \E q \in Proc : n \in InQueue(q)
  BY <1>3 DEF HolderFacts
<1>4. CASE ucIsFree[n] # FREE /\ \A q \in Proc : n \notin InHand(q) \cup InQueue(q)
  BY <1>4 DEF HolderFacts
<1> QED BY <1>1, <1>2, <1>3, <1>4

LEMMA MovesImplement ==
  ASSUME NifoAssumption, TypeInv, HolderFacts, HolderFacts', Moves
  PROVE  [Passing!Next]_holder
<1>0. FREE # ALLOCED /\ ucIsFree \in [Node -> {FREE, ALLOCED}]
  BY DEF FREE, ALLOCED, TypeInv, TypeOK
<1>1. ASSUME \A n \in Node : holder'[n] = holder[n] PROVE UNCHANGED holder
  <2>1. holder = [n \in Node |-> holder[n]] /\ holder' = [n \in Node |-> holder'[n]]
    BY HolderIsHolds, HolderIsNext DEF HolderIs
  <2> QED BY <1>1, <2>1
<1>2. CASE Unmoved
  BY <1>1, <1>2, HolderStays DEF Unmoved
<1>3. ASSUME NEW p \in Proc, NEW n \in Node, Granted(p, n) PROVE Passing!Next
  <2>1. PICK M : M = {n}
    OBVIOUS
  <2>2. holder[n] = Nobody /\ holder'[n] = Passing!Hand(p)
    BY <1>0, <1>3, HoldersDiffer DEF Granted, HandBecomes, HolderFacts
  <2>3. \A m \in Node \ M : holder'[m] = holder[m]
    BY <1>0, <1>3, <2>1, HolderStays DEF Granted, HandBecomes
  <2>4. Hands(M, Nobody, Passing!Hand(p))
    BY <2>1, <2>2, <2>3, HoldersDiffer DEF Hands
  <2>5. <<Nobody, Passing!Hand(p)>> \in Passing!OneByOne
    BY DEF Passing!OneByOne
  <2>6. <<Nobody, Passing!Hand(p)>> \notin Passing!Deaths
    BY HoldersDiffer DEF Passing!Deaths
  <2> QED BY <2>1, <2>4, <2>5, <2>6, HandedOver
<1>4. ASSUME NEW p \in Proc, NEW n \in Node, GivenBack(p, n) PROVE Passing!Next
  <2>1. PICK M : M = {n}
    OBVIOUS
  <2>2. holder[n] = Passing!Hand(p) /\ holder'[n] = Nobody
    BY <1>0, <1>4, HoldersDiffer DEF GivenBack, HolderFacts
  <2>3. \A m \in Node \ M : holder'[m] = holder[m]
    BY <1>0, <1>4, <2>1, HolderStays DEF GivenBack, HandBecomes
  <2>4. Hands(M, Passing!Hand(p), Nobody)
    BY <2>1, <2>2, <2>3, HoldersDiffer DEF Hands
  <2>5. <<Passing!Hand(p), Nobody>> \in Passing!OneByOne
    BY DEF Passing!OneByOne
  <2>6. <<Passing!Hand(p), Nobody>> \notin Passing!Deaths
    BY HoldersDiffer DEF Passing!Deaths
  <2> QED BY <2>1, <2>4, <2>5, <2>6, HandedOver
<1>5. ASSUME NEW p \in Proc, NEW r \in Proc, NEW c \in Node, MessageSent(p, r, c), UNCHANGED ucIsFree
      PROVE  [Passing!Next]_holder
  <2>1. PICK M : M = Parts(c)
    OBVIOUS
  <2>2. \A n \in M : n \in Node /\ n \in InHand(p) /\ n \in InQueue(r)'
    BY <1>5, <2>1 DEF MessageSent, HolderFacts
  <2>3. \A n \in M : holder[n] = Passing!Hand(p) /\ holder'[n] = Passing!Queue(r)
    BY <2>2, HoldersDiffer DEF HolderFacts
  <2>4. \A n \in Node \ M : holder'[n] = holder[n]
    BY <1>5, <2>1, HolderStays DEF MessageSent
  <2>5. <<Passing!Hand(p), Passing!Queue(r)>> \in Passing!AsAWhole
    BY DEF Passing!AsAWhole
  <2>6. <<Passing!Hand(p), Passing!Queue(r)>> \notin Passing!Deaths \cup Passing!OneByOne
    BY HoldersDiffer DEF Passing!Deaths, Passing!OneByOne
  <2>7. CASE M = {}
    BY <1>1, <2>4, <2>7
  <2>8. CASE M # {}
    <3>1. Hands(M, Passing!Hand(p), Passing!Queue(r))
      BY <2>2, <2>3, <2>4, <2>8, HoldersDiffer DEF Hands
    <3> QED BY <2>5, <2>6, <3>1, HandedOver
  <2> QED BY <2>7, <2>8
<1>6. ASSUME NEW p \in Proc, NEW c \in Node, MessageTaken(p, c), UNCHANGED ucIsFree
      PROVE  [Passing!Next]_holder
  <2>1. PICK M : M = Parts(c)
    OBVIOUS
  <2>2. \A n \in M : n \in Node /\ n \in InQueue(p) /\ n \in InHand(p)'
    BY <1>6, <2>1 DEF MessageTaken, HolderFacts
  <2>3. \A n \in M : holder[n] = Passing!Queue(p) /\ holder'[n] = Passing!Hand(p)
    BY <2>2, HoldersDiffer DEF HolderFacts
  <2>4. \A n \in Node \ M : holder'[n] = holder[n]
    BY <1>6, <2>1, HolderStays DEF MessageTaken
  <2>5. <<Passing!Queue(p), Passing!Hand(p)>> \in Passing!AsAWhole
    BY DEF Passing!AsAWhole
  <2>6. <<Passing!Queue(p), Passing!Hand(p)>> \notin Passing!Deaths \cup Passing!OneByOne
    BY HoldersDiffer DEF Passing!Deaths, Passing!OneByOne
  <2>7. CASE M = {}
    BY <1>1, <2>4, <2>7
  <2>8. CASE M # {}
    <3>1. Hands(M, Passing!Queue(p), Passing!Hand(p))
      BY <2>2, <2>3, <2>4, <2>8, HoldersDiffer DEF Hands
    <3> QED BY <2>5, <2>6, <3>1, HandedOver
  <2> QED BY <2>7, <2>8
<1>7. ASSUME NEW p \in Proc, Died(p) PROVE [Passing!Next]_holder
  <2>1. PICK M : M = InHand(p)
    OBVIOUS
  <2>2. M \subseteq Node /\ \A n \in M : holder[n] = Passing!Hand(p)
    BY <2>1, HoldersDiffer DEF HolderFacts
  <2>3. \A n \in M : holder'[n] = Lost
    <3> SUFFICES ASSUME NEW n \in M PROVE holder'[n] = Lost
      OBVIOUS
    <3>1. n \in Node /\ ucIsFree[n] # FREE
      BY <2>1 DEF HolderFacts
    <3>2. \A q \in Proc : n \notin InQueue(q) /\ (q # p => n \notin InHand(q))
      <4>1. \A q \in Proc : /\ n \in InQueue(q) => holder[n] = Passing!Queue(q)
                            /\ n \in InHand(q) => holder[n] = Passing!Hand(q)
        BY <3>1, HoldersDiffer DEF HolderFacts
      <4> QED BY <2>2, <4>1, HoldersDiffer
    <3>3. \A q \in Proc : n \notin InHand(q)' \cup InQueue(q)'
      BY <1>7, <3>2 DEF Died, HandBecomes
    <3> QED BY <1>7, <3>1, <3>3 DEF Died, HolderFacts
  <2>4. \A n \in Node \ M : holder'[n] = holder[n]
    BY <1>7, <2>1, HolderStays DEF Died, HandBecomes
  <2>5. <<Passing!Hand(p), Lost>> \in Passing!Deaths
    BY DEF Passing!Deaths
  <2>6. <<Passing!Hand(p), Lost>> \notin Passing!OneByOne
    BY HoldersDiffer DEF Passing!OneByOne
  <2>7. M = {n \in Node : holder[n] = Passing!Hand(p)}
    <3> SUFFICES ASSUME NEW n \in Node \ M PROVE holder[n] # Passing!Hand(p)
      BY <2>2
    <3>1. CASE \E q \in Proc : n \in InHand(q)
      <4>1. PICK q \in Proc : n \in InHand(q)
        BY <3>1
      <4> QED BY <2>1, <4>1, HoldersDiffer DEF HolderFacts
    <3>2. CASE \E q \in Proc : n \in InQueue(q)
      BY <3>2, HoldersDiffer DEF HolderFacts
    <3>3. CASE \A q \in Proc : n \notin InHand(q) \cup InQueue(q)
      <4>1. holder[n] \in {Nobody, Lost}
        BY <3>3 DEF HolderFacts
      <4> QED BY <4>1, HoldersDiffer
    <3> QED BY <3>1, <3>2, <3>3
  <2>8. CASE M = {}
    BY <1>1, <2>4, <2>8
  <2>9. CASE M # {}
    <3>1. Hands(M, Passing!Hand(p), Lost)
      BY <2>2, <2>3, <2>4, <2>9, HoldersDiffer DEF Hands
    <3> QED BY <2>5, <2>6, <2>7, <3>1, HandedOver
  <2> QED BY <2>8, <2>9
<1>8. ASSUME NEW n \in Node, Collected(n) PROVE Passing!Next
  <2>1. PICK M : M = {n}
    OBVIOUS
  <2>2. holder[n] = Lost /\ holder'[n] = Nobody
    BY <1>0, <1>8 DEF Collected, HolderFacts
  <2>3. \A m \in Node \ M : holder'[m] = holder[m]
    BY <1>0, <1>8, <2>1, HolderStays DEF Collected
  <2>4. Hands(M, Lost, Nobody)
    BY <2>1, <2>2, <2>3, HoldersDiffer DEF Hands
  <2>5. <<Lost, Nobody>> \in Passing!OneByOne
    BY DEF Passing!OneByOne
  <2>6. <<Lost, Nobody>> \notin Passing!Deaths
    BY HoldersDiffer DEF Passing!Deaths
  <2> QED BY <2>1, <2>4, <2>5, <2>6, HandedOver
<1> QED BY <1>2, <1>3, <1>4, <1>5, <1>6, <1>7, <1>8 DEF Moves

(* Passing messages keeps the promise of MsgSpec: a node changes hands one *)
(* by one only from and to the pool, a message as a whole, a death loses   *)
(* all a process had, and the collector takes lost nodes only.             *)
THEOREM MessagesImplemented == ASSUME Prompt PROVE Spec => ImplementsMessages
<1>1. Init => Passing!Init
  <2> SUFFICES ASSUME Init PROVE Passing!Init
    OBVIOUS
  <2>1. HolderFacts
    BY InitInv, HolderFactsHold, NifoAssumption
  <2>2. \A n \in Node : holder[n] = Nobody
    BY <2>1 DEF Init, HolderFacts
  <2>3. holder = [n \in Node |-> holder[n]]
    BY HolderIsHolds DEF HolderIs
  <2> QED BY <2>2, <2>3 DEF Passing!Init
<1>2. IInv /\ IInv' /\ [Next]_vars => [Passing!Next]_holder
  BY NextInv, NifoAssumption, TypesOfInv, HolderFactsHold, HolderFactsNext, MovesImplement
<1> QED BY <1>1, <1>2, InvariantHolds, PTL DEF Spec, ImplementsMessages, Passing!Spec
=============================================================================
