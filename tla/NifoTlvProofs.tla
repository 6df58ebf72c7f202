--------------------------- MODULE NifoTlvProofs ---------------------------
(***************************************************************************)
(* That the TLVs of a message are read as they were written, in order, for *)
(* any sizes of node, head, header and values and any number of them.      *)
(*                                                                         *)
(* 1. The writers' counters: every node of a message but its last is full. *)
(* 2. Sequences of bytes over nodes: what adding to the last node, or a    *)
(*    node, keeps of the layout, and what lies ahead of a place in it.     *)
(* 3. Types: no node is written or read beyond its body.                   *)
(* 4. Every write keeps the layout.                                        *)
(* 5. Every step of a reader takes it on in the layout.                    *)
(* 6. The theorems.                                                        *)
(***************************************************************************)
EXTENDS NifoTlv, SequenceTheorems, FiniteSetTheorems, TLAPS

(* The part of the types that the writers' arithmetic rests on, and what    *)
(* the loop over a value keeps of its counters.                             *)
WriterInv ==
  /\ lastoffset \in Seq(NIFO_SIZE .. BODY_SIZE) /\ lastoffset # <<>>
  /\ sent \in Seq([len : Nat, whole : BOOLEAN, counted : BOOLEAN])
  /\ w \in [len : Nat, old : Nat] /\ w.old <= w.len

Inv == WriterInv /\ FullButLast

(* What is written is as long as its bounds say. *)
LEMMA BytesLength ==
  ASSUME NEW t, NEW a \in Nat, NEW b \in Nat, a <= b
  PROVE  Len(Bytes(t, a, b)) = b - a
BY DEF Bytes

(* Writing bytes that fit moves the lastoffset of the last node only. *)
LEMMA WrittenFits ==
  ASSUME SizesAssumption, Inv, NEW bs, NEW ps, Len(bs) \in Nat, Len(bs) <= Room, Written(bs, ps)
  PROVE  /\ lastoffset' \in Seq(NIFO_SIZE .. BODY_SIZE) /\ lastoffset' # <<>>
         /\ FullButLast'
<1>1. lastoffset' = [lastoffset EXCEPT ![LastNode] = @ + Len(bs)]
  BY DEF Written
<1>2. LastNode \in Nat \ {0} /\ lastoffset[LastNode] \in NIFO_SIZE .. BODY_SIZE
  BY DEF Inv, WriterInv, LastNode
<1>3. lastoffset[LastNode] + Len(bs) \in NIFO_SIZE .. BODY_SIZE
  BY <1>2, SizesAssumption DEF Room, SizesAssumption
<1>4. /\ lastoffset' \in Seq(NIFO_SIZE .. BODY_SIZE) /\ Len(lastoffset') = LastNode
      /\ \A n \in 1 .. LastNode - 1 : lastoffset'[n] = lastoffset[n]
  BY <1>1, <1>2, <1>3 DEF Inv, WriterInv, LastNode
<1> QED
  BY <1>2, <1>4 DEF Inv, FullButLast, LastNode

(* A node linked behind a last node that was filled up keeps all but the    *)
(* new one full.                                                            *)
LEMMA LinkedFits ==
  ASSUME SizesAssumption, Inv, NEW bs, NEW ps, Len(bs) = Room,
         NEW more, Len(more) \in Nat, NIFO_SIZE + Len(more) <= BODY_SIZE,
         Linked(bs, ps, more)
  PROVE  /\ lastoffset' \in Seq(NIFO_SIZE .. BODY_SIZE) /\ lastoffset' # <<>>
         /\ FullButLast'
<1>1. PICK filled : /\ filled = [lastoffset EXCEPT ![LastNode] = @ + Len(bs)]
                    /\ lastoffset' = Append(filled, NIFO_SIZE + Len(more))
  BY DEF Linked
<1>2. LastNode \in Nat \ {0} /\ lastoffset[LastNode] \in NIFO_SIZE .. BODY_SIZE
  BY DEF Inv, WriterInv, LastNode
<1>3. lastoffset[LastNode] + Len(bs) = BODY_SIZE
  BY <1>2, SizesAssumption DEF Room, SizesAssumption
<1>4. /\ filled \in Seq(NIFO_SIZE .. BODY_SIZE) /\ Len(filled) = LastNode
      /\ filled[LastNode] = BODY_SIZE
      /\ \A n \in 1 .. LastNode - 1 : filled[n] = lastoffset[n]
  <2>1. filled = [lastoffset EXCEPT ![LastNode] = BODY_SIZE]
    BY <1>1, <1>3
  <2>2. BODY_SIZE \in NIFO_SIZE .. BODY_SIZE
    BY SizesAssumption DEF SizesAssumption
  <2> QED BY <1>2, <2>1, <2>2 DEF Inv, WriterInv, LastNode
<1>5. \A n \in 1 .. LastNode : filled[n] = BODY_SIZE
  BY <1>2, <1>4 DEF Inv, FullButLast
<1>6. NIFO_SIZE + Len(more) \in NIFO_SIZE .. BODY_SIZE
  BY SizesAssumption DEF SizesAssumption
<1>7. /\ lastoffset' \in Seq(NIFO_SIZE .. BODY_SIZE) /\ Len(lastoffset') = LastNode + 1
      /\ \A n \in 1 .. LastNode : lastoffset'[n] = filled[n]
  BY <1>1, <1>2, <1>4, <1>6
<1> QED
  BY <1>2, <1>5, <1>7 DEF FullButLast, LastNode

(* The one node of a fresh message is its last. *)
LEMMA FreshMessage ==
  ASSUME SizesAssumption, NEW s, s = <<NIFO_SIZE>>
  PROVE  s \in Seq(NIFO_SIZE .. BODY_SIZE) /\ s # <<>> /\ Len(s) = 1
BY SizesAssumption DEF SizesAssumption

LEMMA InitInv == SizesAssumption /\ Init => Inv
BY FreshMessage DEF Init, Inv, WriterInv, FullButLast, LastNode

LEMMA NextInv == ASSUME SizesAssumption, Inv, [Next]_vars PROVE Inv'
<1> USE DEF SizesAssumption
<1>0. /\ LastNode \in Nat \ {0} /\ lastoffset[LastNode] \in NIFO_SIZE .. BODY_SIZE
      /\ Room \in Nat
      /\ \A len \in Lens : len \in Nat
  BY DEF Inv, WriterInv, LastNode, Room
<1>1. ASSUME NEW len \in Lens, nifo_tlv_alloc(len) PROVE Inv'
  <2>1. /\ lastoffset' = [lastoffset EXCEPT ![1] = @ + TLV_SIZE + len]
        /\ lastoffset[1] + TLV_SIZE + len <= BODY_SIZE
    BY <1>1 DEF nifo_tlv_alloc
  <2>2. lastoffset[1] \in NIFO_SIZE .. BODY_SIZE /\ len \in Nat
    BY <1>0 DEF Inv, WriterInv, LastNode
  <2>3. LastNode = 1
    BY <1>0, <2>1, <2>2 DEF Inv, FullButLast
  <2>4. lastoffset' \in Seq(NIFO_SIZE .. BODY_SIZE) /\ Len(lastoffset') = 1
    BY <2>1, <2>2, <2>3 DEF Inv, WriterInv, LastNode
  <2>5. sent' \in Seq([len : Nat, whole : BOOLEAN, counted : BOOLEAN]) /\ UNCHANGED w
    BY <1>1, <2>2 DEF nifo_tlv_alloc, Sent, Inv, WriterInv
  <2>6. lastoffset' # <<>> /\ FullButLast'
    BY <2>4 DEF FullButLast, LastNode
  <2> QED BY <2>4, <2>5, <2>6 DEF Inv, WriterInv
<1>2. ASSUME NEW len \in Lens, nifo_copy_tlv_cont(len) PROVE Inv'
  <2>1. CASE CopyWhole(len)
    <3>1. PICK bs : bs = Bytes(Len(sent) + 1, 0, TLV_SIZE + len)
      OBVIOUS
    <3>2. Len(bs) = TLV_SIZE + len
      BY <1>0, <3>1, BytesLength
    <3>3. Written(bs, bs) /\ Len(bs) <= Room /\ Len(bs) \in Nat
      BY <1>0, <2>1, <3>1, <3>2 DEF CopyWhole
    <3>4. sent' \in Seq([len : Nat, whole : BOOLEAN, counted : BOOLEAN]) /\ UNCHANGED w
      BY <1>0, <2>1 DEF CopyWhole, Sent, Inv, WriterInv
    <3> QED BY <3>3, <3>4, WrittenFits DEF Inv, WriterInv
  <2>2. CASE CopyHeader(len)
    <3>1. PICK bs : bs = Bytes(Len(sent) + 1, 0, TLV_SIZE)
      OBVIOUS
    <3>2. Len(bs) = TLV_SIZE
      BY <1>0, <3>1, BytesLength
    <3>3. Written(bs, bs) /\ Len(bs) <= Room /\ Len(bs) \in Nat
      BY <2>2, <3>1, <3>2 DEF CopyHeader
    <3>4. w' = [len |-> len, old |-> 0] /\ UNCHANGED sent
      BY <2>2 DEF CopyHeader
    <3> QED BY <1>0, <3>3, <3>4, WrittenFits DEF Inv, WriterInv
  <2>3. CASE CopySplit(len)
    <3>1. PICK bs, more : bs = Bytes(Len(sent) + 1, 0, Room)
                          /\ more = Bytes(Len(sent) + 1, Room, TLV_SIZE)
      OBVIOUS
    <3>2. Room < TLV_SIZE
      BY <2>3 DEF CopySplit
    <3>3. Len(bs) = Room /\ Len(more) = TLV_SIZE - Room
      <4>1. Len(bs) = Room - 0
        BY <1>0, <3>1, BytesLength
      <4>2. Len(more) = TLV_SIZE - Room
        <5>1. Room \in Nat /\ TLV_SIZE \in Nat /\ Room <= TLV_SIZE
          BY <1>0, <3>2
        <5> HIDE DEF SizesAssumption
        <5> QED BY <3>1, <5>1, BytesLength
      <4> QED BY <1>0, <4>1, <4>2
    <3>4. Len(more) \in Nat /\ NIFO_SIZE + Len(more) <= BODY_SIZE
      BY <1>0, <3>2, <3>3
    <3>5. CASE Linked(bs, bs, more) /\ w' = [len |-> len, old |-> 0] /\ UNCHANGED sent
      <4>1. w' \in [len : Nat, old : Nat] /\ w'.old <= w'.len
        BY <1>0, <3>5
      <4> QED BY <3>3, <3>4, <3>5, <4>1, LinkedFits DEF Inv, WriterInv
    <3>6. CASE Written(bs, bs) /\ UNCHANGED <<sent, w>>
      BY <1>0, <3>3, <3>6, WrittenFits DEF Inv, WriterInv
    <3> QED BY <2>3, <3>1, <3>5, <3>6 DEF CopySplit, Fail
  <2> QED BY <1>2, <2>1, <2>2, <2>3 DEF nifo_copy_tlv_cont
<1>3. ASSUME CopyPart PROVE Inv'
  <2>1. PICK rest, size, bs, ps :
          /\ rest = w.len - w.old
          /\ size = IF rest > Room THEN Room ELSE rest
          /\ bs = Value(Len(sent) + 1, 0, 0 + size)
          /\ ps = Value(Len(sent) + 1, w.old, w.old + size)
    OBVIOUS
  <2>2. w.len \in Nat /\ w.old \in Nat /\ rest \in Nat /\ size \in Nat /\ size <= Room
    BY <1>0, <2>1 DEF Inv, WriterInv
  <2>3. Len(bs) = size
    <3>1. bs = Bytes(Len(sent) + 1, TLV_SIZE, TLV_SIZE + size)
      BY <2>1, <2>2 DEF Value
    <3> QED BY <2>2, <3>1, BytesLength
  <2>4. CASE Written(bs, ps) /\ Sent(w.len, w.old = 0, FALSE) /\ UNCHANGED w
    <3>1. sent' \in Seq([len : Nat, whole : BOOLEAN, counted : BOOLEAN])
      BY <2>2, <2>4 DEF Sent, Inv, WriterInv
    <3> QED BY <2>2, <2>3, <2>4, <3>1, WrittenFits DEF Inv, WriterInv
  <2>5. CASE rest > Room /\ Linked(bs, ps, <<>>)
             /\ w' = [w EXCEPT !.old = @ + size] /\ UNCHANGED sent
    <3>1. Len(<<>>) \in Nat /\ NIFO_SIZE + Len(<<>>) <= BODY_SIZE
      OBVIOUS
    <3>2. w' \in [len : Nat, old : Nat] /\ w'.old <= w'.len
      <4>1. w' \in [len : Nat, old : Nat] /\ w'.len = w.len /\ w'.old = w.old + size
        <5>1. w \in [len : Nat, old : Nat] /\ w' = [w EXCEPT !.old = w.old + size]
          BY <2>5 DEF Inv, WriterInv
        <5>2. w.old + size \in Nat
          BY <2>2
        <5> QED BY <5>1, <5>2
      <4>2. w.old + size <= w.len
        BY <2>1, <2>2
      <4> QED BY <4>1, <4>2
    <3>3. Len(bs) = Room
      BY <2>1, <2>3, <2>5
    <3> QED BY <2>5, <3>1, <3>2, <3>3, LinkedFits DEF Inv, WriterInv
  <2>6. CASE Written(bs, ps) /\ UNCHANGED <<sent, w>>
    BY <2>2, <2>3, <2>6, WrittenFits DEF Inv, WriterInv
  <2> QED BY <1>3, <2>1, <2>4, <2>5, <2>6 DEF CopyPart, CopiedFrom, Fail
<1>4. ASSUME NewMessage PROVE Inv'
  BY <1>4, FreshMessage DEF NewMessage, Inv, WriterInv, FullButLast, LastNode
<1>5. ASSUME UNCHANGED <<lastoffset, sent, w>> PROVE Inv'
  BY <1>5 DEF Inv, WriterInv, FullButLast, LastNode
<1>6. (\E by \in {"read", "get"} : ReadCall(by)) => UNCHANGED <<lastoffset, sent, w>>
  BY DEF ReadCall, nodes
<1>7. Read => UNCHANGED <<lastoffset, sent, w>>
  BY DEF Read, ReadPart, ReadHeader, ReadValue, nodes
<1>8. UNCHANGED vars => UNCHANGED <<lastoffset, sent, w>>
  BY DEF vars, nodes
<1> QED
  BY <1>1, <1>2, <1>3, <1>4, <1>5, <1>6, <1>7, <1>8 DEF Next, Write

(* For any sizes of head, header and body and any lengths of values, each  *)
(* node of a message that nifo_tlv_alloc and nifo_copy_tlv_cont wrote is   *)
(* full unless it is the last one.                                         *)
THEOREM NodesAreFull == Spec => []FullButLast
<1>1. Init => Inv
  BY InitInv, SizesAssumption
<1>2. Inv /\ [Next]_vars => Inv'
  BY NextInv, SizesAssumption
<1>3. Inv => FullButLast
  BY DEF Inv
<1> QED BY <1>1, <1>2, <1>3, PTL DEF Spec

-----------------------------------------------------------------------------
(* Layouts: what the bytes of the nodes stand for                          *)

Pair == Nat \X Nat

(* pl2 is pl with c at the end of its last node. *)
Grown(pl, c, pl2) ==
  /\ Len(pl2) = Len(pl)
  /\ \A n \in 1 .. Len(pl) - 1 : pl2[n] = pl[n]
  /\ pl2[Len(pl)] = pl[Len(pl)] \o c

LEMMA GrownLasts ==
  ASSUME NEW last \in Seq(Pair), NEW c \in Seq(Pair)
  PROVE  /\ last \o c \in Seq(Pair) /\ Len(last \o c) = Len(last) + Len(c)
         /\ \A i \in 1 .. Len(last) : (last \o c)[i] = last[i]
         /\ \A x \in 1 .. Len(c) : (last \o c)[Len(last) + x] = c[x]
OBVIOUS

(* What pl2 has of pl and of c. *)
Keeps(pl, c, pl2) ==
  /\ \A n \in 1 .. Len(pl) :
       /\ pl2[n] \in Seq(Pair)
       /\ Len(pl2[n]) = IF n = Len(pl) THEN Len(pl[n]) + Len(c) ELSE Len(pl[n])
       /\ \A i \in 1 .. Len(pl[n]) : pl2[n][i] = pl[n][i]
  /\ \A x \in 1 .. Len(c) : pl2[Len(pl)][Len(pl[Len(pl)]) + x] = c[x]

LEMMA GrownHas ==
  ASSUME NEW pl \in Seq(Seq(Pair)), pl # <<>>, NEW c \in Seq(Pair), NEW pl2, Grown(pl, c, pl2)
  PROVE  Keeps(pl, c, pl2)
<1>1. Len(pl) \in Nat \ {0} /\ Len(pl) \in 1 .. Len(pl)
  OBVIOUS
<1>2. PICK m, last : m = Len(pl) /\ last = pl[m]
  OBVIOUS
<1>3. last \in Seq(Pair) /\ pl2[m] = last \o c
  BY <1>1, <1>2 DEF Grown
<1>4. /\ pl2[m] \in Seq(Pair) /\ Len(pl2[m]) = Len(last) + Len(c)
      /\ \A i \in 1 .. Len(last) : pl2[m][i] = last[i]
      /\ \A x \in 1 .. Len(c) : pl2[m][Len(last) + x] = c[x]
  BY <1>3, GrownLasts
<1>5. ASSUME NEW n \in 1 .. m, n # m PROVE pl2[n] = pl[n] /\ pl2[n] \in Seq(Pair)
  BY <1>1, <1>2, <1>5 DEF Grown
<1> QED BY <1>2, <1>4, <1>5 DEF Keeps

(* The bytes a .. a + Len(c) - 1 of TLV T are written where byte a of it is *)
(* to come.  S and S2 are the sizes before and after, e and e2 the ends.   *)
Growth(pl, c, pl2, T, a, S, e, S2, e2) ==
  /\ pl \in Seq(Seq(Pair)) /\ pl # <<>> /\ \A n \in 1 .. Len(pl) - 1 : pl[n] # <<>>
  /\ c \in Seq(Pair) /\ Grown(pl, c, pl2)
  /\ T \in Nat /\ a \in Nat /\ \A x \in 1 .. Len(c) : c[x] = <<T, a + x - 1>>
  /\ InOrder(pl, S, e) /\ (Len(c) > 0 => e = <<T, a>>)
  /\ \A n \in 1 .. Len(pl) : \A i \in 1 .. Len(pl[n]) :
       S[pl[n][i][1]] \in Nat /\ S2[pl[n][i][1]] = S[pl[n][i][1]]
  /\ S2[T] \in Nat /\ a + Len(c) <= S2[T]
  /\ e2 = IF Len(c) > 0 THEN After(S2, T, a, Len(c)) ELSE e

LEMMA InOrderGrown ==
  ASSUME NEW pl, NEW c, NEW pl2, NEW T, NEW a, NEW S, NEW e, NEW S2, NEW e2,
         Growth(pl, c, pl2, T, a, S, e, S2, e2)
  PROVE  InOrder(pl2, S2, e2)
<1>0. PICK m, k : m = Len(pl) /\ k = Len(c)
  OBVIOUS
<1>1. m \in Nat \ {0} /\ k \in Nat /\ T \in Nat /\ a \in Nat /\ Len(pl2) = m
  BY <1>0 DEF Growth, Grown
<1>2. ASSUME NEW n \in 1 .. m
      PROVE  /\ Len(pl[n]) \in Nat /\ (pl[n] = <<>> <=> Len(pl[n]) = 0)
             /\ \A i \in 1 .. Len(pl[n]) : pl[n][i] \in Pair
  <2>1. pl[n] \in Seq(Pair)
    BY <1>0 DEF Growth
  <2> QED BY <2>1, ElementOfSeq
<1>3. /\ \A n \in 1 .. m :
           /\ pl2[n] \in Seq(Pair)
           /\ Len(pl2[n]) = IF n = m THEN Len(pl[n]) + k ELSE Len(pl[n])
           /\ \A i \in 1 .. Len(pl[n]) : pl2[n][i] = pl[n][i]
      /\ \A x \in 1 .. k : pl2[m][Len(pl[m]) + x] = c[x]
  <2>1. pl \in Seq(Seq(Pair)) /\ pl # <<>> /\ c \in Seq(Pair) /\ Grown(pl, c, pl2)
    BY DEF Growth
  <2>2. Keeps(pl, c, pl2)
    BY <2>1, GrownHas
  <2> QED BY <1>0, <2>2 DEF Keeps
<1>4. \A n \in 1 .. m : pl2[n] = <<>> <=> Len(pl2[n]) = 0
  BY <1>3
<1>5. \A x \in 1 .. k : pl2[m][Len(pl[m]) + x] = <<T, a + x - 1>>
  BY <1>0, <1>3 DEF Growth
<1>6. ASSUME NEW n \in 1 .. m, n # m PROVE Len(pl[n]) > 0
  <2>1. n \in 1 .. m - 1
    BY <1>1, <1>6
  <2>2. pl[n] # <<>>
    BY <1>0, <2>1 DEF Growth
  <2> QED BY <1>2, <2>2
<1>7. ASSUME k > 0 PROVE e = <<T, a>> /\ e2 = After(S2, T, a, k) /\ pl2[m][Len(pl[m]) + 1] = <<T, a>>
  <2>1. 1 \in 1 .. k /\ a + 1 - 1 = a
    BY <1>1, <1>7
  <2>2. pl2[m][Len(pl[m]) + 1] = <<T, a + 1 - 1>>
    BY <1>5, <2>1
  <2> QED BY <1>0, <1>7, <2>1, <2>2 DEF Growth
<1>8. k = 0 => e2 = e
  BY <1>0 DEF Growth
<1>9. S2[T] \in Nat /\ a + k <= S2[T]
  BY <1>0 DEF Growth
<1>10. ASSUME NEW n \in 1 .. m, NEW i \in 1 .. Len(pl[n]) + 1
       PROVE  Here(pl2, e2, n, i) = Here(pl, e, n, i)
  <2>0. PICK L : L = Len(pl[n])
    OBVIOUS
  <2>1. L \in Nat /\ i \in 1 .. L + 1
    BY <1>2, <2>0
  <2>2. CASE i <= L
    <3>1. i <= Len(pl2[n]) /\ pl2[n][i] = pl[n][i]
      BY <1>1, <1>3, <2>0, <2>1, <2>2
    <3> QED BY <2>0, <2>2, <3>1 DEF Here
  <2>3. CASE i = L + 1 /\ n = m
    <3>1. Here(pl, e, n, i) = e
      BY <1>0, <1>1, <2>0, <2>1, <2>3 DEF Here
    <3>2. Len(pl2[n]) = L + k
      BY <1>3, <2>0, <2>3
    <3>3. CASE k = 0
      <4>1. ~(i <= Len(pl2[n])) /\ ~(n < Len(pl2))
        BY <1>1, <2>1, <2>3, <3>2, <3>3
      <4> QED BY <1>8, <3>1, <3>3, <4>1 DEF Here
    <3>4. CASE k > 0
      <4>1. i <= Len(pl2[n])
        BY <1>1, <2>1, <2>3, <3>2, <3>4
      <4> QED BY <1>7, <2>0, <2>3, <3>1, <3>4, <4>1 DEF Here
    <3> QED BY <1>1, <3>3, <3>4
  <2>4. CASE i = L + 1 /\ n # m
    <3>1. PICK n1 : n1 = n + 1
      OBVIOUS
    <3>2. n1 \in 1 .. m /\ n < m
      BY <1>1, <2>4, <3>1
    <3>3. Len(pl2[n]) = L /\ ~(i <= L)
      BY <1>3, <2>0, <2>1, <2>4
    <3>4. Here(pl, e, n, i) = IF pl[n1] # <<>> THEN pl[n1][1] ELSE e
      BY <1>0, <2>0, <3>1, <3>2, <3>3 DEF Here
    <3>5. Here(pl2, e2, n, i) = IF pl2[n1] # <<>> THEN pl2[n1][1] ELSE e2
      BY <1>1, <3>1, <3>2, <3>3 DEF Here
    <3>6. CASE Len(pl[n1]) > 0
      <4>1. pl[n1] # <<>> /\ Len(pl2[n1]) > 0 /\ 1 \in 1 .. Len(pl[n1])
        BY <1>1, <1>2, <1>3, <3>2, <3>6
      <4>2. pl2[n1] # <<>> /\ pl2[n1][1] = pl[n1][1]
        BY <1>3, <1>4, <3>2, <4>1
      <4> QED BY <3>4, <3>5, <4>1, <4>2
    <3>7. CASE Len(pl[n1]) = 0
      <4>1. n1 = m /\ pl[n1] = <<>> /\ Len(pl2[m]) = k
        BY <1>1, <1>2, <1>3, <1>6, <3>2, <3>7
      <4>2. CASE k = 0
        <5>1. pl2[n1] = <<>>
          BY <1>4, <3>2, <4>1, <4>2
        <5> QED BY <1>8, <3>4, <3>5, <4>1, <4>2, <5>1
      <4>3. CASE k > 0
        <5>1. pl2[n1] # <<>>
          BY <1>4, <3>2, <4>1, <4>3
        <5>2. pl2[n1][1] = <<T, a>>
          BY <1>7, <3>7, <4>1, <4>3
        <5> QED BY <1>7, <3>4, <3>5, <4>1, <4>3, <5>1, <5>2
      <4> QED BY <1>1, <4>2, <4>3
    <3> QED BY <1>2, <3>2, <3>6, <3>7
  <2> QED BY <2>1, <2>2, <2>3, <2>4
<1>11. Here(pl2, e2, 1, 1) = <<1, 0>>
  <2>1. 1 \in 1 .. m /\ 1 \in 1 .. Len(pl[1]) + 1
    BY <1>1, <1>2
  <2> QED BY <1>10, <2>1 DEF Growth, InOrder
<1>12. ASSUME NEW n \in 1 .. m, NEW i \in 1 .. Len(pl2[n]), NEW d \in 0 .. Len(pl2[n]) + 1 - i,
              pl2[n][i][2] + d <= S2[pl2[n][i][1]]
       PROVE  Here(pl2, e2, n, i + d) = After(S2, pl2[n][i][1], pl2[n][i][2], d)
  <2>0. PICK L, t, j : L = Len(pl[n]) /\ t = pl2[n][i][1] /\ j = pl2[n][i][2]
    OBVIOUS
  <2>1. L \in Nat /\ i \in Nat /\ i > 0 /\ d \in Nat
    BY <1>2, <2>0
  <2>2. ASSUME i <= L
        PROVE  /\ i \in 1 .. L /\ t \in Nat /\ j \in Nat /\ S2[t] \in Nat
               /\ \A d0 \in 0 .. L + 1 - i : j + d0 <= S2[t] => Here(pl, e, n, i + d0) = After(S2, t, j, d0)
    <3>1. i \in 1 .. L /\ pl2[n][i] = pl[n][i]
      BY <1>3, <2>0, <2>1, <2>2
    <3>2. pl[n][i] \in Pair
      BY <1>2, <2>0, <3>1
    <3>3. S[t] \in Nat /\ S2[t] = S[t]
      BY <1>0, <2>0, <3>1 DEF Growth
    <3>4. \A d0 \in 0 .. L + 1 - i : j + d0 <= S[t] => Here(pl, e, n, i + d0) = After(S, t, j, d0)
      BY <1>0, <2>0, <3>1 DEF Growth, InOrder
    <3>5. t \in Nat /\ j \in Nat
      BY <2>0, <3>1, <3>2 DEF Pair
    <3> QED BY <3>1, <3>3, <3>4, <3>5 DEF After
  <2>3. CASE i <= L /\ i + d <= L + 1
    <3>1. d \in 0 .. L + 1 - i /\ i + d \in 1 .. L + 1
      BY <2>1, <2>3
    <3>2. Here(pl, e, n, i + d) = After(S2, t, j, d)
      BY <1>12, <2>0, <2>2, <2>3, <3>1
    <3> QED BY <1>10, <2>0, <3>1, <3>2
  <2>4. ASSUME ~(i <= L /\ i + d <= L + 1) PROVE n = m /\ k > 0 /\ i + d <= L + k + 1 /\ i <= L + k
    <3>1. Len(pl2[n]) = (IF n = m THEN L + k ELSE L)
      BY <1>3, <2>0
    <3> QED BY <1>1, <2>1, <2>4, <3>1
  <2>5. CASE i <= L /\ ~(i + d <= L + 1)
    <3>1. PICK d0, x : d0 = L + 1 - i /\ x = i + d - L
      OBVIOUS
    <3>2. d0 \in 0 .. L + 1 - i /\ d0 \in Nat /\ d0 < d /\ i + d0 = L + 1
          /\ x \in 2 .. k + 1 /\ i + d = L + x /\ d = d0 + x - 1
      BY <1>1, <2>1, <2>4, <2>5, <3>1
    <3>3. t \in Nat /\ j \in Nat /\ S2[t] \in Nat /\ j + d <= S2[t]
      BY <1>12, <2>0, <2>2, <2>5
    <3>4. Here(pl, e, n, L + 1) = After(S2, t, j, d0)
      <4>1. j + d0 <= S2[t]
        BY <2>1, <3>2, <3>3
      <4> QED BY <2>2, <2>5, <3>2, <4>1
    <3>5. After(S2, t, j, d0) = <<t, j + d0>>
      <4>1. j + d0 < S2[t]
        BY <2>1, <3>2, <3>3
      <4> QED BY <4>1 DEF After
    <3>6. Here(pl, e, n, L + 1) = e
      <4>1. n = Len(pl) /\ ~(L + 1 <= L) /\ ~(n < Len(pl))
        BY <1>0, <1>1, <2>1, <2>4, <2>5
      <4> QED BY <2>0, <4>1 DEF Here
    <3>7. t = T /\ j + d0 = a
      BY <1>7, <2>4, <2>5, <3>4, <3>5, <3>6
    <3>8. j + d = a + x - 1 /\ Len(pl2[n]) = L + k
      <4>1. Len(pl2[n]) = L + k
        BY <1>3, <2>0, <2>4, <2>5
      <4>2. j + d = a + x - 1
        BY <1>1, <2>1, <3>2, <3>3, <3>7
      <4> QED BY <4>1, <4>2
    <3>9. CASE x <= k
      <4>1. L + x <= L + k /\ x \in 1 .. k
        BY <1>1, <2>1, <3>2, <3>9
      <4>2. pl2[n][L + x] = <<T, a + x - 1>>
        BY <1>5, <2>0, <2>4, <2>5, <4>1
      <4>3. Here(pl2, e2, n, i + d) = <<T, a + x - 1>>
        BY <3>2, <3>8, <4>1, <4>2 DEF Here
      <4>4. j + d < S2[t]
        BY <1>1, <1>9, <3>2, <3>7, <3>8, <3>9
      <4> QED BY <2>0, <3>7, <3>8, <4>3, <4>4 DEF After
    <3>10. CASE x = k + 1
      <4>1. ~(L + x <= L + k) /\ ~(n < Len(pl2))
        BY <1>1, <2>1, <2>4, <2>5, <3>2, <3>10
      <4>2. Here(pl2, e2, n, i + d) = e2
        BY <3>2, <3>8, <4>1 DEF Here
      <4>3. j + d = a + k
        BY <1>1, <3>8, <3>10
      <4> QED BY <1>7, <2>0, <2>4, <2>5, <3>7, <4>2, <4>3 DEF After
    <3> QED BY <1>1, <3>2, <3>9, <3>10
  <2>6. CASE ~(i <= L)
    <3>1. PICK x : x = i - L
      OBVIOUS
    <3>2. x \in 1 .. k /\ i = L + x /\ x + d <= k + 1 /\ Len(pl2[n]) = L + k /\ n = m /\ k > 0
      <4>1. n = m /\ k > 0 /\ i + d <= L + k + 1 /\ i <= L + k
        BY <2>4, <2>6
      <4>2. Len(pl2[n]) = L + k
        BY <1>3, <2>0, <4>1
      <4>3. x \in 1 .. k /\ i = L + x /\ x + d <= k + 1
        BY <1>1, <2>1, <2>6, <3>1, <4>1
      <4> QED BY <4>1, <4>2, <4>3
    <3>3. t = T /\ j = a + x - 1
      BY <1>5, <2>0, <3>2
    <3>4. CASE x + d <= k
      <4>1. PICK y : y = x + d
        OBVIOUS
      <4>2. y \in 1 .. k /\ i + d = L + y /\ L + y <= L + k /\ j + d = a + y - 1 /\ j + d < S2[t]
        BY <1>1, <1>9, <2>1, <3>2, <3>3, <3>4, <4>1
      <4>3. pl2[n][L + y] = <<T, a + y - 1>>
        BY <1>5, <2>0, <3>2, <4>2
      <4>4. Here(pl2, e2, n, i + d) = <<T, a + y - 1>>
        BY <3>2, <4>2, <4>3 DEF Here
      <4> QED BY <2>0, <3>3, <4>2, <4>4 DEF After
    <3>5. CASE x + d = k + 1
      <4>1. ~(i + d <= L + k) /\ ~(n < Len(pl2)) /\ j + d = a + k
        BY <1>1, <2>1, <3>2, <3>3, <3>5
      <4>2. Here(pl2, e2, n, i + d) = e2
        BY <3>2, <4>1 DEF Here
      <4> QED BY <1>7, <2>0, <3>2, <3>3, <4>1, <4>2 DEF After
    <3> QED BY <1>1, <2>1, <3>2, <3>4, <3>5
  <2> QED BY <2>3, <2>5, <2>6
<1> QED BY <1>1, <1>11, <1>12 DEF InOrder

(* A new empty node changes nothing. *)
LEMMA InOrderNewNode ==
  ASSUME NEW pl \in Seq(Seq(Pair)), pl # <<>>, NEW S, NEW e, InOrder(pl, S, e),
         NEW pl2, pl2 = Append(pl, <<>>)
  PROVE  InOrder(pl2, S, e)
<1>0. PICK m : m = Len(pl)
  OBVIOUS
<1>1. /\ m \in Nat \ {0} /\ Len(pl2) = m + 1 /\ pl2[m + 1] = <<>> /\ Len(pl2[m + 1]) = 0
      /\ \A n \in 1 .. m : pl2[n] = pl[n] /\ Len(pl[n]) \in Nat
  BY <1>0
<1>2. ASSUME NEW n \in 1 .. m, NEW i \in 1 .. Len(pl[n]) + 1
      PROVE  Here(pl2, e, n, i) = Here(pl, e, n, i)
  <2>1. CASE n < m
    <3>1. n + 1 \in 1 .. m /\ n < m + 1
      BY <1>1, <2>1
    <3>2. pl2[n] = pl[n] /\ pl2[n + 1] = pl[n + 1]
      BY <1>1, <3>1
    <3> QED BY <1>0, <1>1, <2>1, <3>1, <3>2 DEF Here
  <2>2. CASE n = m
    BY <1>0, <1>1, <2>2 DEF Here
  <2> QED BY <1>1, <2>1, <2>2
<1>3. Here(pl2, e, 1, 1) = <<1, 0>>
  <2>1. 1 \in 1 .. m /\ 1 \in 1 .. Len(pl[1]) + 1
    BY <1>1
  <2> QED BY <1>2, <2>1 DEF InOrder
<1>4. ASSUME NEW n \in 1 .. Len(pl2), NEW i \in 1 .. Len(pl2[n]), NEW d \in 0 .. Len(pl2[n]) + 1 - i,
             pl2[n][i][2] + d <= S[pl2[n][i][1]]
      PROVE  Here(pl2, e, n, i + d) = After(S, pl2[n][i][1], pl2[n][i][2], d)
  <2>1. n \in 1 .. m
    <3>1. n # m + 1
      BY <1>1, <1>4
    <3> QED BY <1>1, <1>4, <3>1
  <2>2. pl2[n] = pl[n] /\ i + d \in 1 .. Len(pl[n]) + 1
    BY <1>1, <2>1
  <2>3. Here(pl, e, n, i + d) = After(S, pl[n][i][1], pl[n][i][2], d)
    BY <1>0, <1>4, <2>1, <2>2 DEF InOrder
  <2> QED BY <1>2, <2>1, <2>2, <2>3
<1> QED BY <1>3, <1>4 DEF InOrder

(* The bytes by stand for pl, each as the set G allows, those of the nodes  *)
(* behind the head for TLVs behind the c-th.                                *)
Meant(by, pl, c, G) ==
  /\ by \in Seq(Seq(Pair)) /\ pl \in Seq(Seq(Pair)) /\ pl # <<>> /\ Len(by) = Len(pl)
  /\ \A n \in 1 .. Len(pl) : Len(by[n]) = Len(pl[n])
  /\ \A n \in 1 .. Len(pl) : \A i \in 1 .. Len(pl[n]) :
       <<by[n][i], pl[n][i]>> \in G /\ (n > 1 => pl[n][i][1] > c)

(* What bs and ps add. *)
Added(bs, ps, T, a, G2, S2) ==
  /\ bs \in Seq(Pair) /\ ps \in Seq(Pair) /\ Len(bs) = Len(ps) /\ T \in Nat /\ a \in Nat
  /\ \A x \in 1 .. Len(ps) : ps[x] = <<T, a + x - 1>> /\ <<bs[x], ps[x]>> \in G2
  /\ S2[T] \in Nat /\ a + Len(ps) <= S2[T]

LEMMA GrownIsSeq ==
  ASSUME NEW pl \in Seq(Seq(Pair)), pl # <<>>, NEW c \in Seq(Pair), NEW pl2,
         pl2 = [pl EXCEPT ![Len(pl)] = @ \o c]
  PROVE  pl2 \in Seq(Seq(Pair)) /\ pl2 # <<>> /\ Grown(pl, c, pl2)
<1>1. PICK m, last : m = Len(pl) /\ last = pl[m]
  OBVIOUS
<1>2. m \in Nat \ {0} /\ m \in 1 .. m /\ last \in Seq(Pair)
  BY <1>1
<1>3. last \o c \in Seq(Pair) /\ pl2 = [pl EXCEPT ![m] = last \o c]
  BY <1>1, <1>2, GrownLasts
<1>4. pl2 \in Seq(Seq(Pair)) /\ Len(pl2) = m /\ pl2[m] = last \o c
      /\ \A n \in 1 .. m - 1 : pl2[n] = pl[n]
  BY <1>1, <1>2, <1>3
<1> QED BY <1>1, <1>2, <1>4 DEF Grown

LEMMA MeantGrown ==
  ASSUME NEW by, NEW pl, NEW c, NEW G, Meant(by, pl, c, G),
         NEW bs, NEW ps, NEW T, NEW a, NEW G2, NEW S2, Added(bs, ps, T, a, G2, S2),
         G \subseteq G2, NEW c2, Len(pl) > 1 => c2 = c /\ T > c,
         NEW by2, by2 = [by EXCEPT ![Len(pl)] = @ \o bs],
         NEW pl2, pl2 = [pl EXCEPT ![Len(pl)] = @ \o ps]
  PROVE  Meant(by2, pl2, c2, G2)
<1>0. PICK m, k : m = Len(pl) /\ k = Len(ps)
  OBVIOUS
<1>1. m \in Nat \ {0} /\ k \in Nat /\ Len(by) = m /\ k = Len(bs)
      /\ by \in Seq(Seq(Pair)) /\ pl \in Seq(Seq(Pair)) /\ pl # <<>> /\ by # <<>>
      /\ bs \in Seq(Pair) /\ ps \in Seq(Pair)
  BY <1>0 DEF Meant, Added
<1>2. pl2 \in Seq(Seq(Pair)) /\ pl2 # <<>> /\ Grown(pl, ps, pl2)
  BY <1>1, GrownIsSeq
<1>3. by2 \in Seq(Seq(Pair)) /\ Grown(by, bs, by2)
  <2>1. by2 = [by EXCEPT ![Len(by)] = @ \o bs]
    BY <1>0, <1>1
  <2> QED BY <1>1, <2>1, GrownIsSeq
<1>4. /\ \A n \in 1 .. m :
           /\ Len(pl2[n]) = IF n = m THEN Len(pl[n]) + k ELSE Len(pl[n])
           /\ \A i \in 1 .. Len(pl[n]) : pl2[n][i] = pl[n][i]
      /\ \A x \in 1 .. k : pl2[m][Len(pl[m]) + x] = ps[x]
  <2>1. pl \in Seq(Seq(Pair)) /\ pl # <<>> /\ ps \in Seq(Pair) /\ Grown(pl, ps, pl2)
    BY <1>1, <1>2
  <2>2. Keeps(pl, ps, pl2)
    BY <2>1, GrownHas
  <2> QED BY <1>0, <2>2 DEF Keeps
<1>5. /\ \A n \in 1 .. m :
           /\ Len(by2[n]) = IF n = m THEN Len(by[n]) + k ELSE Len(by[n])
           /\ \A i \in 1 .. Len(by[n]) : by2[n][i] = by[n][i]
      /\ \A x \in 1 .. k : by2[m][Len(by[m]) + x] = bs[x]
  <2>1. by \in Seq(Seq(Pair)) /\ by # <<>> /\ bs \in Seq(Pair) /\ Grown(by, bs, by2)
    BY <1>1, <1>3
  <2>2. Keeps(by, bs, by2)
    BY <2>1, GrownHas
  <2> QED BY <1>1, <2>2 DEF Keeps
<1>6. Len(pl2) = m /\ Len(by2) = m
  BY <1>0, <1>1, <1>2, <1>3 DEF Grown
<1>7. \A n \in 1 .. m : Len(by[n]) = Len(pl[n]) /\ Len(pl[n]) \in Nat
  BY <1>0, <1>1 DEF Meant
<1>8. \A n \in 1 .. m : Len(by2[n]) = Len(pl2[n])
  BY <1>4, <1>5, <1>7
<1>9. ASSUME NEW n \in 1 .. m, NEW i \in 1 .. Len(pl2[n])
      PROVE  <<by2[n][i], pl2[n][i]>> \in G2 /\ (n > 1 => pl2[n][i][1] > c2)
  <2>0. PICK L : L = Len(pl[n])
    OBVIOUS
  <2>1. L \in Nat /\ i \in Nat \ {0} /\ Len(by[n]) = L
    BY <1>7, <2>0
  <2>2. n > 1 => m > 1
    BY <1>1
  <2>3. CASE i <= L
    <3>1. i \in 1 .. Len(pl[n]) /\ by2[n][i] = by[n][i] /\ pl2[n][i] = pl[n][i]
      <4>1. i \in 1 .. Len(pl[n]) /\ i \in 1 .. Len(by[n])
        BY <2>0, <2>1, <2>3
      <4> QED BY <1>4, <1>5, <4>1
    <3>2. <<by[n][i], pl[n][i]>> \in G /\ (n > 1 => pl[n][i][1] > c)
      BY <1>0, <3>1 DEF Meant
    <3> QED BY <1>0, <2>2, <3>1, <3>2
  <2>4. CASE ~(i <= L)
    <3>1. Len(pl2[n]) = IF n = m THEN L + k ELSE L
      BY <1>4, <2>0
    <3>2. n = m /\ i <= L + k
      BY <1>1, <2>1, <2>4, <3>1
    <3>3. PICK x : x = i - L
      OBVIOUS
    <3>4. x \in 1 .. k /\ i = L + x
      BY <1>1, <2>1, <2>4, <3>2, <3>3
    <3>5. pl2[n][i] = ps[x] /\ by2[n][i] = bs[x]
      BY <1>4, <1>5, <2>0, <2>1, <3>2, <3>4
    <3>6. ps[x] = <<T, a + x - 1>> /\ <<bs[x], ps[x]>> \in G2
      BY <1>0, <3>4 DEF Added
    <3>7. pl2[n][i][1] = T
      BY <3>5, <3>6
    <3>8. n > 1 => pl2[n][i][1] > c2
      BY <1>0, <2>2, <3>7
    <3> QED BY <3>5, <3>6, <3>8
  <2> QED BY <2>3, <2>4
<1> QED BY <1>0, <1>2, <1>3, <1>6, <1>8, <1>9 DEF Meant

LEMMA MeantNewNode ==
  ASSUME NEW by, NEW pl, NEW c, NEW G, Meant(by, pl, c, G),
         NEW by2, by2 = Append(by, <<>>), NEW pl2, pl2 = Append(pl, <<>>)
  PROVE  Meant(by2, pl2, c, G)
<1>0. PICK m : m = Len(pl)
  OBVIOUS
<1>1. /\ by \in Seq(Seq(Pair)) /\ pl \in Seq(Seq(Pair)) /\ m \in Nat \ {0} /\ Len(by) = m
      /\ \A n \in 1 .. m : Len(by[n]) = Len(pl[n])
      /\ \A n \in 1 .. m : \A i \in 1 .. Len(pl[n]) :
           <<by[n][i], pl[n][i]>> \in G /\ (n > 1 => pl[n][i][1] > c)
  BY <1>0 DEF Meant
<1>2. <<>> \in Seq(Pair)
  OBVIOUS
<1>3. /\ by2 \in Seq(Seq(Pair)) /\ pl2 \in Seq(Seq(Pair)) /\ Len(by2) = m + 1 /\ Len(pl2) = m + 1
      /\ pl2[m + 1] = <<>> /\ by2[m + 1] = <<>> /\ \A n \in 1 .. m : pl2[n] = pl[n] /\ by2[n] = by[n]
  BY <1>0, <1>1, <1>2
<1>4. \A n \in 1 .. m + 1 : n \in 1 .. m \/ n = m + 1
  BY <1>1
<1>5. Len(pl2[m + 1]) = 0 /\ Len(by2[m + 1]) = 0 /\ pl2 # <<>>
  BY <1>1, <1>3
<1>6. \A n \in 1 .. m + 1 : Len(by2[n]) = Len(pl2[n])
  BY <1>1, <1>3, <1>4, <1>5
<1>7. ASSUME NEW n \in 1 .. m + 1, NEW i \in 1 .. Len(pl2[n])
      PROVE  <<by2[n][i], pl2[n][i]>> \in G /\ (n > 1 => pl2[n][i][1] > c)
  <2>1. CASE n = m + 1
    <3>1. i \in 1 .. 0
      BY <1>5, <1>7, <2>1
    <3> QED BY <3>1
  <2>2. CASE n \in 1 .. m
    BY <1>1, <1>3, <2>2
  <2> QED BY <1>4, <2>1, <2>2
<1> QED BY <1>3, <1>5, <1>6, <1>7 DEF Meant

(* Before byte i of node n the reader stands, still to take need bytes of   *)
(* TLV T, from its byte j on.                                               *)
Ahead(pl, S, e, n, i, T, j, need) ==
  /\ pl \in Seq(Seq(Pair)) /\ InOrder(pl, S, e)
  /\ n \in 1 .. Len(pl) /\ i \in 1 .. Len(pl[n]) + 1
  /\ Here(pl, e, n, i) = <<T, j>> /\ T # e[1]
  /\ T \in Nat /\ j \in Nat /\ S[T] \in Nat /\ need \in Nat \ {0} /\ j + need <= S[T]

(* As many of them as node n has follow one another in it. *)
LEMMA AheadInNode ==
  ASSUME NEW pl, NEW S, NEW e, NEW n, NEW i, NEW T, NEW j, NEW need,
         Ahead(pl, S, e, n, i, T, j, need)
  PROVE  /\ Len(pl[n]) \in Nat
         /\ \A d \in 0 .. Len(pl[n]) + 1 - i : d <= need =>
              Here(pl, e, n, i + d) = After(S, T, j, d)
         /\ \A d \in 0 .. Len(pl[n]) - i : d < need => pl[n][i + d] = <<T, j + d>>
<1>0. PICK L : L = Len(pl[n])
  OBVIOUS
<1>1. /\ pl \in Seq(Seq(Pair)) /\ n \in 1 .. Len(pl) /\ i \in 1 .. L + 1
      /\ Here(pl, e, n, i) = <<T, j>>
      /\ T \in Nat /\ j \in Nat /\ S[T] \in Nat /\ need \in Nat \ {0} /\ j + need <= S[T]
  BY <1>0 DEF Ahead
<1>2. L \in Nat
  BY <1>0, <1>1
<1>3. ASSUME NEW d \in 0 .. L + 1 - i, d <= need
      PROVE  Here(pl, e, n, i + d) = After(S, T, j, d)
  <2>1. d \in Nat /\ i \in Nat \ {0} /\ j + d <= S[T] /\ j < S[T]
    BY <1>1, <1>2, <1>3
  <2>2. CASE i <= L
    <3>1. pl[n][i] = <<T, j>> /\ i \in 1 .. L
      BY <1>0, <1>1, <2>2 DEF Here
    <3>2. \A d0 \in 0 .. L + 1 - i : pl[n][i][2] + d0 <= S[pl[n][i][1]] =>
            Here(pl, e, n, i + d0) = After(S, pl[n][i][1], pl[n][i][2], d0)
      BY <1>0, <1>1, <3>1 DEF Ahead, InOrder
    <3> QED BY <2>1, <3>1, <3>2
  <2>3. CASE ~(i <= L)
    <3>1. d = 0 /\ i + d = i /\ j + d = j
      BY <1>1, <1>2, <2>3
    <3> QED BY <1>1, <2>1, <3>1 DEF After
  <2> QED BY <2>2, <2>3
<1>4. ASSUME NEW d \in 0 .. L - i, d < need PROVE pl[n][i + d] = <<T, j + d>>
  <2>1. d \in 0 .. L + 1 - i /\ d <= need /\ j + d < S[T] /\ i + d <= L
    BY <1>1, <1>2, <1>4
  <2>2. Here(pl, e, n, i + d) = After(S, T, j, d)
    BY <1>3, <2>1
  <2> QED BY <1>0, <2>1, <2>2 DEF Here, After
<1> QED BY <1>0, <1>2, <1>3, <1>4

(* They are all in node n, ... *)
LEMMA AheadHere ==
  ASSUME NEW pl, NEW S, NEW e, NEW n, NEW i, NEW T, NEW j, NEW need,
         Ahead(pl, S, e, n, i, T, j, need), i + need <= Len(pl[n]) + 1
  PROVE  /\ \A x \in 1 .. need : pl[n][i + x - 1] = <<T, j + x - 1>>
         /\ Here(pl, e, n, i + need) = After(S, T, j, need)
<1>0. PICK L : L = Len(pl[n])
  OBVIOUS
<1>1. i \in 1 .. L + 1 /\ need \in Nat \ {0} /\ j \in Nat /\ i + need <= L + 1
  BY <1>0 DEF Ahead
<1>2. /\ L \in Nat
      /\ \A d \in 0 .. L + 1 - i : d <= need => Here(pl, e, n, i + d) = After(S, T, j, d)
      /\ \A d \in 0 .. L - i : d < need => pl[n][i + d] = <<T, j + d>>
  BY <1>0, AheadInNode
<1>3. need \in 0 .. L + 1 - i
  BY <1>1, <1>2
<1>4. ASSUME NEW x \in 1 .. need PROVE pl[n][i + x - 1] = <<T, j + x - 1>>
  <2>1. PICK d : d = x - 1
    OBVIOUS
  <2>2. d \in 0 .. L - i /\ d < need /\ i + d = i + x - 1 /\ j + d = j + x - 1
    BY <1>1, <1>2, <2>1
  <2>3. pl[n][i + d] = <<T, j + d>>
    BY <1>2, <2>2
  <2> QED BY <2>2, <2>3
<1>5. Here(pl, e, n, i + need) = After(S, T, j, need)
  <2>1. need <= need
    BY <1>1
  <2> QED BY <1>2, <1>3, <2>1
<1> QED BY <1>4, <1>5

(* ... or the node is not the last, and it goes on in the next one. *)
LEMMA AheadOver ==
  ASSUME NEW pl, NEW S, NEW e, NEW n, NEW i, NEW T, NEW j, NEW need,
         Ahead(pl, S, e, n, i, T, j, need), i + need > Len(pl[n]) + 1
  PROVE  /\ n < Len(pl) /\ pl[n + 1] # <<>>
         /\ pl[n + 1][1] = <<T, j + (Len(pl[n]) + 1 - i)>>
         /\ \A x \in 1 .. Len(pl[n]) + 1 - i : pl[n][i + x - 1] = <<T, j + x - 1>>
<1>0. PICK L, k : L = Len(pl[n]) /\ k = L + 1 - i
  OBVIOUS
<1>1. /\ i \in 1 .. L + 1 /\ need \in Nat \ {0} /\ j \in Nat /\ i + need > L + 1
      /\ T # e[1] /\ T \in Nat /\ S[T] \in Nat /\ j + need <= S[T]
  BY <1>0 DEF Ahead
<1>2. /\ L \in Nat
      /\ \A d \in 0 .. L + 1 - i : d <= need => Here(pl, e, n, i + d) = After(S, T, j, d)
      /\ \A d \in 0 .. L - i : d < need => pl[n][i + d] = <<T, j + d>>
  BY <1>0, AheadInNode
<1>3. k \in 0 .. L + 1 - i /\ k < need /\ i + k = L + 1 /\ j + k < S[T]
  BY SMTT(30), <1>0, <1>1, <1>2
<1>4. Here(pl, e, n, L + 1) = <<T, j + k>>
  <2>1. k <= need
    BY <1>1, <1>2, <1>3
  <2>2. Here(pl, e, n, i + k) = After(S, T, j, k)
    BY <1>2, <1>3, <2>1
  <2>3. Here(pl, e, n, L + 1) = After(S, T, j, k)
    BY <1>3, <2>2
  <2> QED BY <1>3, <2>3 DEF After
<1>5. n < Len(pl) /\ pl[n + 1] # <<>> /\ pl[n + 1][1] = <<T, j + k>>
  <2>1. ~(L + 1 <= L)
    BY <1>2
  <2>2. <<T, j + k>>[1] = T
    OBVIOUS
  <2> QED BY <1>0, <1>1, <1>4, <2>1, <2>2 DEF Here
<1>6. ASSUME NEW x \in 1 .. k PROVE pl[n][i + x - 1] = <<T, j + x - 1>>
  <2>1. PICK d : d = x - 1
    OBVIOUS
  <2>2. d \in 0 .. L - i /\ d < need /\ i + d = i + x - 1 /\ j + d = j + x - 1
    BY <1>0, <1>1, <1>2, <1>3, <2>1
  <2>3. pl[n][i + d] = <<T, j + d>>
    BY <1>2, <2>2
  <2> QED BY <2>2, <2>3
<1> QED BY <1>0, <1>5, <1>6

-----------------------------------------------------------------------------
(* Types *)

(* s are the k bytes of TLV t from its byte a on. *)
Are(s, t, a, k) ==
  s \in Seq(Pair) /\ Len(s) = k /\ \A x \in 1 .. k : s[x] = <<t, a + x - 1>>

LEMMA BytesAre ==
  ASSUME NEW t \in Nat, NEW a \in Nat, NEW b \in Nat, a <= b
  PROVE  Are(Bytes(t, a, b), t, a, b - a)
BY DEF Bytes, Pair, Are

(* The lastoffsets are those of the bytes in the nodes. *)
Filled(by, lo) ==
  /\ by \in Seq(Seq(Pair)) /\ Len(by) = Len(lo)
  /\ \A n \in 1 .. Len(lo) : NIFO_SIZE + Len(by[n]) = lo[n]

LEMMA FilledGrown ==
  ASSUME SizesAssumption, NEW lo \in Seq(Nat), lo # <<>>, NEW by, Filled(by, lo),
         NEW bs \in Seq(Pair), NEW k, k = Len(bs),
         NEW by2, by2 = [by EXCEPT ![Len(lo)] = @ \o bs],
         NEW lo2, lo2 = [lo EXCEPT ![Len(lo)] = @ + k]
  PROVE  Filled(by2, lo2)
<1>1. PICK m, last : m = Len(lo) /\ last = by[m]
  OBVIOUS
<1>2. /\ m \in Nat \ {0} /\ m \in 1 .. m /\ by \in Seq(Seq(Pair)) /\ Len(by) = m /\ by # <<>>
      /\ k \in Nat /\ lo[m] \in Nat
      /\ \A n \in 1 .. m : NIFO_SIZE + Len(by[n]) = lo[n]
  BY <1>1 DEF Filled
<1>3. by2 \in Seq(Seq(Pair)) /\ Grown(by, bs, by2)
  <2>1. by2 = [by EXCEPT ![Len(by)] = @ \o bs]
    BY <1>1, <1>2
  <2> QED BY <1>2, <2>1, GrownIsSeq
<1>4. Keeps(by, bs, by2)
  BY <1>2, <1>3, GrownHas
<1>5. lo2 = [lo EXCEPT ![m] = lo[m] + k] /\ lo[m] + k \in Nat
  BY <1>1, <1>2
<1>6. lo2 \in Seq(Nat) /\ Len(lo2) = m /\ \A n \in 1 .. m : lo2[n] = IF n = m THEN lo[m] + k ELSE lo[n]
  BY SMTT(30), <1>1, <1>2, <1>5
<1>7. ASSUME NEW n \in 1 .. m PROVE NIFO_SIZE + Len(by2[n]) = lo2[n]
  <2>1. Len(by2[n]) = IF n = m THEN Len(by[n]) + Len(bs) ELSE Len(by[n])
    BY <1>2, <1>4 DEF Keeps
  <2>2. by[n] \in Seq(Pair)
    BY <1>2
  <2>3. Len(by[n]) \in Nat /\ NIFO_SIZE \in Nat
    BY <2>2, SizesAssumption DEF SizesAssumption
  <2>4. NIFO_SIZE + Len(by[n]) = lo[n]
    BY <1>2
  <2>5. CASE n = m
    <3>1. lo2[n] = lo[n] + k /\ Len(by2[n]) = Len(by[n]) + k
      BY <1>6, <2>1, <2>5, Zenon
    <3>2. PICK L : L = Len(by[n])
      OBVIOUS
    <3>3. L \in Nat /\ k \in Nat /\ lo[n] = NIFO_SIZE + L
      BY <1>2, <2>3, <2>4, <3>2
    <3>4. NIFO_SIZE + (L + k) = (NIFO_SIZE + L) + k
      BY <2>3, <3>3
    <3> QED BY <3>1, <3>2, <3>3, <3>4, Zenon
  <2>6. CASE n # m
    <3>1. lo2[n] = lo[n] /\ Len(by2[n]) = Len(by[n])
      BY <1>2, <1>6, <2>1, <2>6
    <3> QED BY <2>4, <3>1
  <2> QED BY <2>5, <2>6
<1>8. Len(by2) = m
  BY <1>2, <1>3 DEF Grown
<1> QED BY <1>3, <1>6, <1>7, <1>8 DEF Filled

LEMMA FilledNewNode ==
  ASSUME SizesAssumption, NEW lo \in Seq(Nat), NEW by, Filled(by, lo), NEW more \in Seq(Pair),
         NEW k, k = Len(more), NEW by2, by2 = Append(by, more),
         NEW lo2, lo2 = Append(lo, NIFO_SIZE + k)
  PROVE  Filled(by2, lo2)
<1>1. PICK m : m = Len(lo)
  OBVIOUS
<1>2. /\ m \in Nat /\ by \in Seq(Seq(Pair)) /\ Len(by) = m
      /\ \A n \in 1 .. m : NIFO_SIZE + Len(by[n]) = lo[n]
  BY <1>1 DEF Filled
<1>3. NIFO_SIZE + k \in Nat
  BY SizesAssumption DEF SizesAssumption
<1>4. /\ by2 \in Seq(Seq(Pair)) /\ Len(by2) = m + 1 /\ by2[m + 1] = more
      /\ Len(lo2) = m + 1 /\ lo2[m + 1] = NIFO_SIZE + k
      /\ \A n \in 1 .. m : by2[n] = by[n] /\ lo2[n] = lo[n]
  BY <1>1, <1>2, <1>3
<1>5. \A n \in 1 .. m + 1 : n \in 1 .. m \/ n = m + 1
  BY <1>2
<1>6. \A n \in 1 .. m + 1 : NIFO_SIZE + Len(by2[n]) = lo2[n]
  BY <1>2, <1>4, <1>5
<1> QED BY <1>4, <1>6 DEF Filled

NodesOK == /\ cnt \in Seq(Nat) /\ Len(cnt) = LastNode
           /\ Filled(bytes, lastoffset) /\ Filled(place, lastoffset)

LEMMA NodesTyped == TypeOK => NodesOK
BY DEF TypeOK, NodesOK, Filled, Pair, LastNode

LEMMA OffsetsAreNat == ASSUME SizesAssumption, TypeOK PROVE lastoffset \in Seq(Nat) /\ lastoffset # <<>>
<1>1. (NIFO_SIZE .. BODY_SIZE) \subseteq Nat
  BY DEF SizesAssumption
<1> QED BY <1>1, SeqMonotonic DEF TypeOK

LEMMA WrittenTypes ==
  ASSUME SizesAssumption, TypeOK, NEW bs \in Seq(Pair), NEW ps \in Seq(Pair), Len(ps) = Len(bs),
         Written(bs, ps)
  PROVE  NodesOK'
<1>1. NodesOK /\ lastoffset \in Seq(Nat) /\ lastoffset # <<>>
  BY NodesTyped, OffsetsAreNat
<1>2. PICK k, m : k = Len(bs) /\ m = Len(lastoffset)
  OBVIOUS
<1>3. lastoffset' = [lastoffset EXCEPT ![Len(lastoffset)] = @ + k]
  BY <1>2 DEF Written, LastNode
<1>4. Filled(bytes', lastoffset')
  <2>1. bytes' = [bytes EXCEPT ![Len(lastoffset)] = @ \o bs]
    BY DEF Written, LastNode
  <2> QED BY <1>1, <1>2, <1>3, <2>1, FilledGrown DEF NodesOK
<1>5. Filled(place', lastoffset')
  <2>1. place' = [place EXCEPT ![Len(lastoffset)] = @ \o ps]
    BY DEF Written, LastNode
  <2> QED BY <1>1, <1>2, <1>3, <2>1, FilledGrown DEF NodesOK
<1>6. Len(lastoffset') = Len(lastoffset)
  BY <1>1, <1>3
<1> QED BY <1>1, <1>4, <1>5, <1>6 DEF NodesOK, Written, LastNode

LEMMA LinkedTypes ==
  ASSUME SizesAssumption, TypeOK, NEW bs \in Seq(Pair), NEW ps \in Seq(Pair), Len(ps) = Len(bs),
         NEW more \in Seq(Pair), Linked(bs, ps, more)
  PROVE  NodesOK' /\ LastNode' = LastNode + 1
<1>1. NodesOK /\ lastoffset \in Seq(Nat) /\ lastoffset # <<>>
  BY NodesTyped, OffsetsAreNat
<1>2. PICK k, m, lo, by, pl :
        /\ k = Len(bs) /\ m = Len(lastoffset)
        /\ lo = [lastoffset EXCEPT ![Len(lastoffset)] = @ + k]
        /\ by = [bytes EXCEPT ![Len(lastoffset)] = @ \o bs]
        /\ pl = [place EXCEPT ![Len(lastoffset)] = @ \o ps]
  OBVIOUS
<1>3. /\ lastoffset' = Append(lo, NIFO_SIZE + Len(more))
      /\ bytes' = Append(by, more) /\ place' = Append(pl, more) /\ cnt' = Append(cnt, 0)
  BY <1>2 DEF Linked, LastNode
<1>4. Filled(by, lo) /\ Filled(pl, lo)
  BY <1>1, <1>2, FilledGrown DEF NodesOK
<1>5. lo \in Seq(Nat) /\ Len(lo) = m
  <2>1. m \in 1 .. Len(lastoffset) /\ lastoffset[m] \in Nat /\ k \in Nat
    BY <1>1, <1>2
  <2>2. lo = [lastoffset EXCEPT ![m] = lastoffset[m] + k] /\ lastoffset[m] + k \in Nat
    BY <1>2, <2>1
  <2> QED BY <1>1, <1>2, <2>1, <2>2
<1>6. Filled(bytes', lastoffset') /\ Filled(place', lastoffset')
  BY <1>3, <1>4, <1>5, FilledNewNode
<1>7. Len(lastoffset') = m + 1
  <2>1. NIFO_SIZE + Len(more) \in Nat
    BY DEF SizesAssumption
  <2> QED BY SMTT(30), <1>3, <1>5, <2>1
<1>8. cnt' \in Seq(Nat) /\ Len(cnt') = m + 1
  BY <1>1, <1>2, <1>3 DEF NodesOK, LastNode
<1> QED BY <1>2, <1>6, <1>7, <1>8 DEF NodesOK, LastNode

Readers == [node : 1 .. LastNode, off : NIFO_SIZE .. BODY_SIZE, i : Nat, need : Nat,
            buf : Seq(Pair), tlv : Nat, by : {"read", "get"}]

LEMMA TypeParts ==
  TypeOK <=> /\ lastoffset \in Seq(NIFO_SIZE .. BODY_SIZE) /\ lastoffset # <<>>
             /\ NodesOK
             /\ sent \in Seq([len : Nat, whole : BOOLEAN, counted : BOOLEAN])
             /\ w \in [len : Nat, old : Nat]
             /\ r \in Readers
             /\ got \in Seq([tlv : Nat, value : Seq(Pair)])
             /\ pc \in {"write", "value", "head", "body", "end", "lost", "failed"}
<1>1. NodesOK <=> /\ cnt \in Seq(Nat) /\ bytes \in Seq(Seq(Pair)) /\ place \in Seq(Seq(Pair))
                  /\ Len(cnt) = LastNode /\ Len(bytes) = LastNode /\ Len(place) = LastNode
                  /\ \A n \in 1 .. LastNode : /\ NIFO_SIZE + Len(bytes[n]) = lastoffset[n]
                                              /\ NIFO_SIZE + Len(place[n]) = lastoffset[n]
  BY DEF NodesOK, Filled, LastNode
<1> QED BY <1>1, Zenon DEF TypeOK, Readers, Pair

(* The same of the next state. *)
LEMMA TypePartsNext ==
  ASSUME lastoffset' \in Seq(NIFO_SIZE .. BODY_SIZE), lastoffset' # <<>>, NodesOK',
         sent' \in Seq([len : Nat, whole : BOOLEAN, counted : BOOLEAN]),
         w' \in [len : Nat, old : Nat], r' \in Readers',
         got' \in Seq([tlv : Nat, value : Seq(Pair)]),
         pc' \in {"write", "value", "head", "body", "end", "lost", "failed"}
  PROVE  TypeOK'
<1>1. NodesOK' <=> /\ cnt' \in Seq(Nat) /\ bytes' \in Seq(Seq(Pair)) /\ place' \in Seq(Seq(Pair))
                   /\ Len(cnt') = LastNode' /\ Len(bytes') = LastNode' /\ Len(place') = LastNode'
                   /\ \A n \in 1 .. LastNode' : /\ NIFO_SIZE + Len(bytes'[n]) = lastoffset'[n]
                                                /\ NIFO_SIZE + Len(place'[n]) = lastoffset'[n]
  BY DEF NodesOK, Filled, LastNode
<1> QED BY <1>1, Zenon DEF TypeOK, Readers, Pair

(* Where the reader may be: the nodes do not become fewer. *)
LEMMA ReaderStays ==
  ASSUME TypeOK, r' = r, LastNode' \in Nat, LastNode <= LastNode'
  PROVE  r' \in Readers'
<1>1. r \in Readers
  BY TypeParts
<1>2. LastNode \in Nat
  BY DEF TypeOK, LastNode
<1> QED BY <1>1, <1>2 DEF Readers

LEMMA StartTyped ==
  ASSUME SizesAssumption, NEW n, NEW N, n \in 1 .. N
  PROVE  Start(n) \in [node : 1 .. N, off : NIFO_SIZE .. BODY_SIZE, i : Nat, need : Nat,
                       buf : Seq(Pair), tlv : Nat, by : {"read", "get"}]
<1>1. NIFO_SIZE \in NIFO_SIZE .. BODY_SIZE /\ TLV_SIZE \in Nat /\ 0 \in Nat /\ <<>> \in Seq(Pair)
  BY DEF SizesAssumption
<1> QED BY <1>1 DEF Start

(* A byte of a node. *)
LEMMA AtTyped ==
  ASSUME SizesAssumption, TypeOK, NEW n \in 1 .. LastNode, NEW o \in Nat, NIFO_SIZE <= o
  PROVE  At(n, o) \in Pair
<1>1. Junk \in Pair
  BY DEF Junk, Pair
<1>2. CASE o < lastoffset[n]
  <2>1. /\ bytes[n] \in Seq(Pair) /\ NIFO_SIZE + Len(bytes[n]) = lastoffset[n]
        /\ NIFO_SIZE \in Nat
    BY DEF SizesAssumption, TypeOK, Pair, LastNode
  <2>2. o - NIFO_SIZE + 1 \in 1 .. Len(bytes[n])
    BY <1>2, <2>1
  <2> QED BY <1>2, <2>1, <2>2, ElementOfSeq DEF At
<1> QED BY <1>1, <1>2 DEF At

LEMMA TakenHas ==
  ASSUME SizesAssumption, TypeOK, NEW k \in Nat
  PROVE  /\ Taken(k) \in Seq(Pair) /\ Len(Taken(k)) = Len(r.buf) + k
         /\ \A x \in 1 .. Len(r.buf) : Taken(k)[x] = r.buf[x]
         /\ \A x \in 1 .. k : Taken(k)[Len(r.buf) + x] = At(r.node, r.off + x - 1)
<1>1. PICK c : c = [i \in 1 .. k |-> At(r.node, r.off + i - 1)]
  OBVIOUS
<1>2. r.buf \in Seq(Pair) /\ r.node \in 1 .. LastNode /\ r.off \in Nat /\ NIFO_SIZE <= r.off
  BY TypeParts DEF Readers, SizesAssumption
<1>3. \A i \in 1 .. k : At(r.node, r.off + i - 1) \in Pair
  <2>1. TAKE i \in 1 .. k
  <2>2. r.off + i - 1 \in Nat /\ NIFO_SIZE <= r.off + i - 1
    BY <1>2 DEF SizesAssumption
  <2> QED BY <1>2, <2>2, AtTyped
<1>4. c \in Seq(Pair) /\ Len(c) = k
  BY <1>1, <1>3
<1>5. /\ r.buf \o c \in Seq(Pair) /\ Len(r.buf \o c) = Len(r.buf) + Len(c)
      /\ \A x \in 1 .. Len(r.buf) : (r.buf \o c)[x] = r.buf[x]
      /\ \A x \in 1 .. Len(c) : (r.buf \o c)[Len(r.buf) + x] = c[x]
  BY <1>2, <1>4, GrownLasts
<1> QED BY <1>1, <1>4, <1>5 DEF Taken

LEMMA Wraps == SizesAssumption => (BODY_SIZE + NIFO_SIZE) % BODY_SIZE = NIFO_SIZE
<1> SUFFICES ASSUME SizesAssumption PROVE (BODY_SIZE + NIFO_SIZE) % BODY_SIZE = NIFO_SIZE
  OBVIOUS
<1>1. BODY_SIZE \in Nat \ {0} /\ NIFO_SIZE \in 0 .. BODY_SIZE - 1
  BY DEF SizesAssumption
<1>2. (NIFO_SIZE + BODY_SIZE) % BODY_SIZE = NIFO_SIZE % BODY_SIZE
  BY <1>1
<1>3. NIFO_SIZE % BODY_SIZE = NIFO_SIZE
  BY <1>1
<1> QED BY <1>1, <1>2, <1>3

(* A turn of the reader's loop: on to the next node, or done. *)
LEMMA Turn ==
  ASSUME SizesAssumption, TypeOK, ReadPart
  PROVE  /\ UNCHANGED <<nodes, sent, w, got, pc>> /\ r.need > 0 /\ pc \in {"head", "body"}
         /\ \/ /\ r.off + r.need > BODY_SIZE
               /\ r' = [r EXCEPT !.node = RingNext(r.node), !.off = NIFO_SIZE,
                                 !.need = r.need - (BODY_SIZE - r.off),
                                 !.buf = Taken(BODY_SIZE - r.off)]
            \/ /\ r.off + r.need <= BODY_SIZE
               /\ r' = [r EXCEPT !.off = r.off + r.need, !.need = 0, !.buf = Taken(r.need)]
<1>1. r \in Readers
  BY TypeParts
<1>2. r.off \in Nat /\ BODY_SIZE \in Nat /\ NIFO_SIZE \in Nat
  BY <1>1 DEF Readers, SizesAssumption
<1>3. r.off + (BODY_SIZE - r.off) + NIFO_SIZE = BODY_SIZE + NIFO_SIZE
  BY <1>2
<1>4. (r.off + (BODY_SIZE - r.off) + NIFO_SIZE) % BODY_SIZE = NIFO_SIZE
  BY <1>3, Wraps
<1> QED BY <1>1, <1>4 DEF ReadPart, Readers

LEMMA TurnTypes ==
  ASSUME SizesAssumption, TypeOK, ReadPart
  PROVE  r' \in Readers
<1>1. r \in Readers /\ LastNode \in Nat \ {0}
  BY TypeParts DEF LastNode
<1>2. /\ r.off \in NIFO_SIZE .. BODY_SIZE /\ r.need \in Nat /\ r.node \in 1 .. LastNode
      /\ BODY_SIZE \in Nat /\ NIFO_SIZE \in Nat /\ NIFO_SIZE <= BODY_SIZE
  BY <1>1 DEF Readers, SizesAssumption
<1>3. PICK rest : rest = BODY_SIZE - r.off
  OBVIOUS
<1>4. rest \in Nat
  BY <1>2, <1>3
<1>5. CASE /\ r.off + r.need > BODY_SIZE
           /\ r' = [r EXCEPT !.node = RingNext(r.node), !.off = NIFO_SIZE,
                             !.need = r.need - rest, !.buf = Taken(rest)]
  <2>1. RingNext(r.node) \in 1 .. LastNode
    BY <1>1, <1>2 DEF RingNext
  <2>2. r.need - rest \in Nat /\ NIFO_SIZE \in NIFO_SIZE .. BODY_SIZE
    BY <1>2, <1>3, <1>5
  <2>3. Taken(rest) \in Seq(Pair)
    BY <1>4, TakenHas
  <2> QED BY <1>1, <1>5, <2>1, <2>2, <2>3 DEF Readers
<1>6. CASE /\ r.off + r.need <= BODY_SIZE
           /\ r' = [r EXCEPT !.off = r.off + r.need, !.need = 0, !.buf = Taken(r.need)]
  <2>1. r.off + r.need \in NIFO_SIZE .. BODY_SIZE /\ 0 \in Nat
    BY <1>2, <1>6
  <2>2. Taken(r.need) \in Seq(Pair)
    BY <1>2, TakenHas
  <2> QED BY <1>1, <1>6, <2>1, <2>2 DEF Readers
<1> QED BY <1>3, <1>5, <1>6, Turn

LEMMA HeaderTypes ==
  ASSUME SizesAssumption, TypeOK, ReadHeader
  PROVE  r' \in Readers /\ pc' \in {"write", "value", "head", "body", "end", "lost", "failed"}
<1>1. r \in Readers /\ <<>> \in Seq(Pair)
  BY TypeParts
<1>2. ASSUME NEW t \in 1 .. Len(sent),
             r' = [r EXCEPT !.tlv = t, !.need = sent[t].len, !.buf = <<>>]
      PROVE  r' \in Readers
  <2>1. sent[t].len \in Nat /\ t \in Nat
    <3>1. sent \in Seq([len : Nat, whole : BOOLEAN, counted : BOOLEAN])
      BY TypeParts
    <3>2. sent[t] \in [len : Nat, whole : BOOLEAN, counted : BOOLEAN]
      BY <3>1, ElementOfSeq
    <3> QED BY <3>1, <3>2
  <2> QED BY <1>1, <1>2, <2>1 DEF Readers
<1> QED BY <1>1, <1>2 DEF ReadHeader

LEMMA ValueTypes ==
  ASSUME SizesAssumption, TypeOK, ReadValue
  PROVE  /\ r' \in Readers /\ pc' \in {"head", "end"}
         /\ got' \in Seq([tlv : Nat, value : Seq(Pair)])
<1>1. r \in Readers /\ LastNode \in Nat \ {0}
  BY TypeParts DEF LastNode
<1>2. /\ r.off \in NIFO_SIZE .. BODY_SIZE /\ r.node \in 1 .. LastNode /\ r.i \in Nat
      /\ r.tlv \in Nat /\ r.buf \in Seq(Pair)
  BY <1>1 DEF Readers
<1>3. got' \in Seq([tlv : Nat, value : Seq(Pair)])
  <2>1. got \in Seq([tlv : Nat, value : Seq(Pair)]) /\ got' = Append(got, [tlv |-> r.tlv, value |-> r.buf])
    BY TypeParts DEF ReadValue
  <2> QED BY <1>2, <2>1
<1>4. Start(r.node) \in Readers /\ Start(RingNext(r.node)) \in Readers
  <2>1. RingNext(r.node) \in 1 .. LastNode
    BY <1>1, <1>2 DEF RingNext
  <2> QED BY <1>2, <2>1, StartTyped DEF Readers
<1>5. CASE ReadNext
  <2>1. [Start(r.node) EXCEPT !.off = r.off] \in Readers
    BY <1>2, <1>4 DEF Readers
  <2> QED BY <1>1, <1>3, <1>4, <1>5, <2>1 DEF ReadNext, GoOn
<1>6. CASE GetNext
  <2>1. r.i + 1 \in Nat
    BY <1>2
  <2>2. [Start(r.node) EXCEPT !.off = r.off, !.i = r.i + 1, !.by = "get"] \in Readers
    BY <1>2, <1>4, <2>1 DEF Readers
  <2> QED BY <1>3, <1>6, <2>2 DEF GetNext, GoOn
<1> QED BY <1>3, <1>5, <1>6 DEF ReadValue

LEMMA CallTypes ==
  ASSUME SizesAssumption, TypeOK, NEW by \in {"read", "get"}, ReadCall(by)
  PROVE  r' \in Readers /\ pc' \in {"head", "end"}
<1>1. 1 \in 1 .. LastNode
  BY TypeParts DEF LastNode
<1>2. Start(1) \in Readers
  BY <1>1, StartTyped DEF Readers
<1> QED BY <1>2 DEF ReadCall, GoOn, Readers

(* nifo_tlv_alloc finds room only in the head that is the last node. *)
LEMMA AllocInHead ==
  ASSUME SizesAssumption, TypeOK, FullButLast, NEW len \in Lens, nifo_tlv_alloc(len)
  PROVE  LastNode = 1 /\ len \in Nat
<1>1. len \in Nat /\ NIFO_SIZE \in Nat /\ TLV_SIZE \in Nat \ {0} /\ BODY_SIZE \in Nat
  BY DEF SizesAssumption
<1>2. LastNode \in Nat \ {0} /\ lastoffset[1] \in NIFO_SIZE .. BODY_SIZE
  BY SMTT(30) DEF TypeOK, LastNode
<1>3. lastoffset[1] < BODY_SIZE
  BY <1>1, <1>2 DEF nifo_tlv_alloc
<1>4. ~(1 \in 1 .. LastNode - 1)
  BY <1>1, <1>2, <1>3 DEF FullButLast
<1> QED BY <1>1, <1>2, <1>4

LEMMA WriterBounds ==
  ASSUME SizesAssumption, TypeOK
  PROVE  /\ Len(sent) \in Nat /\ Len(sent) + 1 \in Nat /\ LastNode \in Nat \ {0}
         /\ lastoffset[LastNode] \in NIFO_SIZE .. BODY_SIZE /\ Room \in Nat
         /\ TLV_SIZE \in Nat \ {0} /\ NIFO_SIZE \in Nat /\ BODY_SIZE \in Nat
         /\ w.len \in Nat /\ w.old \in Nat
<1>1. LastNode \in Nat \ {0} /\ lastoffset[LastNode] \in NIFO_SIZE .. BODY_SIZE
  BY SMTT(30) DEF TypeOK, LastNode
<1>2. TLV_SIZE \in Nat \ {0} /\ NIFO_SIZE \in Nat /\ BODY_SIZE \in Nat
  BY DEF SizesAssumption
<1>3. Room \in Nat
  BY <1>1, <1>2 DEF Room
<1>4. Len(sent) \in Nat /\ w.len \in Nat /\ w.old \in Nat
  BY DEF TypeOK
<1> QED BY <1>1, <1>2, <1>3, <1>4

(* What a turn of the loop over a value writes, and what it stands for. *)
LEMMA PartBytes ==
  ASSUME SizesAssumption, TypeOK, w.old <= w.len, NEW T \in Nat, NEW rest, NEW size,
         rest = w.len - w.old, size = IF rest > Room THEN Room ELSE rest,
         NEW part, part = Value(T, 0, 0 + size), NEW for, for = Value(T, w.old, w.old + size)
  PROVE  /\ size \in Nat /\ rest \in Nat /\ size <= rest
         /\ Are(part, T, TLV_SIZE, size) /\ Are(for, T, TLV_SIZE + w.old, size)
<1>1. /\ Room \in Nat /\ TLV_SIZE \in Nat /\ w.len \in Nat /\ w.old \in Nat
      /\ rest \in Nat /\ size \in Nat /\ size <= rest
  BY WriterBounds
<1>2. PICK a, b, c : a = TLV_SIZE + size /\ b = TLV_SIZE + w.old /\ c = b + size
  OBVIOUS
<1>3. /\ a \in Nat /\ b \in Nat /\ c \in Nat /\ TLV_SIZE <= a /\ b <= c
      /\ a - TLV_SIZE = size /\ c - b = size
  <2>1. b \in Nat
    BY <1>1, <1>2
  <2> QED BY <1>1, <1>2, <2>1
<1>4. part = Bytes(T, TLV_SIZE, a) /\ for = Bytes(T, b, c)
  <2>1. TLV_SIZE + 0 = TLV_SIZE /\ TLV_SIZE + (0 + size) = a
    BY <1>1, <1>2
  <2>2. TLV_SIZE + (w.old + size) = c
    BY <1>1, <1>2
  <2> QED BY <1>2, <2>1, <2>2 DEF Value
<1>5. Are(part, T, TLV_SIZE, a - TLV_SIZE)
  BY <1>1, <1>3, <1>4, BytesAre
<1>6. Are(for, T, b, c - b)
  BY <1>3, <1>4, BytesAre
<1> QED BY <1>1, <1>2, <1>3, <1>5, <1>6

(* The types of the nodes after a write. *)
NodesGrow == NodesOK' /\ LastNode' \in Nat /\ LastNode <= LastNode'

LEMMA AllocGrows ==
  ASSUME SizesAssumption, TypeOK, FullButLast, NEW len \in Lens, nifo_tlv_alloc(len)
  PROVE  NodesGrow
<1>1. PICK bs, k : bs = Bytes(Len(sent) + 1, 0, TLV_SIZE + len) /\ k = TLV_SIZE + len
  OBVIOUS
<1>2. Len(lastoffset) = 1 /\ len \in Nat /\ lastoffset \in Seq(Nat) /\ lastoffset # <<>> /\ NodesOK
      /\ lastoffset[1] \in Nat
  <2>1. lastoffset \in Seq(Nat) /\ lastoffset # <<>>
    BY OffsetsAreNat
  <2>2. Len(lastoffset) = 1 /\ len \in Nat
    BY AllocInHead DEF LastNode
  <2> QED BY <2>1, <2>2, NodesTyped
<1>3. bs \in Seq(Pair) /\ Len(bs) = k /\ k \in Nat
  <2>1. k \in Nat /\ k - 0 = k /\ 0 <= k /\ Len(sent) + 1 \in Nat
    BY <1>1, <1>2, WriterBounds
  <2>2. Are(bs, Len(sent) + 1, 0, k - 0)
    BY <1>1, <2>1, BytesAre
  <2> QED BY <2>1, <2>2 DEF Are
<1>4. /\ bytes' = [bytes EXCEPT ![Len(lastoffset)] = @ \o bs]
      /\ place' = [place EXCEPT ![Len(lastoffset)] = @ \o bs]
      /\ lastoffset' = [lastoffset EXCEPT ![Len(lastoffset)] = @ + k]
      /\ cnt' = [cnt EXCEPT ![1] = @ + 1]
  <2>1. lastoffset' = [lastoffset EXCEPT ![1] = @ + k]
    <3>1. lastoffset' = [lastoffset EXCEPT ![1] = @ + TLV_SIZE + len]
      BY DEF nifo_tlv_alloc
    <3>2. lastoffset[1] + TLV_SIZE + len = lastoffset[1] + k
      BY <1>1, <1>2, WriterBounds
    <3> QED BY <3>1, <3>2
  <2> QED BY <1>1, <1>2, <2>1 DEF nifo_tlv_alloc
<1>5. Filled(bytes', lastoffset') /\ Filled(place', lastoffset')
  BY <1>2, <1>3, <1>4, FilledGrown DEF NodesOK
<1>6. Len(lastoffset') = 1
  BY <1>2, <1>4
<1>7. cnt' \in Seq(Nat) /\ Len(cnt') = 1
  <2>1. cnt \in Seq(Nat) /\ Len(cnt) = 1
    BY <1>2 DEF NodesOK, LastNode
  <2> QED BY <1>4, <2>1
<1> QED BY <1>2, <1>5, <1>6, <1>7 DEF NodesGrow, NodesOK, LastNode

LEMMA WrittenGrows ==
  ASSUME SizesAssumption, TypeOK, NEW bs \in Seq(Pair), NEW ps \in Seq(Pair), Len(ps) = Len(bs),
         Written(bs, ps)
  PROVE  NodesGrow /\ LastNode' = LastNode
<1>1. NodesOK'
  BY WrittenTypes
<1>2. Len(lastoffset') = Len(lastoffset)
  <2>1. lastoffset' = [lastoffset EXCEPT ![LastNode] = @ + Len(bs)]
    BY DEF Written
  <2>2. lastoffset \in Seq(Nat) /\ Len(lastoffset) \in Nat \ {0}
    BY OffsetsAreNat
  <2>3. lastoffset[LastNode] + Len(bs) \in Nat
    BY <2>2 DEF LastNode
  <2> QED BY <2>1, <2>2, <2>3 DEF LastNode
<1>3. LastNode \in Nat
  BY WriterBounds
<1> QED BY <1>1, <1>2, <1>3 DEF NodesGrow, LastNode

LEMMA LinkedGrows ==
  ASSUME SizesAssumption, TypeOK, NEW bs \in Seq(Pair), NEW ps \in Seq(Pair), Len(ps) = Len(bs),
         NEW more \in Seq(Pair), Linked(bs, ps, more)
  PROVE  NodesGrow
<1>1. NodesOK' /\ LastNode' = LastNode + 1
  BY LinkedTypes
<1> QED BY <1>1, WriterBounds DEF NodesGrow

Invs == TypeOK /\ FullButLast /\ w.old <= w.len

LEMMA InvsGiveInv == Invs => Inv
BY DEF Invs, Inv, WriterInv, TypeOK

LEMMA CopyGrows ==
  ASSUME SizesAssumption, Invs, NEW len \in Lens, nifo_copy_tlv_cont(len)
  PROVE  NodesGrow
<1>0. TypeOK
  BY DEF Invs
<1>1. /\ len \in Nat /\ Len(sent) + 1 \in Nat /\ TLV_SIZE \in Nat /\ TLV_SIZE + len \in Nat
      /\ Room \in Nat /\ 0 \in Nat /\ 0 <= TLV_SIZE /\ 0 <= TLV_SIZE + len /\ 0 <= Room
  <2>1. len \in Nat
    BY DEF SizesAssumption
  <2> QED BY <1>0, <2>1, WriterBounds
<1>2. CASE CopyWhole(len)
  <2>1. PICK bs : bs = Bytes(Len(sent) + 1, 0, TLV_SIZE + len)
    OBVIOUS
  <2>2. bs \in Seq(Pair)
    BY <1>1, <2>1, BytesAre DEF Are
  <2>3. Written(bs, bs)
    BY <1>2, <2>1 DEF CopyWhole
  <2> QED BY <1>0, <2>2, <2>3, WrittenGrows
<1>3. CASE CopyHeader(len)
  <2>1. PICK bs : bs = Bytes(Len(sent) + 1, 0, TLV_SIZE)
    OBVIOUS
  <2>2. bs \in Seq(Pair)
    BY <1>1, <2>1, BytesAre DEF Are
  <2>3. Written(bs, bs)
    BY <1>3, <2>1 DEF CopyHeader
  <2> QED BY <1>0, <2>2, <2>3, WrittenGrows
<1>4. CASE CopySplit(len)
  <2>1. PICK bs, more : bs = Bytes(Len(sent) + 1, 0, Room) /\ more = Bytes(Len(sent) + 1, Room, TLV_SIZE)
    OBVIOUS
  <2>2. Room <= TLV_SIZE
    BY <1>1, <1>4 DEF CopySplit
  <2>3. bs \in Seq(Pair) /\ more \in Seq(Pair)
    BY <1>1, <2>1, <2>2, BytesAre DEF Are
  <2>4. Linked(bs, bs, more) \/ Written(bs, bs)
    BY <1>4, <2>1 DEF CopySplit
  <2> QED BY <1>0, <2>3, <2>4, WrittenGrows, LinkedGrows
<1> QED BY <1>2, <1>3, <1>4 DEF nifo_copy_tlv_cont

LEMMA PartGrows ==
  ASSUME SizesAssumption, Invs, CopyPart
  PROVE  NodesGrow
<1>0. TypeOK /\ w.old <= w.len
  BY DEF Invs
<1>1. PICK T, rest, size, part, for :
        /\ T = Len(sent) + 1 /\ rest = w.len - w.old
        /\ size = IF rest > Room THEN Room ELSE rest
        /\ part = Value(T, 0, 0 + size) /\ for = Value(T, w.old, w.old + size)
  OBVIOUS
<1>2. T \in Nat
  BY <1>0, <1>1, WriterBounds
<1>3. Are(part, T, TLV_SIZE, size) /\ Are(for, T, TLV_SIZE + w.old, size)
  BY <1>0, <1>1, <1>2, PartBytes
<1>4. part \in Seq(Pair) /\ for \in Seq(Pair) /\ Len(for) = Len(part) /\ <<>> \in Seq(Pair)
  BY <1>3 DEF Are
<1>5. Written(part, for) \/ Linked(part, for, <<>>)
  BY <1>1 DEF CopyPart, CopiedFrom
<1> QED BY <1>0, <1>4, <1>5, WrittenGrows, LinkedGrows

LEMMA WriteTypes ==
  ASSUME SizesAssumption, Invs, Write
  PROVE  NodesGrow /\ UNCHANGED <<r, got>> /\ pc' \in {"write", "value", "failed"}
<1>1. ASSUME NEW len \in Lens, nifo_tlv_alloc(len)
      PROVE  NodesGrow /\ UNCHANGED <<r, got>> /\ pc' \in {"write", "value", "failed"}
  <2>1. NodesGrow
    BY <1>1, AllocGrows DEF Invs
  <2> QED BY <1>1, <2>1 DEF nifo_tlv_alloc
<1>2. ASSUME NEW len \in Lens, nifo_copy_tlv_cont(len)
      PROVE  NodesGrow /\ UNCHANGED <<r, got>> /\ pc' \in {"write", "value", "failed"}
  <2>1. NodesGrow
    BY <1>2, CopyGrows
  <2> QED BY <1>2, <2>1 DEF nifo_copy_tlv_cont, CopyWhole, CopyHeader, CopySplit, Fail
<1>3. ASSUME CopyPart
      PROVE  NodesGrow /\ UNCHANGED <<r, got>> /\ pc' \in {"write", "value", "failed"}
  <2>1. NodesGrow
    BY <1>3, PartGrows
  <2> QED BY <1>3, <2>1 DEF CopyPart, Fail
<1> QED BY <1>1, <1>2, <1>3 DEF Write

LEMMA FreshTypes ==
  ASSUME SizesAssumption, NewMessage
  PROVE  TypeOK'
<1>1. /\ lastoffset' \in Seq(NIFO_SIZE .. BODY_SIZE) /\ lastoffset' # <<>> /\ Len(lastoffset') = 1
      /\ lastoffset'[1] = NIFO_SIZE
  BY FreshMessage DEF NewMessage
<1>2. /\ bytes' \in Seq(Seq(Pair)) /\ Len(bytes') = 1 /\ Len(bytes'[1]) = 0
      /\ place' \in Seq(Seq(Pair)) /\ Len(place') = 1 /\ Len(place'[1]) = 0
      /\ cnt' \in Seq(Nat) /\ Len(cnt') = 1
  BY DEF NewMessage
<1>3. NodesOK'
  BY <1>1, <1>2 DEF NodesOK, Filled, LastNode, SizesAssumption
<1>4. r' \in Readers'
  <2>1. r' = Start(1) /\ 1 \in 1 .. Len(lastoffset')
    BY <1>1 DEF NewMessage
  <2> QED BY <2>1, StartTyped DEF Readers, LastNode
<1>5. /\ sent' \in Seq([len : Nat, whole : BOOLEAN, counted : BOOLEAN])
      /\ got' \in Seq([tlv : Nat, value : Seq(Pair)])
      /\ w' \in [len : Nat, old : Nat]
      /\ pc' = "write"
  BY DEF NewMessage
<1> QED BY <1>1, <1>3, <1>4, <1>5, TypePartsNext

LEMMA InitTypes == ASSUME SizesAssumption, Init PROVE TypeOK
<1>1. /\ lastoffset \in Seq(NIFO_SIZE .. BODY_SIZE) /\ lastoffset # <<>> /\ Len(lastoffset) = 1
      /\ lastoffset[1] = NIFO_SIZE
  BY FreshMessage DEF Init
<1>2. /\ bytes \in Seq(Seq(Pair)) /\ Len(bytes) = 1 /\ Len(bytes[1]) = 0
      /\ place \in Seq(Seq(Pair)) /\ Len(place) = 1 /\ Len(place[1]) = 0
      /\ cnt \in Seq(Nat) /\ Len(cnt) = 1
  BY DEF Init
<1>3. NodesOK
  BY <1>1, <1>2 DEF NodesOK, Filled, LastNode, SizesAssumption
<1>4. r \in Readers
  <2>1. r = Start(1) /\ 1 \in 1 .. Len(lastoffset)
    BY <1>1 DEF Init
  <2> QED BY <2>1, StartTyped DEF Readers, LastNode
<1>5. /\ sent \in Seq([len : Nat, whole : BOOLEAN, counted : BOOLEAN])
      /\ got \in Seq([tlv : Nat, value : Seq(Pair)])
      /\ w \in [len : Nat, old : Nat]
      /\ pc = "write"
  BY DEF Init
<1> QED BY <1>1, <1>3, <1>4, <1>5, TypeParts

(* A step that leaves the writers' part alone. *)
LEMMA ReaderTypes ==
  ASSUME SizesAssumption, TypeOK, UNCHANGED <<nodes, sent, w>>, r' \in Readers,
         got' \in Seq([tlv : Nat, value : Seq(Pair)]),
         pc' \in {"write", "value", "head", "body", "end", "lost", "failed"}
  PROVE  TypeOK'
<1>1. r' \in Readers' /\ NodesOK'
  <2>1. NodesOK
    BY NodesTyped
  <2> QED BY <2>1 DEF Readers, NodesOK, Filled, LastNode, nodes
<1>2. /\ lastoffset' \in Seq(NIFO_SIZE .. BODY_SIZE) /\ lastoffset' # <<>>
      /\ sent' \in Seq([len : Nat, whole : BOOLEAN, counted : BOOLEAN])
      /\ w' \in [len : Nat, old : Nat]
  BY TypeParts DEF nodes
<1> QED BY <1>1, <1>2, TypePartsNext

LEMMA NextTypes == ASSUME SizesAssumption, Invs, [Next]_vars PROVE Invs'
<1>0. TypeOK /\ Inv
  BY InvsGiveInv DEF Invs
<1>1. Inv'
  BY <1>0, NextInv
<1>2. FullButLast' /\ (w.old <= w.len)'
      /\ lastoffset' \in Seq(NIFO_SIZE .. BODY_SIZE) /\ lastoffset' # <<>>
      /\ sent' \in Seq([len : Nat, whole : BOOLEAN, counted : BOOLEAN])
      /\ w' \in [len : Nat, old : Nat]
  BY <1>1 DEF Inv, WriterInv
<1>3. /\ r \in Readers /\ got \in Seq([tlv : Nat, value : Seq(Pair)])
      /\ pc \in {"write", "value", "head", "body", "end", "lost", "failed"}
  BY <1>0, TypeParts
<1>4. CASE Write
  <2>1. NodesGrow /\ UNCHANGED <<r, got>> /\ pc' \in {"write", "value", "failed"}
    BY <1>4, WriteTypes
  <2>2. r' \in Readers'
    BY <1>0, <2>1, ReaderStays DEF NodesGrow
  <2> QED BY <1>2, <1>3, <2>1, <2>2, TypePartsNext DEF Invs, NodesGrow
<1>5. CASE ReadPart
  <2>1. r' \in Readers /\ UNCHANGED <<nodes, sent, w, got, pc>>
    BY <1>0, <1>5, TurnTypes DEF ReadPart
  <2> QED BY <1>0, <1>2, <1>3, <2>1, ReaderTypes DEF Invs
<1>6. CASE ReadHeader
  <2>1. /\ r' \in Readers /\ UNCHANGED <<nodes, sent, w, got>>
        /\ pc' \in {"write", "value", "head", "body", "end", "lost", "failed"}
    BY <1>0, <1>6, HeaderTypes DEF ReadHeader
  <2> QED BY <1>0, <1>2, <1>3, <2>1, ReaderTypes DEF Invs
<1>7. CASE ReadValue
  <2>1. /\ r' \in Readers /\ UNCHANGED <<nodes, sent, w>> /\ pc' \in {"head", "end"}
        /\ got' \in Seq([tlv : Nat, value : Seq(Pair)])
    BY <1>0, <1>7, ValueTypes DEF ReadValue
  <2> QED BY <1>0, <1>2, <2>1, ReaderTypes DEF Invs
<1>8. CASE NewMessage
  BY <1>2, <1>8, FreshTypes DEF Invs
<1>9. CASE \E by \in {"read", "get"} : ReadCall(by)
  <2>1. r' \in Readers /\ UNCHANGED <<nodes, sent, w, got>> /\ pc' \in {"head", "end"}
    BY <1>0, <1>9, CallTypes DEF ReadCall
  <2> QED BY <1>0, <1>2, <1>3, <2>1, ReaderTypes DEF Invs
<1>10. CASE UNCHANGED vars
  <2>1. UNCHANGED <<nodes, sent, w, got, r, pc>>
    BY <1>10 DEF vars
  <2> QED BY <1>0, <1>2, <1>3, <2>1, ReaderTypes DEF Invs
<1> QED BY <1>4, <1>5, <1>6, <1>7, <1>8, <1>9, <1>10 DEF Next, Read

LEMMA InitInvs == ASSUME SizesAssumption, Init PROVE Invs
<1>1. Inv
  BY InitInv
<1> QED BY <1>1, InitTypes DEF Invs, Inv, WriterInv

(* The variables have their types whatever the sizes. *)
THEOREM TypeCorrect == Spec => []TypeOK
<1>1. Init => Invs
  BY InitInvs, SizesAssumption
<1>2. Invs /\ [Next]_vars => Invs'
  BY NextTypes, SizesAssumption
<1>3. Invs => TypeOK
  BY DEF Invs
<1> QED BY <1>1, <1>2, <1>3, PTL DEF Spec

-----------------------------------------------------------------------------
(* The writers keep the layout *)

(* Sizes, End, Known, Stands as functions of what is sent (se), of the len  *)
(* and oldLen of the loop, and of whether it runs.                          *)
SizesOf(se, l) == [t \in 1 .. Len(se) + 1 |-> TLV_SIZE + (IF t <= Len(se) THEN se[t].len ELSE l)]
EndOf(se, l, o, loop) ==
  IF loop THEN After(SizesOf(se, l), Len(se) + 1, TLV_SIZE, o) ELSE <<Len(se) + 1, 0>>
KnownOf(p, se, l, o, loop) ==
  \/ p[1] \in 1 .. Len(se) /\ p[2] < SizesOf(se, l)[p[1]]
  \/ loop /\ p[1] = Len(se) + 1 /\ p[2] < TLV_SIZE + o
StandsOf(b, p, se) ==
  /\ b[1] = p[1] /\ (p[2] < TLV_SIZE => b = p) /\ (p[2] >= TLV_SIZE => b[2] >= TLV_SIZE)
  /\ p[1] <= Len(se) /\ se[p[1]].whole => b = p
GoodOf(se, l, o, loop) ==
  {g \in Pair \X Pair : KnownOf(g[2], se, l, o, loop) /\ StandsOf(g[1], g[2], se)}

SentType == [len : Nat, whole : BOOLEAN, counted : BOOLEAN]

LEMMA SizesHave ==
  ASSUME SizesAssumption, NEW se \in Seq(SentType), NEW l \in Nat
  PROVE  /\ Len(se) \in Nat
         /\ \A t \in 1 .. Len(se) : SizesOf(se, l)[t] = TLV_SIZE + se[t].len
                                    /\ SizesOf(se, l)[t] \in Nat /\ se[t].len \in Nat
         /\ SizesOf(se, l)[Len(se) + 1] = TLV_SIZE + l /\ SizesOf(se, l)[Len(se) + 1] \in Nat
<1>1. Len(se) \in Nat /\ TLV_SIZE \in Nat /\ \A t \in 1 .. Len(se) : se[t].len \in Nat
  <2>1. ASSUME NEW t \in 1 .. Len(se) PROVE se[t].len \in Nat
    <3>1. se[t] \in SentType
      BY ElementOfSeq
    <3> QED BY <3>1 DEF SentType
  <2> QED BY <2>1 DEF SizesAssumption
<1>2. ASSUME NEW t \in 1 .. Len(se) PROVE SizesOf(se, l)[t] = TLV_SIZE + se[t].len
  <2>1. t \in 1 .. Len(se) + 1 /\ t <= Len(se)
    BY <1>1
  <2> QED BY <2>1 DEF SizesOf
<1>3. SizesOf(se, l)[Len(se) + 1] = TLV_SIZE + l
  <2>1. Len(se) + 1 \in 1 .. Len(se) + 1 /\ ~(Len(se) + 1 <= Len(se))
    BY <1>1
  <2> QED BY <2>1 DEF SizesOf
<1> QED BY <1>1, <1>2, <1>3

LEMMA GoodHas ==
  ASSUME SizesAssumption, NEW se \in Seq(SentType), NEW l \in Nat, NEW o \in Nat, NEW loop,
         NEW g \in GoodOf(se, l, o, loop)
  PROVE  /\ g[1] \in Pair /\ g[2] \in Pair /\ g = <<g[1], g[2]>>
         /\ g[2][1] \in Nat /\ g[2][2] \in Nat /\ g[1][1] \in Nat /\ g[1][2] \in Nat
         /\ KnownOf(g[2], se, l, o, loop) /\ StandsOf(g[1], g[2], se)
         /\ g[2][1] \in 1 .. Len(se) \/ (loop /\ g[2][1] = Len(se) + 1)
         /\ SizesOf(se, l)[g[2][1]] \in Nat
<1>1. /\ g \in Pair \X Pair /\ KnownOf(g[2], se, l, o, loop) /\ StandsOf(g[1], g[2], se)
  BY DEF GoodOf
<1>2. g[1] \in Pair /\ g[2] \in Pair /\ g = <<g[1], g[2]>>
  BY <1>1
<1>3. g[2][1] \in 1 .. Len(se) \/ (loop /\ g[2][1] = Len(se) + 1)
  BY <1>1 DEF KnownOf
<1>4. SizesOf(se, l)[g[2][1]] \in Nat
  BY <1>3, SizesHave
<1> QED BY <1>1, <1>2, <1>3, <1>4 DEF Pair

(* A TLV of which the loop, if it runs, has written a part is complete. *)
Completes(se, l, o, loop, k, whole, counted, se2, l2, o2) ==
  /\ se \in Seq(SentType) /\ l \in Nat /\ o \in Nat /\ l2 \in Nat /\ o2 \in Nat
  /\ k \in Nat /\ whole \in BOOLEAN /\ counted \in BOOLEAN
  /\ loop => k = l /\ o <= l /\ (whole => o = 0)
  /\ se2 = Append(se, [len |-> k, whole |-> whole, counted |-> counted])

Agree(G, S, S2) == \A g \in G : S[g[2][1]] \in Nat /\ S2[g[2][1]] = S[g[2][1]]

(* What was laid out and is in G is in G2, and the sizes of it the same. *)
Preserves(G, S, G2, S2) == G \subseteq G2 /\ Agree(G, S, S2)

Completed(se, l, o, loop, k, se2, l2, o2) ==
  /\ se2 \in Seq(SentType) /\ Len(se2) = Len(se) + 1
  /\ SizesOf(se2, l2)[Len(se) + 1] = TLV_SIZE + k
  /\ Preserves(GoodOf(se, l, o, loop), SizesOf(se, l), GoodOf(se2, l2, o2, FALSE), SizesOf(se2, l2))

LEMMA Completing ==
  ASSUME SizesAssumption, NEW se, NEW l, NEW o, NEW loop, NEW k, NEW whole, NEW counted,
         NEW se2, NEW l2, NEW o2, Completes(se, l, o, loop, k, whole, counted, se2, l2, o2)
  PROVE  Completed(se, l, o, loop, k, se2, l2, o2)
<1>0. /\ se \in Seq(SentType) /\ l \in Nat /\ o \in Nat /\ l2 \in Nat /\ o2 \in Nat
      /\ k \in Nat /\ whole \in BOOLEAN /\ counted \in BOOLEAN
      /\ (loop => k = l /\ o <= l /\ (whole => o = 0))
      /\ se2 = Append(se, [len |-> k, whole |-> whole, counted |-> counted])
  BY DEF Completes
<1>1. PICK m, x : m = Len(se) /\ x = [len |-> k, whole |-> whole, counted |-> counted]
  OBVIOUS
<1>2. /\ m \in Nat /\ x \in SentType /\ se2 = Append(se, x) /\ x.len = k /\ x.whole = whole
      /\ TLV_SIZE \in Nat
  BY <1>0, <1>1 DEF SentType, SizesAssumption
<1>3. se2 \in Seq(SentType) /\ Len(se2) = m + 1 /\ se2[m + 1] = x /\ \A t \in 1 .. m : se2[t] = se[t]
  BY <1>0, <1>1, <1>2
<1>4. /\ \A t \in 1 .. m : SizesOf(se, l)[t] = TLV_SIZE + se[t].len
      /\ SizesOf(se, l)[m + 1] = TLV_SIZE + l
  BY <1>0, <1>1, SizesHave
<1>5. \A t \in 1 .. m + 1 : SizesOf(se2, l2)[t] = TLV_SIZE + se2[t].len
  <2>1. \A t \in 1 .. Len(se2) : SizesOf(se2, l2)[t] = TLV_SIZE + se2[t].len
    BY <1>0, <1>3, SizesHave
  <2> QED BY <1>0, <1>3, <2>1
<1>6. m + 1 \in 1 .. m + 1 /\ SizesOf(se2, l2)[m + 1] = TLV_SIZE + k
  BY <1>0, <1>2, <1>3, <1>5
<1>7. \A t \in 1 .. m : t \in 1 .. m + 1 /\ SizesOf(se2, l2)[t] = SizesOf(se, l)[t]
  <2>1. TAKE t \in 1 .. m
  <2>2. t \in 1 .. m + 1 /\ se2[t] = se[t]
    BY <1>0, <1>2, <1>3
  <2> QED BY <1>0, <1>4, <1>5, <2>2
<1>8. ASSUME NEW g \in GoodOf(se, l, o, loop)
      PROVE  /\ SizesOf(se, l)[g[2][1]] \in Nat /\ SizesOf(se2, l2)[g[2][1]] = SizesOf(se, l)[g[2][1]]
             /\ g \in GoodOf(se2, l2, o2, FALSE)
  <2>1. PICK b, p : b = g[1] /\ p = g[2]
    OBVIOUS
  <2>2. /\ b \in Pair /\ p \in Pair /\ g = <<b, p>> /\ p[1] \in Nat /\ p[2] \in Nat
        /\ KnownOf(p, se, l, o, loop) /\ StandsOf(b, p, se)
        /\ p[1] \in 1 .. m \/ (loop /\ p[1] = m + 1)
        /\ SizesOf(se, l)[p[1]] \in Nat
    BY <1>0, <1>1, <2>1, GoodHas
  <2>3. CASE p[1] \in 1 .. m
    <3>1. p[1] \in 1 .. m + 1 /\ p[1] <= m /\ se2[p[1]] = se[p[1]] /\ p[1] # m + 1
      BY <1>0, <1>2, <1>3, <2>3
    <3>2. p[2] < SizesOf(se, l)[p[1]]
      BY <1>0, <1>1, <2>2, <3>1 DEF KnownOf
    <3>3. SizesOf(se2, l2)[p[1]] = SizesOf(se, l)[p[1]]
      BY <1>0, <1>7, <2>3
    <3>4. KnownOf(p, se2, l2, o2, FALSE)
      BY <1>0, <1>3, <3>1, <3>2, <3>3 DEF KnownOf
    <3>5. StandsOf(b, p, se2)
      BY <1>0, <1>1, <2>2, <3>1 DEF StandsOf
    <3> QED BY <2>1, <2>2, <3>3, <3>4, <3>5 DEF GoodOf
  <2>4. CASE loop /\ p[1] = m + 1
    <3>1. p[2] < TLV_SIZE + o /\ k = l /\ o <= l /\ (whole => o = 0)
      <4>1. ~(p[1] \in 1 .. m)
        BY <1>0, <1>2, <2>4
      <4> QED BY <1>0, <1>1, <2>2, <2>4, <4>1 DEF KnownOf
    <3>2. p[2] < SizesOf(se2, l2)[p[1]]
      BY <1>0, <1>2, <1>6, <2>2, <2>4, <3>1
    <3>3. KnownOf(p, se2, l2, o2, FALSE)
      BY <1>0, <1>3, <1>6, <2>4, <3>2 DEF KnownOf
    <3>4. whole => b = p
      <4>1. whole => p[2] < TLV_SIZE
        BY <1>0, <1>2, <2>2, <3>1
      <4> QED BY <2>2, <4>1 DEF StandsOf
    <3>5. StandsOf(b, p, se2)
      BY <1>0, <1>2, <1>3, <2>2, <2>4, <3>4 DEF StandsOf
    <3>6. SizesOf(se2, l2)[p[1]] = SizesOf(se, l)[p[1]]
      BY <1>0, <1>4, <1>6, <2>4, <3>1
    <3> QED BY <2>1, <2>2, <3>3, <3>5, <3>6 DEF GoodOf
  <2> QED BY <2>2, <2>3, <2>4
<1> QED BY <1>1, <1>3, <1>6, <1>8 DEF Completed, Preserves, Agree

(* ... and so are its last bytes. *)
LEMMA CompletingAdds ==
  ASSUME SizesAssumption, NEW se \in Seq(SentType),
         NEW k \in Nat, NEW whole \in BOOLEAN, NEW counted \in BOOLEAN,
         NEW se2, se2 = Append(se, [len |-> k, whole |-> whole, counted |-> counted]),
         NEW l2 \in Nat, NEW o2 \in Nat,
         NEW b \in Pair, NEW p \in Pair, p[1] = Len(se) + 1, p[2] < TLV_SIZE + k,
         b = p \/ (b[1] = p[1] /\ p[2] >= TLV_SIZE /\ b[2] >= TLV_SIZE /\ ~whole)
  PROVE  <<b, p>> \in GoodOf(se2, l2, o2, FALSE)
<1>1. PICK m, x : m = Len(se) /\ x = [len |-> k, whole |-> whole, counted |-> counted]
  OBVIOUS
<1>2. /\ m \in Nat /\ x \in SentType /\ se2 = Append(se, x) /\ x.len = k /\ x.whole = whole
      /\ TLV_SIZE \in Nat /\ p[2] \in Nat /\ b[2] \in Nat
  BY <1>1 DEF SentType, SizesAssumption, Pair
<1>3. se2 \in Seq(SentType) /\ Len(se2) = m + 1 /\ se2[m + 1] = x
  BY <1>1, <1>2
<1>4. m + 1 \in 1 .. m + 1 /\ SizesOf(se2, l2)[m + 1] = TLV_SIZE + k
  <2>1. \A t \in 1 .. Len(se2) : SizesOf(se2, l2)[t] = TLV_SIZE + se2[t].len
    BY ZenonT(30), <1>3, SizesHave
  <2>2. m + 1 \in 1 .. m + 1
    BY <1>2
  <2> QED BY <1>2, <1>3, <2>1, <2>2
<1>5. KnownOf(p, se2, l2, o2, FALSE)
  BY <1>1, <1>3, <1>4 DEF KnownOf
<1>6. StandsOf(b, p, se2)
  <2>1. CASE b = p
    BY <2>1 DEF StandsOf
  <2>2. CASE b[1] = p[1] /\ p[2] >= TLV_SIZE /\ b[2] >= TLV_SIZE /\ ~whole
    <3>1. ~(p[2] < TLV_SIZE)
      BY <1>2, <2>2
    <3> QED BY <1>1, <1>2, <1>3, <2>2, <3>1 DEF StandsOf
  <2> QED BY <2>1, <2>2
<1> QED BY <1>5, <1>6 DEF GoodOf

(* The loop begins or goes on. *)
Looped(se, l, o, loop, l2, o2) ==
  /\ SizesOf(se, l2)[Len(se) + 1] = TLV_SIZE + l2
  /\ Preserves(GoodOf(se, l, o, loop), SizesOf(se, l), GoodOf(se, l2, o2, TRUE), SizesOf(se, l2))

LEMMA Looping ==
  ASSUME SizesAssumption, NEW se \in Seq(SentType), NEW l \in Nat, NEW o \in Nat, NEW loop,
         NEW l2 \in Nat, NEW o2 \in Nat, loop => l2 = l /\ o <= o2
  PROVE  Looped(se, l, o, loop, l2, o2)
<1>1. PICK m : m = Len(se)
  OBVIOUS
<1>2. /\ m \in Nat /\ TLV_SIZE \in Nat /\ SizesOf(se, l2)[m + 1] = TLV_SIZE + l2
      /\ SizesOf(se, l)[m + 1] = TLV_SIZE + l
      /\ \A t \in 1 .. m : SizesOf(se, l2)[t] = SizesOf(se, l)[t]
  <2>1. TLV_SIZE \in Nat
    BY DEF SizesAssumption
  <2>2. /\ m \in Nat /\ SizesOf(se, l2)[m + 1] = TLV_SIZE + l2
        /\ \A t \in 1 .. m : SizesOf(se, l2)[t] = TLV_SIZE + se[t].len
    BY <1>1, SizesHave
  <2>3. /\ SizesOf(se, l)[m + 1] = TLV_SIZE + l
        /\ \A t \in 1 .. m : SizesOf(se, l)[t] = TLV_SIZE + se[t].len
    BY <1>1, SizesHave
  <2> QED BY <2>1, <2>2, <2>3
<1>3. ASSUME NEW g \in GoodOf(se, l, o, loop)
      PROVE  /\ SizesOf(se, l)[g[2][1]] \in Nat /\ SizesOf(se, l2)[g[2][1]] = SizesOf(se, l)[g[2][1]]
             /\ g \in GoodOf(se, l2, o2, TRUE)
  <2>1. PICK b, p : b = g[1] /\ p = g[2]
    OBVIOUS
  <2>2. /\ b \in Pair /\ p \in Pair /\ g = <<b, p>> /\ p[1] \in Nat /\ p[2] \in Nat
        /\ KnownOf(p, se, l, o, loop) /\ StandsOf(b, p, se)
        /\ p[1] \in 1 .. m \/ (loop /\ p[1] = m + 1)
        /\ SizesOf(se, l)[p[1]] \in Nat
    BY <1>1, <2>1, GoodHas
  <2>3. SizesOf(se, l2)[p[1]] = SizesOf(se, l)[p[1]]
    BY <1>2, <2>2
  <2>4. loop /\ p[2] < TLV_SIZE + o => p[2] < TLV_SIZE + o2
    BY <1>2, <2>2
  <2>5. KnownOf(p, se, l2, o2, TRUE)
    BY <1>1, <2>2, <2>3, <2>4 DEF KnownOf
  <2> QED BY <2>1, <2>2, <2>3, <2>5 DEF GoodOf
<1> QED BY <1>1, <1>2, <1>3 DEF Looped, Preserves, Agree

LEMMA LoopingAdds ==
  ASSUME SizesAssumption, NEW se \in Seq(SentType), NEW l2 \in Nat, NEW o2 \in Nat,
         NEW b \in Pair, NEW p \in Pair, p[1] = Len(se) + 1, p[2] < TLV_SIZE + o2,
         b = p \/ (b[1] = p[1] /\ p[2] >= TLV_SIZE /\ b[2] >= TLV_SIZE)
  PROVE  <<b, p>> \in GoodOf(se, l2, o2, TRUE)
<1>1. Len(se) \in Nat /\ TLV_SIZE \in Nat /\ p[2] \in Nat /\ b[2] \in Nat
  BY DEF SizesAssumption, Pair
<1>2. KnownOf(p, se, l2, o2, TRUE)
  BY DEF KnownOf
<1>3. StandsOf(b, p, se)
  <2>1. CASE b = p
    BY <2>1 DEF StandsOf
  <2>2. CASE b[1] = p[1] /\ p[2] >= TLV_SIZE /\ b[2] >= TLV_SIZE
    <3>1. ~(p[2] < TLV_SIZE) /\ ~(p[1] <= Len(se))
      BY <1>1, <2>2
    <3> QED BY <2>2, <3>1 DEF StandsOf
  <2> QED BY <2>1, <2>2
<1> QED BY <1>2, <1>3 DEF GoodOf

(* The layout of the nodes, and what a write does to it. *)
Lay(by, pl, S, e, c, G) == InOrder(pl, S, e) /\ Meant(by, pl, c, G)

Adds(bs, ps, T, a, k, G2) ==
  /\ bs \in Seq(Pair) /\ Len(bs) = k /\ Are(ps, T, a, k)
  /\ \A x \in 1 .. k : <<bs[x], <<T, a + x - 1>> >> \in G2

(* What comes after k more bytes of TLV T from its byte a on. *)
Then(S2, T, a, k, e) == IF k > 0 THEN After(S2, T, a, k) ELSE e

(* bs, which stands for ps, the k bytes of TLV T from its byte a on, is     *)
(* written; the primed layout has the 2s.                                   *)
LayWrite(by, pl, S, e, c, G, bs, ps, T, a, k, by2, pl2, S2, c2, G2) ==
  /\ Lay(by, pl, S, e, c, G) /\ \A n \in 1 .. Len(pl) - 1 : pl[n] # <<>>
  /\ T \in Nat /\ a \in Nat /\ k \in Nat /\ Adds(bs, ps, T, a, k, G2)
  /\ S2[T] \in Nat /\ a + k <= S2[T] /\ (k > 0 => e = <<T, a>>)
  /\ G \subseteq G2 /\ Agree(G, S, S2) /\ (Len(pl) > 1 => c2 = c /\ T > c)
  /\ by2 = [by EXCEPT ![Len(pl)] = @ \o bs] /\ pl2 = [pl EXCEPT ![Len(pl)] = @ \o ps]

LEMMA LayGrown ==
  ASSUME NEW by, NEW pl, NEW S, NEW e, NEW c, NEW G, NEW bs, NEW ps, NEW T, NEW a, NEW k,
         NEW by2, NEW pl2, NEW S2, NEW c2, NEW G2,
         LayWrite(by, pl, S, e, c, G, bs, ps, T, a, k, by2, pl2, S2, c2, G2)
  PROVE  Lay(by2, pl2, S2, Then(S2, T, a, k, e), c2, G2)
<1>0. /\ Lay(by, pl, S, e, c, G) /\ \A n \in 1 .. Len(pl) - 1 : pl[n] # <<>>
      /\ T \in Nat /\ a \in Nat /\ k \in Nat /\ Adds(bs, ps, T, a, k, G2)
      /\ S2[T] \in Nat /\ a + k <= S2[T] /\ (k > 0 => e = <<T, a>>)
      /\ G \subseteq G2 /\ Agree(G, S, S2) /\ (Len(pl) > 1 => c2 = c /\ T > c)
      /\ by2 = [by EXCEPT ![Len(pl)] = @ \o bs] /\ pl2 = [pl EXCEPT ![Len(pl)] = @ \o ps]
  BY DEF LayWrite
<1>1. /\ bs \in Seq(Pair) /\ ps \in Seq(Pair) /\ Len(bs) = k /\ Len(ps) = k
      /\ \A x \in 1 .. k : ps[x] = <<T, a + x - 1>> /\ <<bs[x], ps[x]>> \in G2
  BY <1>0 DEF Adds, Are
<1>2. Added(bs, ps, T, a, G2, S2)
  BY <1>0, <1>1 DEF Added
<1>3. Meant(by2, pl2, c2, G2)
  <2>1. Meant(by, pl, c, G)
    BY <1>0 DEF Lay
  <2> QED BY <1>0, <1>2, <2>1, MeantGrown
<1>4. PICK e2 : e2 = Then(S2, T, a, k, e)
  OBVIOUS
<1>5. Growth(pl, ps, pl2, T, a, S, e, S2, e2)
  <2>1. pl \in Seq(Seq(Pair)) /\ pl # <<>>
    BY <1>0 DEF Lay, Meant
  <2>2. Grown(pl, ps, pl2)
    BY <1>0, <1>1, <2>1, GrownIsSeq
  <2>3. ASSUME NEW n \in 1 .. Len(pl), NEW i \in 1 .. Len(pl[n])
        PROVE  S[pl[n][i][1]] \in Nat /\ S2[pl[n][i][1]] = S[pl[n][i][1]]
    <3>1. <<by[n][i], pl[n][i]>> \in G
      BY <1>0 DEF Lay, Meant
    <3>2. <<by[n][i], pl[n][i]>>[2] = pl[n][i]
      OBVIOUS
    <3> QED BY <1>0, <3>1, <3>2 DEF Agree
  <2>4. InOrder(pl, S, e)
    BY <1>0 DEF Lay
  <2>5. e2 = IF Len(ps) > 0 THEN After(S2, T, a, Len(ps)) ELSE e
    BY <1>1, <1>4 DEF Then
  <2>6. a + Len(ps) <= S2[T] /\ (Len(ps) > 0 => e = <<T, a>>)
    BY <1>0, <1>1
  <2>7. \A x \in 1 .. Len(ps) : ps[x] = <<T, a + x - 1>>
    BY <1>0, <1>1
  <2> QED BY <1>0, <1>1, <2>1, <2>2, <2>3, <2>4, <2>5, <2>6, <2>7 DEF Growth
<1>6. InOrder(pl2, S2, e2)
  BY <1>5, InOrderGrown
<1> QED BY <1>3, <1>4, <1>6 DEF Lay

LEMMA AppendIsGrown ==
  ASSUME NEW s \in Seq(Seq(Pair)), NEW more \in Seq(Pair), NEW s0, s0 = Append(s, <<>>)
  PROVE  Append(s, more) = [s0 EXCEPT ![Len(s0)] = @ \o more]
<1>1. <<>> \in Seq(Pair) /\ s0 \in Seq(Seq(Pair)) /\ Len(s0) = Len(s) + 1 /\ Len(s) \in Nat
      /\ s0[Len(s) + 1] = <<>> /\ \A n \in 1 .. Len(s) : s0[n] = s[n]
  OBVIOUS
<1>2. PICK m : m = Len(s) + 1
  OBVIOUS
<1>3. m \in Nat \ {0} /\ m \in 1 .. Len(s0) /\ Len(s0) = m /\ s0[m] = <<>>
  BY <1>1, <1>2
<1>4. s0[m] \o more = more
  BY <1>3, ConcatEmptySeq
<1>5. [s0 EXCEPT ![Len(s0)] = @ \o more] = [s0 EXCEPT ![m] = more]
  BY <1>3, <1>4
<1>6. PICK u, v : u = Append(s, more) /\ v = [s0 EXCEPT ![m] = more]
  OBVIOUS
<1>7. u \in Seq(Seq(Pair)) /\ Len(u) = m /\ u[m] = more /\ \A n \in 1 .. Len(s) : u[n] = s[n]
  BY <1>2, <1>6
<1>8. v \in Seq(Seq(Pair)) /\ Len(v) = m /\ v[m] = more /\ \A n \in 1 .. m - 1 : v[n] = s0[n]
  <2>1. s0 \in Seq(Seq(Pair)) /\ Len(s0) = m /\ m \in Nat \ {0} /\ m \in 1 .. m
    BY <1>1, <1>3
  <2>2. v = [s0 EXCEPT ![m] = more]
    BY <1>6
  <2>3. v \in Seq(Seq(Pair))
    BY <2>1, <2>2
  <2>4. Len(v) = m
    BY <2>1, <2>2
  <2>5. v[m] = more
    BY <2>1, <2>2
  <2>6. \A n \in 1 .. m - 1 : v[n] = s0[n]
    <3>1. TAKE n \in 1 .. m - 1
    <3>2. n # m /\ n \in 1 .. Len(s0)
      BY <2>1
    <3>3. n \in DOMAIN s0
      BY <2>1, <3>2
    <3> QED BY <2>2, <3>2, <3>3
  <2> QED BY <2>3, <2>4, <2>5, <2>6
<1>9. \A n \in 1 .. m : u[n] = v[n]
  <2>1. TAKE n \in 1 .. m
  <2>2. CASE n = m
    BY <1>7, <1>8, <2>2
  <2>3. CASE n # m
    <3>1. n \in 1 .. Len(s) /\ n \in 1 .. m - 1
      BY <1>1, <1>2, <1>3, <2>3
    <3> QED BY <1>1, <1>7, <1>8, <3>1
  <2> QED BY <2>2, <2>3
<1>10. u = v
  BY <1>7, <1>8, <1>9, SeqEqual
<1> QED BY <1>5, <1>6, <1>10

(* bs is written, a node is linked and begins with more. *)
LayLink(by, pl, S, e, c, G, bs, ps, T, a, k, more, k2, by2, pl2, S2, G2) ==
  /\ Lay(by, pl, S, e, c, G) /\ \A n \in 1 .. Len(pl) - 1 : pl[n] # <<>>
  /\ T \in Nat /\ a \in Nat /\ k \in Nat /\ Adds(bs, ps, T, a, k, G2)
  /\ S2[T] \in Nat /\ (k > 0 => e = <<T, a>>)
  /\ G \subseteq G2 /\ Agree(G, S, S2) /\ Agree(G2, S2, S2) /\ T > c
  /\ [pl EXCEPT ![Len(pl)] = @ \o ps][Len(pl)] # <<>>
  /\ k2 \in Nat /\ Adds(more, more, T, a + k, k2, G2) /\ a + k + k2 <= S2[T]
  /\ (k2 > 0 => Then(S2, T, a, k, e) = <<T, a + k>>)
  /\ by2 = Append([by EXCEPT ![Len(pl)] = @ \o bs], more)
  /\ pl2 = Append([pl EXCEPT ![Len(pl)] = @ \o ps], more)

LEMMA LayLinked ==
  ASSUME NEW by, NEW pl, NEW S, NEW e, NEW c, NEW G, NEW bs, NEW ps, NEW T, NEW a, NEW k,
         NEW more, NEW k2, NEW by2, NEW pl2, NEW S2, NEW G2,
         LayLink(by, pl, S, e, c, G, bs, ps, T, a, k, more, k2, by2, pl2, S2, G2)
  PROVE  Lay(by2, pl2, S2, Then(S2, T, a + k, k2, Then(S2, T, a, k, e)), c, G2)
<1>0. PICK by1, pl1 :
        /\ by1 = [by EXCEPT ![Len(pl)] = @ \o bs] /\ pl1 = [pl EXCEPT ![Len(pl)] = @ \o ps]
        /\ Lay(by, pl, S, e, c, G) /\ \A n \in 1 .. Len(pl) - 1 : pl[n] # <<>>
        /\ T \in Nat /\ a \in Nat /\ k \in Nat /\ Adds(bs, ps, T, a, k, G2)
        /\ S2[T] \in Nat /\ (k > 0 => e = <<T, a>>)
        /\ G \subseteq G2 /\ Agree(G, S, S2) /\ Agree(G2, S2, S2) /\ T > c
        /\ pl1[Len(pl)] # <<>>
        /\ k2 \in Nat /\ Adds(more, more, T, a + k, k2, G2) /\ a + k + k2 <= S2[T]
        /\ (k2 > 0 => Then(S2, T, a, k, e) = <<T, a + k>>)
        /\ by2 = Append(by1, more) /\ pl2 = Append(pl1, more)
  BY DEF LayLink
<1>1. PICK e1, m, by0, pl0 : /\ e1 = Then(S2, T, a, k, e) /\ m = Len(pl)
                             /\ by0 = Append(by1, <<>>) /\ pl0 = Append(pl1, <<>>)
  OBVIOUS
<1>2. a + k <= S2[T] /\ a + k \in Nat
  BY <1>0
<1>3. Lay(by1, pl1, S2, e1, c, G2)
  <2>1. LayWrite(by, pl, S, e, c, G, bs, ps, T, a, k, by1, pl1, S2, c, G2)
    BY <1>0, <1>2 DEF LayWrite
  <2> QED BY <1>1, <2>1, LayGrown
<1>4. /\ by1 \in Seq(Seq(Pair)) /\ pl1 \in Seq(Seq(Pair)) /\ pl1 # <<>> /\ Len(by1) = Len(pl1)
      /\ Meant(by1, pl1, c, G2) /\ InOrder(pl1, S2, e1)
  BY <1>3 DEF Lay, Meant
<1>5. Lay(by0, pl0, S2, e1, c, G2)
  <2>1. Meant(by0, pl0, c, G2)
    BY <1>1, <1>4, MeantNewNode
  <2>2. InOrder(pl0, S2, e1)
    BY <1>1, <1>4, InOrderNewNode
  <2> QED BY <2>1, <2>2 DEF Lay
<1>6. m \in Nat \ {0} /\ Len(pl1) = m /\ \A n \in 1 .. m - 1 : pl1[n] = pl[n]
  <2>1. pl \in Seq(Seq(Pair)) /\ pl # <<>> /\ ps \in Seq(Pair)
    BY <1>0 DEF Lay, Meant, Adds, Are
  <2>2. Grown(pl, ps, pl1)
    BY <1>0, <2>1, GrownIsSeq
  <2> QED BY <1>1, <2>1, <2>2 DEF Grown
<1>7. Len(pl0) = m + 1 /\ Len(by0) = m + 1 /\ \A n \in 1 .. Len(pl0) - 1 : pl0[n] # <<>>
  <2>1. /\ Len(pl0) = m + 1 /\ Len(by0) = m + 1 /\ m + 1 - 1 = m
        /\ \A n \in 1 .. m : pl0[n] = pl1[n]
    BY <1>1, <1>4, <1>6
  <2>2. \A n \in 1 .. m : pl1[n] # <<>>
    <3>1. \A n \in 1 .. m : n \in 1 .. m - 1 \/ n = m
      BY <1>6
    <3> QED BY <1>0, <1>1, <1>6, <3>1
  <2>3. Len(pl0) - 1 = m
    BY <1>6, <2>1
  <2>4. \A n \in 1 .. m : pl0[n] # <<>>
    BY <2>1, <2>2, Zenon
  <2> QED BY <2>1, <2>3, <2>4, Zenon
<1>8. more \in Seq(Pair)
  BY <1>0 DEF Adds
<1>9. by2 = [by0 EXCEPT ![Len(pl0)] = @ \o more] /\ pl2 = [pl0 EXCEPT ![Len(pl0)] = @ \o more]
  <2>1. by2 = [by0 EXCEPT ![Len(by0)] = @ \o more]
    <3>1. by1 \in Seq(Seq(Pair)) /\ by0 = Append(by1, <<>>)
      BY <1>1, <1>4
    <3>2. Append(by1, more) = [by0 EXCEPT ![Len(by0)] = @ \o more]
      BY <1>8, <3>1, AppendIsGrown
    <3> QED BY <1>0, <3>2
  <2>2. pl2 = [pl0 EXCEPT ![Len(pl0)] = @ \o more]
    BY ZenonT(30), <1>0, <1>1, <1>4, <1>8, AppendIsGrown
  <2> QED BY <1>7, <2>1, <2>2
<1>10. k2 > 0 => e1 = <<T, a + k>>
  BY <1>0, <1>1
<1>11. Lay(by2, pl2, S2, Then(S2, T, a + k, k2, e1), c, G2)
  <2>1. LayWrite(by0, pl0, S2, e1, c, G2, more, more, T, a + k, k2, by2, pl2, S2, c, G2)
    BY <1>0, <1>2, <1>5, <1>7, <1>9, <1>10 DEF LayWrite
  <2> QED BY <2>1, LayGrown
<1> QED BY <1>1, <1>11

(* The layout of the state, as functions of its parts. *)
Loop == pc = "value"
LaidOut == Lay(bytes, place, SizesOf(sent, w.len), EndOf(sent, w.len, w.old, Loop), cnt[1],
               GoodOf(sent, w.len, w.old, Loop))
LastFilled == LastNode > 1 => place[LastNode] # <<>> \/ (pc = "value" /\ w.old < w.len)

LEMMA LayoutIs == ASSUME TypeOK, LayoutInv PROVE LaidOut /\ LastFilled
<1>1. SizesOf(sent, w.len) = Sizes /\ EndOf(sent, w.len, w.old, Loop) = End
  BY DEF SizesOf, Sizes, EndOf, End, Loop
<1>2. NodesOK /\ Len(place) \in Nat \ {0} /\ place # <<>>
  BY NodesTyped DEF TypeOK, LastNode
<1>3. ASSUME NEW n \in 1 .. Len(place), NEW i \in 1 .. Len(place[n])
      PROVE  /\ <<bytes[n][i], place[n][i]>> \in GoodOf(sent, w.len, w.old, Loop)
             /\ n > 1 => place[n][i][1] > cnt[1]
  <2>1. PICK b, p : b = bytes[n][i] /\ p = place[n][i]
    OBVIOUS
  <2>2. /\ Len(place) = LastNode /\ bytes[n] \in Seq(Pair) /\ place[n] \in Seq(Pair)
        /\ NIFO_SIZE + Len(bytes[n]) = NIFO_SIZE + Len(place[n])
    BY DEF TypeOK, Pair
  <2>3. Len(bytes[n]) = Len(place[n])
    <3>1. NIFO_SIZE \in Nat /\ Len(bytes[n]) \in Nat /\ Len(place[n]) \in Nat
      BY <2>2, SizesAssumption DEF SizesAssumption
    <3> QED BY <2>2, <3>1
  <2>4. b \in Pair /\ p \in Pair
    BY <2>1, <2>2, <2>3, ElementOfSeq
  <2>5. Known(p) /\ Stands(b, p) /\ (n > 1 => p[1] > cnt[1])
    BY <2>1, <2>2 DEF LayoutInv
  <2>6. KnownOf(p, sent, w.len, w.old, Loop)
    BY <1>1, <2>5 DEF KnownOf, Known, Loop
  <2>7. StandsOf(b, p, sent)
    BY <2>5 DEF StandsOf, Stands
  <2>8. <<b, p>> \in GoodOf(sent, w.len, w.old, Loop)
    BY <2>4, <2>6, <2>7 DEF GoodOf
  <2> QED BY <2>1, <2>5, <2>8
<1>4. \A n \in 1 .. Len(place) : Len(bytes[n]) = Len(place[n])
  <2>1. TAKE n \in 1 .. Len(place)
  <2>2. /\ Len(place) = LastNode /\ bytes[n] \in Seq(Pair) /\ place[n] \in Seq(Pair)
        /\ NIFO_SIZE + Len(bytes[n]) = NIFO_SIZE + Len(place[n])
    BY DEF TypeOK, Pair
  <2>3. NIFO_SIZE \in Nat /\ Len(bytes[n]) \in Nat /\ Len(place[n]) \in Nat
    BY <2>2, SizesAssumption DEF SizesAssumption
  <2> QED BY <2>2, <2>3
<1>5. Meant(bytes, place, cnt[1], GoodOf(sent, w.len, w.old, Loop))
  BY <1>2, <1>3, <1>4 DEF Meant, NodesOK, Filled
<1>6. InOrder(place, Sizes, End) /\ LastFilled
  BY DEF LayoutInv, LastFilled
<1> QED BY <1>1, <1>5, <1>6 DEF LaidOut, Lay

(* The other way round, of the next state. *)
LEMMA LayoutIsNext == ASSUME TypeOK', LaidOut', LastFilled' PROVE LayoutInv'
<1>1. SizesOf(sent', w'.len) = Sizes' /\ EndOf(sent', w'.len, w'.old, Loop') = End'
  BY DEF SizesOf, Sizes, EndOf, End, Loop
<1>2. InOrder(place', Sizes', End')
  BY <1>1 DEF LaidOut, Lay
<1>3. ASSUME NEW n \in 1 .. LastNode', NEW i \in 1 .. Len(place'[n])
      PROVE  /\ Known(place[n][i])' /\ Stands(bytes[n][i], place[n][i])'
             /\ n > 1 => place'[n][i][1] > cnt'[1]
  <2>1. PICK b, p : b = bytes'[n][i] /\ p = place'[n][i]
    OBVIOUS
  <2>2. Len(place') = LastNode'
    BY DEF TypeOK
  <2>3. <<b, p>> \in GoodOf(sent', w'.len, w'.old, Loop') /\ (n > 1 => p[1] > cnt'[1])
    BY <2>1, <2>2 DEF LaidOut, Lay, Meant
  <2>4. KnownOf(p, sent', w'.len, w'.old, Loop') /\ StandsOf(b, p, sent')
    BY <2>3 DEF GoodOf
  <2>5. Known(place[n][i])'
    BY <1>1, <2>1, <2>4 DEF KnownOf, Known, Loop
  <2>6. Stands(bytes[n][i], place[n][i])'
    BY <2>1, <2>4 DEF StandsOf, Stands
  <2> QED BY <2>1, <2>3, <2>5, <2>6
<1> QED BY <1>2, <1>3 DEF LayoutInv, LastFilled

LEMMA NotEmptied ==
  ASSUME NEW pl \in Seq(Seq(Pair)), pl # <<>>, NEW c \in Seq(Pair),
         pl[Len(pl)] # <<>> \/ Len(c) > 0, NEW pl2, pl2 = [pl EXCEPT ![Len(pl)] = @ \o c]
  PROVE  Len(pl2) = Len(pl) /\ pl2[Len(pl)] # <<>>
<1>1. Grown(pl, c, pl2)
  BY GrownIsSeq
<1>2. pl[Len(pl)] \in Seq(Pair)
  OBVIOUS
<1>3. Len(pl[Len(pl)] \o c) = Len(pl[Len(pl)]) + Len(c)
  BY <1>2, GrownLasts
<1>4. Len(pl[Len(pl)]) \in Nat /\ Len(c) \in Nat /\ (Len(pl[Len(pl)]) = 0 => pl[Len(pl)] = <<>>)
  BY <1>2
<1>5. Len(pl[Len(pl)]) + Len(c) > 0
  BY <1>4
<1>6. Len(pl2) = Len(pl) /\ pl2[Len(pl)] = pl[Len(pl)] \o c
  BY <1>1 DEF Grown
<1>7. Len(pl2[Len(pl)]) > 0
  BY <1>3, <1>5, <1>6
<1>8. ~(Len(<<>>) > 0)
  OBVIOUS
<1>9. pl2[Len(pl)] # <<>>
  <2>1. SUFFICES ASSUME pl2[Len(pl)] = <<>> PROVE FALSE
    OBVIOUS
  <2> QED BY <1>7, <1>8, <2>1, Zenon
<1> QED BY <1>6, <1>9

(* As many numbers as the last of them says.                               *)
LEMMA UpTo == ASSUME NEW n \in Nat PROVE IsFiniteSet(1 .. n) /\ Cardinality(1 .. n) = n
  BY FS_Interval

(* What the counter counts. *)
LEMMA CountedFinite ==
  ASSUME TypeOK
  PROVE  /\ IsFiniteSet(Counted) /\ Cardinality(Counted) \in Nat /\ Len(sent) \in Nat
         /\ Cardinality(Counted) <= Len(sent) /\ ~(Len(sent) + 1 \in Counted)
<1>1. Len(sent) \in Nat
  BY DEF TypeOK
<1>2. IsFiniteSet(1 .. Len(sent)) /\ Cardinality(1 .. Len(sent)) = Len(sent)
  BY <1>1, UpTo
<1>3. Counted \in SUBSET (1 .. Len(sent))
  BY DEF Counted
<1>4. IsFiniteSet(Counted) /\ Cardinality(Counted) <= Cardinality(1 .. Len(sent))
  BY <1>2, <1>3, FS_Subset
<1>5. Cardinality(Counted) \in Nat
  BY <1>4, FS_CardinalityType
<1>6. ~(Len(sent) + 1 \in Counted)
  BY <1>1 DEF Counted
<1> QED BY <1>1, <1>2, <1>4, <1>5, <1>6

LEMMA CountedGrows ==
  ASSUME TypeOK, NEW x, sent' = Append(sent, x), x.counted \in BOOLEAN
  PROVE  Cardinality(Counted') = Cardinality(Counted) + (IF x.counted THEN 1 ELSE 0)
<1>1. /\ IsFiniteSet(Counted) /\ Cardinality(Counted) \in Nat /\ Len(sent) \in Nat
      /\ ~(Len(sent) + 1 \in Counted)
  BY CountedFinite
<1>2. sent \in Seq([len : Nat, whole : BOOLEAN, counted : BOOLEAN])
  BY DEF TypeOK
<1>3. Len(sent') = Len(sent) + 1 /\ sent'[Len(sent) + 1] = x /\ \A t \in 1 .. Len(sent) : sent'[t] = sent[t]
  BY <1>1, <1>2
<1>4. \A t \in 1 .. Len(sent) + 1 : t \in 1 .. Len(sent) \/ t = Len(sent) + 1
  BY <1>1
<1>5. \A t \in 1 .. Len(sent) : t \in 1 .. Len(sent) + 1
  BY <1>1
<1>6. Len(sent) + 1 \in 1 .. Len(sent) + 1
  BY <1>1
<1>7. CASE x.counted
  <2>1. Counted' = Counted \cup {Len(sent) + 1}
    BY <1>3, <1>4, <1>5, <1>6, <1>7 DEF Counted
  <2>2. Cardinality(Counted \cup {Len(sent) + 1}) = Cardinality(Counted) + 1
    BY <1>1, FS_AddElement
  <2> QED BY <1>7, <2>1, <2>2
<1>8. CASE ~x.counted
  <2>1. Counted' = Counted
    BY <1>3, <1>4, <1>5, <1>6, <1>8 DEF Counted
  <2> QED BY <1>1, <1>8, <2>1
<1> QED BY <1>7, <1>8

LEMMA CountNext ==
  ASSUME SizesAssumption, Invs, CountInv, Write
  PROVE  CountInv' /\ (LastNode > 1 => cnt'[1] = cnt[1])
<1>0. TypeOK /\ FullButLast /\ w.old <= w.len
  BY DEF Invs
<1>1. /\ cnt \in Seq(Nat) /\ Len(cnt) = LastNode /\ LastNode \in Nat \ {0} /\ Len(lastoffset) = LastNode
      /\ cnt[1] = Cardinality(Counted) /\ \A n \in 2 .. LastNode : cnt[n] = 0
      /\ Cardinality(Counted) \in Nat
  BY <1>0, CountedFinite DEF TypeOK, CountInv, LastNode
<1>2. ASSUME NEW len \in Lens, nifo_tlv_alloc(len)
      PROVE  CountInv' /\ (LastNode > 1 => cnt'[1] = cnt[1])
  <2>1. LastNode = 1 /\ NodesGrow
    BY <1>0, <1>2, AllocInHead, AllocGrows
  <2>2. cnt' = [cnt EXCEPT ![1] = cnt[1] + 1] /\ lastoffset' = [lastoffset EXCEPT ![1] = @ + TLV_SIZE + len]
        /\ sent' = Append(sent, [len |-> len, whole |-> TRUE, counted |-> TRUE])
    BY <1>2 DEF nifo_tlv_alloc, Sent
  <2>3. Cardinality(Counted') = Cardinality(Counted) + 1
    <3>1. PICK x : x = [len |-> len, whole |-> TRUE, counted |-> TRUE]
      OBVIOUS
    <3>2. sent' = Append(sent, x) /\ x.counted \in BOOLEAN /\ x.counted
      BY <2>2, <3>1
    <3> QED BY <1>0, <3>2, CountedGrows
  <2>4. cnt'[1] = cnt[1] + 1
    BY <1>1, <2>1, <2>2
  <2>5. LastNode' = 1
    <3>1. Len(lastoffset') = Len(lastoffset)
      BY <1>0, <1>1, <2>1, <2>2, OffsetsAreNat, InvsGiveInv, NextInv DEF Inv, WriterInv, TypeOK
    <3> QED BY <1>1, <2>1, <3>1 DEF LastNode
  <2> QED BY <1>1, <2>1, <2>3, <2>4, <2>5 DEF CountInv
<1>3. ASSUME CopyPart \/ \E len \in Lens : nifo_copy_tlv_cont(len)
      PROVE  CountInv' /\ (LastNode > 1 => cnt'[1] = cnt[1])
  <2>1. Cardinality(Counted') = Cardinality(Counted)
    <3>1. CASE sent' = sent
      BY <3>1 DEF Counted
    <3>2. CASE \E k, whole : sent' = Append(sent, [len |-> k, whole |-> whole, counted |-> FALSE])
      <4>1. PICK x : sent' = Append(sent, x) /\ x.counted = FALSE
        BY <3>2
      <4>2. Cardinality(Counted') = Cardinality(Counted) + 0
        BY <1>0, <4>1, CountedGrows
      <4> QED BY <1>1, <4>2
    <3>3. sent' = sent \/ \E k, whole : sent' = Append(sent, [len |-> k, whole |-> whole, counted |-> FALSE])
      BY <1>3 DEF CopyPart, nifo_copy_tlv_cont, CopyWhole, CopyHeader, CopySplit, Sent, Fail
    <3> QED BY <3>1, <3>2, <3>3
  <2>2. NodesGrow
    BY <1>3, PartGrows, CopyGrows
  <2>3. CASE cnt' = cnt
    <3>1. Len(cnt') = LastNode'
      BY <2>2 DEF NodesGrow, NodesOK
    <3> QED BY <1>1, <2>1, <2>3, <3>1 DEF CountInv
  <2>4. CASE cnt' = Append(cnt, 0)
    <3>1. Len(cnt') = LastNode'
      BY <2>2 DEF NodesGrow, NodesOK
    <3>2. LastNode' = LastNode + 1 /\ cnt'[LastNode + 1] = 0 /\ \A n \in 1 .. LastNode : cnt'[n] = cnt[n]
      BY <1>1, <2>4, <3>1
    <3>3. \A n \in 2 .. LastNode + 1 : n \in 2 .. LastNode \/ n = LastNode + 1
      BY <1>1
    <3>4. \A n \in 2 .. LastNode : n \in 1 .. LastNode
      BY <1>1
    <3>5. 1 \in 1 .. LastNode
      BY <1>1
    <3> QED BY <1>1, <2>1, <3>2, <3>3, <3>4, <3>5 DEF CountInv
  <2>5. cnt' = cnt \/ cnt' = Append(cnt, 0)
    BY <1>3 DEF CopyPart, nifo_copy_tlv_cont, CopyWhole, CopyHeader, CopySplit, Written, Linked, Fail
  <2> QED BY <2>3, <2>4, <2>5
<1> QED BY <1>2, <1>3 DEF Write

(* What the layout is before a write. *)
LEMMA Current ==
  ASSUME SizesAssumption, Invs, LayoutInv, CountInv, NEW se, NEW l, NEW o, NEW loop,
         se = sent, l = w.len, o = w.old, loop = Loop
  PROVE  /\ Lay(bytes, place, SizesOf(se, l), EndOf(se, l, o, loop), cnt[1], GoodOf(se, l, o, loop))
         /\ LastFilled
         /\ se \in Seq(SentType) /\ l \in Nat /\ o \in Nat /\ o <= l
         /\ \A n \in 1 .. Len(place) - 1 : place[n] # <<>>
         /\ place \in Seq(Seq(Pair)) /\ place # <<>> /\ Len(place) = LastNode
         /\ Len(se) + 1 \in Nat /\ Len(se) + 1 > cnt[1]
<1>1. TypeOK /\ FullButLast /\ w.old <= w.len
  BY DEF Invs
<1>2. LaidOut /\ LastFilled
  BY <1>1, LayoutIs
<1>3. /\ place \in Seq(Seq(Pair)) /\ place # <<>> /\ Len(place) = LastNode /\ LastNode \in Nat \ {0}
      /\ sent \in Seq(SentType) /\ w.len \in Nat /\ w.old \in Nat
  BY <1>1 DEF TypeOK, Pair, SentType, LastNode
<1>4. ASSUME NEW n \in 1 .. Len(place) - 1 PROVE place[n] # <<>>
  <2>1. n \in 1 .. LastNode - 1 /\ n \in 1 .. LastNode
    BY <1>3
  <2>2. NIFO_SIZE + Len(place[n]) = BODY_SIZE
    BY <1>1, <2>1 DEF TypeOK, FullButLast
  <2>3. NIFO_SIZE + 0 # BODY_SIZE
    BY DEF SizesAssumption
  <2>4. Len(<<>>) = 0
    OBVIOUS
  <2> QED BY <2>2, <2>3, <2>4
<1>5. Len(se) + 1 \in Nat /\ Len(se) + 1 > cnt[1]
  BY <1>1, CountedFinite DEF CountInv
<1> QED BY <1>1, <1>2, <1>3, <1>4, <1>5 DEF LaidOut

(* The same of the next state, from what was laid. *)
LEMMA LaidNext ==
  ASSUME Invs', NEW S2, NEW e2, NEW c2, NEW G2, Lay(bytes', place', S2, e2, c2, G2), c2 = cnt'[1],
         NEW loop2, loop2 = Loop',
         S2 = SizesOf(sent', w'.len), e2 = EndOf(sent', w'.len, w'.old, loop2),
         G2 = GoodOf(sent', w'.len, w'.old, loop2), LastFilled'
  PROVE  LayoutInv'
<1>1. LaidOut'
  BY DEF LaidOut
<1> QED BY <1>1, LayoutIsNext DEF Invs

(* All of a TLV is written. *)
WritesWhole(len, counted) ==
  LET tlv == Bytes(Len(sent) + 1, 0, TLV_SIZE + len) IN
  /\ pc = "write" /\ pc' = "write" /\ w' = w
  /\ bytes' = [bytes EXCEPT ![LastNode] = @ \o tlv]
  /\ place' = [place EXCEPT ![LastNode] = @ \o tlv]
  /\ Sent(len, TRUE, counted)
  /\ LastNode > 1 => cnt'[1] = cnt[1]

LEMMA WholeLaid ==
  ASSUME SizesAssumption, Invs, Invs', LayoutInv, CountInv, NEW len \in Nat, NEW counted \in BOOLEAN,
         WritesWhole(len, counted)
  PROVE  LayoutInv'
<1>0. PICK se, l, o, loop, yes, T, k, bs, se2, S, S2, G, G2, c, c2 :
        /\ se = sent /\ l = w.len /\ o = w.old /\ loop = Loop /\ yes = TRUE /\ T = Len(sent) + 1 /\ k = TLV_SIZE + len
        /\ bs = Bytes(Len(sent) + 1, 0, TLV_SIZE + len)
        /\ se2 = Append(se, [len |-> len, whole |-> yes, counted |-> counted])
        /\ S = SizesOf(se, l) /\ S2 = SizesOf(se2, l)
        /\ G = GoodOf(se, l, o, loop) /\ G2 = GoodOf(se2, l, o, FALSE)
        /\ c = cnt[1] /\ c2 = cnt'[1]
  OBVIOUS
<1>1. /\ bytes' = [bytes EXCEPT ![LastNode] = @ \o bs] /\ place' = [place EXCEPT ![LastNode] = @ \o bs]
      /\ sent' = se2 /\ w' = w /\ pc' = "write" /\ pc = "write" /\ (LastNode > 1 => c2 = c)
  BY <1>0 DEF WritesWhole, Sent
<1>3. /\ Lay(bytes, place, SizesOf(se, l), EndOf(se, l, o, loop), cnt[1], GoodOf(se, l, o, loop))
      /\ se \in Seq(SentType) /\ l \in Nat /\ o \in Nat /\ o <= l
      /\ \A n \in 1 .. Len(place) - 1 : place[n] # <<>>
      /\ place \in Seq(Seq(Pair)) /\ place # <<>> /\ Len(place) = LastNode
      /\ Len(se) + 1 \in Nat /\ Len(se) + 1 > cnt[1]
  BY <1>0, Current
<1>4. loop = FALSE /\ EndOf(se, l, o, loop) = <<T, 0>>
  BY <1>0, <1>1 DEF Loop, EndOf
<1>5. Lay(bytes, place, S, <<T, 0>>, c, G) /\ T \in Nat /\ T > c
  BY <1>0, <1>3, <1>4
<1>6. k \in Nat \ {0} /\ TLV_SIZE \in Nat
  BY <1>0, SizesAssumption DEF SizesAssumption
<1>7. S2[T] = k /\ G \subseteq G2 /\ Agree(G, S, S2) /\ Len(se2) = T
  <2>1. Completes(se, l, o, loop, len, yes, counted, se2, l, o)
    BY <1>0, <1>3, <1>4 DEF Completes
  <2>2. /\ Len(se2) = Len(se) + 1 /\ SizesOf(se2, l)[Len(se) + 1] = TLV_SIZE + len
        /\ Preserves(GoodOf(se, l, o, loop), SizesOf(se, l), GoodOf(se2, l, o, FALSE), SizesOf(se2, l))
    <3>1. Completed(se, l, o, loop, len, se2, l, o)
      BY <2>1, Completing
    <3> QED BY <3>1 DEF Completed
  <2>3. Preserves(G, S, G2, S2)
    BY <1>0, <2>2
  <2> QED BY <1>0, <2>2, <2>3 DEF Preserves
<1>8. Are(bs, T, 0, k)
  <2>1. 0 \in Nat /\ 0 <= k /\ k - 0 = k
    BY <1>6
  <2>2. Are(Bytes(T, 0, k), T, 0, k - 0)
    BY <1>5, <1>6, <2>1, BytesAre
  <2> QED BY <1>0, <2>1, <2>2
<1>9. Adds(bs, bs, T, 0, k, G2)
  <2>1. ASSUME NEW x \in 1 .. k PROVE <<bs[x], <<T, 0 + x - 1>> >> \in G2
    <3>1. PICK p : p = <<T, 0 + x - 1>>
      OBVIOUS
    <3>2. bs[x] = p /\ p \in Pair /\ p[1] = Len(se) + 1 /\ p[2] = 0 + x - 1
      <4>1. 0 + x - 1 \in Nat
        BY <1>6
      <4> QED BY <1>0, <1>5, <1>8, <3>1, <4>1 DEF Are, Pair
    <3>3. p[2] < TLV_SIZE + len
      BY <1>0, <1>6, <3>2
    <3>4. <<p, p>> \in GoodOf(se2, l, o, FALSE)
      BY <1>0, <1>3, <3>2, <3>3, CompletingAdds
    <3> QED BY <1>0, <3>1, <3>2, <3>4
  <2> QED BY <1>8, <2>1 DEF Adds, Are
<1>10. LayWrite(bytes, place, S, <<T, 0>>, c, G, bs, bs, T, 0, k, bytes', place', S2, c2, G2)
  <2>1. 0 \in Nat /\ 0 + k <= S2[T] /\ S2[T] \in Nat
    BY <1>6, <1>7
  <2> QED BY <1>1, <1>3, <1>5, <1>6, <1>7, <1>9, <2>1 DEF LayWrite
<1>11. Then(S2, T, 0, k, <<T, 0>>) = EndOf(sent', w'.len, w'.old, FALSE)
  <2>1. k > 0 /\ ~(0 + k < S2[T])
    BY <1>6, <1>7
  <2> QED BY <1>1, <1>7, <2>1 DEF Then, After, EndOf
<1>12. Lay(bytes', place', S2, EndOf(sent', w'.len, w'.old, FALSE), c2, G2)
  BY <1>10, <1>11, LayGrown
<1>13. LastFilled'
  <2>1. bs \in Seq(Pair) /\ Len(bs) > 0
    BY <1>6, <1>8 DEF Are
  <2>2. Len(place') = Len(place) /\ place'[Len(place)] # <<>>
    BY <1>1, <1>3, <2>1, NotEmptied
  <2>3. Len(place') = LastNode'
    BY DEF Invs, TypeOK
  <2> QED BY <2>2, <2>3 DEF LastFilled
<1>14. Loop' = FALSE
  BY <1>1 DEF Loop
<1> QED BY <1>0, <1>1, <1>12, <1>13, <1>14, LaidNext

(* The header is written, the loop begins. *)
LEMMA HeaderLaid ==
  ASSUME SizesAssumption, Invs, Invs', LayoutInv, CountInv, NEW len \in Nat, pc = "write", CopyHeader(len)
  PROVE  LayoutInv'
<1>0. PICK se, l, o, loop, yes, T, k, bs, S, S2, G, G2, c :
        /\ se = sent /\ l = w.len /\ o = w.old /\ loop = Loop /\ yes = TRUE /\ T = Len(sent) + 1
        /\ k = TLV_SIZE /\ bs = Bytes(Len(sent) + 1, 0, TLV_SIZE)
        /\ S = SizesOf(se, l) /\ S2 = SizesOf(se, len)
        /\ G = GoodOf(se, l, o, loop) /\ G2 = GoodOf(se, len, 0, yes) /\ c = cnt[1]
  OBVIOUS
<1>1. /\ bytes' = [bytes EXCEPT ![LastNode] = @ \o bs] /\ place' = [place EXCEPT ![LastNode] = @ \o bs]
      /\ sent' = se /\ w' = [len |-> len, old |-> 0] /\ pc' = "value" /\ cnt' = cnt
  BY <1>0 DEF CopyHeader, Written
<1>2. /\ Lay(bytes, place, SizesOf(se, l), EndOf(se, l, o, loop), cnt[1], GoodOf(se, l, o, loop))
      /\ se \in Seq(SentType) /\ l \in Nat /\ o \in Nat /\ o <= l
      /\ \A n \in 1 .. Len(place) - 1 : place[n] # <<>>
      /\ place \in Seq(Seq(Pair)) /\ place # <<>> /\ Len(place) = LastNode
      /\ Len(se) + 1 \in Nat /\ Len(se) + 1 > cnt[1]
  BY <1>0, Current
<1>3. loop = FALSE /\ EndOf(se, l, o, loop) = <<T, 0>>
  BY <1>0 DEF Loop, EndOf
<1>4. Lay(bytes, place, S, <<T, 0>>, c, G) /\ T \in Nat /\ T > c
  BY <1>0, <1>2, <1>3
<1>5. k \in Nat \ {0} /\ TLV_SIZE \in Nat
  BY <1>0, SizesAssumption DEF SizesAssumption
<1>6. S2[T] = k + len /\ G \subseteq G2 /\ Agree(G, S, S2)
  <2>1. Looped(se, l, o, loop, len, 0)
    BY <1>2, <1>3, Looping
  <2>2. SizesOf(se, len)[Len(se) + 1] = TLV_SIZE + len
    BY <2>1 DEF Looped
  <2>3. Preserves(G, S, G2, S2)
    BY <1>0, <2>1 DEF Looped
  <2> QED BY <1>0, <2>2, <2>3 DEF Preserves
<1>7. Are(bs, T, 0, k)
  <2>1. 0 \in Nat /\ 0 <= k /\ k - 0 = k
    BY <1>5
  <2>2. Are(Bytes(T, 0, k), T, 0, k - 0)
    BY <1>4, <1>5, <2>1, BytesAre
  <2> QED BY <1>0, <2>1, <2>2
<1>8. Adds(bs, bs, T, 0, k, G2)
  <2>1. ASSUME NEW x \in 1 .. k PROVE <<bs[x], <<T, 0 + x - 1>> >> \in G2
    <3>1. PICK p : p = <<T, 0 + x - 1>>
      OBVIOUS
    <3>2. bs[x] = p /\ p \in Pair /\ p[1] = Len(se) + 1 /\ p[2] = 0 + x - 1
      <4>1. 0 + x - 1 \in Nat
        BY <1>5
      <4> QED BY <1>0, <1>4, <1>7, <3>1, <4>1 DEF Are, Pair
    <3>3. p[2] < TLV_SIZE + 0
      BY <1>0, <1>5, <3>2
    <3>4. <<p, p>> \in GoodOf(se, len, 0, TRUE)
      BY <1>2, <3>2, <3>3, LoopingAdds
    <3> QED BY <1>0, <3>1, <3>2, <3>4
  <2> QED BY <1>7, <2>1 DEF Adds, Are
<1>9. LayWrite(bytes, place, S, <<T, 0>>, c, G, bs, bs, T, 0, k, bytes', place', S2, c, G2)
  <2>1. 0 \in Nat /\ 0 + k <= S2[T] /\ S2[T] \in Nat
    BY <1>5, <1>6
  <2> QED BY <1>1, <1>2, <1>4, <1>5, <1>6, <1>8, <2>1 DEF LayWrite
<1>10. Then(S2, T, 0, k, <<T, 0>>) = EndOf(se, len, 0, yes)
  <2>1. k > 0 /\ 0 + k = k /\ k + 0 = k
    BY <1>5
  <2>2. EndOf(se, len, 0, yes) = After(S2, T, k, 0)
    BY <1>0 DEF EndOf
  <2> QED BY <2>1, <2>2 DEF Then, After
<1>11. Lay(bytes', place', S2, EndOf(se, len, 0, yes), c, G2)
  BY <1>9, <1>10, LayGrown
<1>12. LastFilled'
  <2>1. bs \in Seq(Pair) /\ Len(bs) > 0
    BY <1>5, <1>7 DEF Are
  <2>2. Len(place') = Len(place) /\ place'[Len(place)] # <<>>
    BY <1>1, <1>2, <2>1, NotEmptied
  <2>3. Len(place') = LastNode'
    BY DEF Invs, TypeOK
  <2> QED BY <2>2, <2>3 DEF LastFilled
<1>13. yes = Loop' /\ w'.len = len /\ w'.old = 0 /\ cnt'[1] = c
  BY <1>0, <1>1 DEF Loop
<1> QED BY <1>0, <1>1, <1>11, <1>12, <1>13, LaidNext

(* A last node without room is not empty. *)
LEMMA RoomOrFull == ASSUME SizesAssumption, TypeOK, Room = 0 PROVE place[LastNode] # <<>>
<1>1. /\ LastNode \in Nat \ {0} /\ lastoffset[LastNode] \in NIFO_SIZE .. BODY_SIZE
      /\ BODY_SIZE \in Nat /\ NIFO_SIZE \in Nat
  BY WriterBounds
<1>2. NIFO_SIZE + Len(place[LastNode]) = lastoffset[LastNode]
  BY <1>1 DEF TypeOK
<1>3. lastoffset[LastNode] = BODY_SIZE
  BY <1>1 DEF Room
<1>4. NIFO_SIZE + 0 # BODY_SIZE
  BY DEF SizesAssumption
<1>5. Len(<<>>) = 0
  OBVIOUS
<1> QED BY <1>2, <1>3, <1>4, <1>5

(* The header is cut, a node is linked, the loop begins. *)
LEMMA SplitLaid ==
  ASSUME SizesAssumption, Invs, Invs', LayoutInv, CountInv, NEW len \in Nat, pc = "write",
         NEW bs, NEW more, bs = Bytes(Len(sent) + 1, 0, Room), more = Bytes(Len(sent) + 1, Room, TLV_SIZE),
         Room < TLV_SIZE, Linked(bs, bs, more), w' = [len |-> len, old |-> 0], pc' = "value",
         sent' = sent
  PROVE  LayoutInv'
<1>0. PICK se, l, o, loop, yes, T, k, k2, S, S2, G, G2, c :
        /\ se = sent /\ l = w.len /\ o = w.old /\ loop = Loop /\ yes = TRUE /\ T = Len(sent) + 1
        /\ k = Room /\ k2 = TLV_SIZE - Room
        /\ S = SizesOf(se, l) /\ S2 = SizesOf(se, len)
        /\ G = GoodOf(se, l, o, loop) /\ G2 = GoodOf(se, len, 0, yes) /\ c = cnt[1]
  OBVIOUS
<1>1. /\ bytes' = Append([bytes EXCEPT ![LastNode] = @ \o bs], more)
      /\ place' = Append([place EXCEPT ![LastNode] = @ \o bs], more)
      /\ cnt' = Append(cnt, 0)
  BY <1>0 DEF Linked
<1>2. /\ Lay(bytes, place, SizesOf(se, l), EndOf(se, l, o, loop), cnt[1], GoodOf(se, l, o, loop))
      /\ se \in Seq(SentType) /\ l \in Nat /\ o \in Nat /\ o <= l
      /\ \A n \in 1 .. Len(place) - 1 : place[n] # <<>>
      /\ place \in Seq(Seq(Pair)) /\ place # <<>> /\ Len(place) = LastNode
      /\ Len(se) + 1 \in Nat /\ Len(se) + 1 > cnt[1]
  BY <1>0, Current
<1>3. loop = FALSE /\ EndOf(se, l, o, loop) = <<T, 0>>
  BY <1>0 DEF Loop, EndOf
<1>4. Lay(bytes, place, S, <<T, 0>>, c, G) /\ T \in Nat /\ T > c
  BY <1>0, <1>2, <1>3
<1>5. /\ k \in Nat /\ TLV_SIZE \in Nat /\ k2 \in Nat \ {0} /\ k + k2 = TLV_SIZE /\ LastNode \in Nat \ {0}
      /\ k < TLV_SIZE
  BY <1>0, WriterBounds DEF Invs
<1>6. S2[T] = TLV_SIZE + len /\ G \subseteq G2 /\ Agree(G, S, S2)
  <2>1. Looped(se, l, o, loop, len, 0)
    BY <1>2, <1>3, Looping
  <2>2. SizesOf(se, len)[Len(se) + 1] = TLV_SIZE + len
    BY <2>1 DEF Looped
  <2>3. Preserves(G, S, G2, S2)
    BY <1>0, <2>1 DEF Looped
  <2> QED BY <1>0, <2>2, <2>3 DEF Preserves
<1>7. Are(bs, T, 0, k) /\ Are(more, T, k, k2)
  <2>1. 0 \in Nat /\ 0 <= k /\ k - 0 = k /\ k <= TLV_SIZE
    BY <1>5
  <2>2. Are(Bytes(T, 0, k), T, 0, k - 0)
    BY <1>4, <1>5, <2>1, BytesAre
  <2>3. Are(Bytes(T, k, TLV_SIZE), T, k, TLV_SIZE - k)
    BY <1>4, <1>5, <2>1, BytesAre
  <2> QED BY <1>0, <2>1, <2>2, <2>3
<1>8. ASSUME NEW j \in Nat, j < TLV_SIZE PROVE <<T, j>> \in Pair /\ << <<T, j>>, <<T, j>> >> \in G2
  <2>1. PICK p : p = <<T, j>>
    OBVIOUS
  <2>2. p \in Pair /\ p[1] = Len(se) + 1 /\ p[2] = j /\ j < TLV_SIZE + 0
    BY <1>0, <1>4, <1>5, <1>8, <2>1 DEF Pair
  <2>3. <<p, p>> \in GoodOf(se, len, 0, TRUE)
    BY <1>2, <2>2, LoopingAdds
  <2> QED BY <1>0, <2>1, <2>2, <2>3
<1>9. Adds(bs, bs, T, 0, k, G2)
  <2>1. ASSUME NEW x \in 1 .. k PROVE <<bs[x], <<T, 0 + x - 1>> >> \in G2
    <3>1. PICK j : j = 0 + x - 1
      OBVIOUS
    <3>2. j \in Nat /\ j < TLV_SIZE
      BY <1>5, <3>1
    <3>3. bs[x] = <<T, j>>
      BY <1>7, <3>1 DEF Are
    <3> QED BY <1>8, <3>1, <3>2, <3>3
  <2> QED BY <1>7, <2>1 DEF Adds, Are
<1>10. Adds(more, more, T, 0 + k, k2, G2)
  <2>0. 0 + k = k
    BY <1>5
  <2>1. ASSUME NEW x \in 1 .. k2 PROVE <<more[x], <<T, k + x - 1>> >> \in G2
    <3>1. PICK j : j = k + x - 1
      OBVIOUS
    <3>2. j \in Nat /\ j < TLV_SIZE
      BY <1>5, <3>1
    <3>3. more[x] = <<T, j>>
      BY <1>7, <3>1 DEF Are
    <3> QED BY <1>8, <3>1, <3>2, <3>3
  <2> QED BY <1>7, <2>0, <2>1 DEF Adds, Are
<1>11. Agree(G2, S2, S2)
  <2>1. \A g \in GoodOf(se, len, 0, TRUE) : SizesOf(se, len)[g[2][1]] \in Nat
    BY <1>2, GoodHas
  <2> QED BY <1>0, <2>1 DEF Agree
<1>12. Then(S2, T, 0, k, <<T, 0>>) = <<T, 0 + k>>
  <2>1. 0 + k < S2[T] /\ (~(k > 0) => 0 + k = 0)
    BY <1>5, <1>6
  <2> QED BY <2>1 DEF Then, After
<1>13. [place EXCEPT ![Len(place)] = @ \o bs][Len(place)] # <<>>
  <2>1. LastNode = Len(place) /\ bs \in Seq(Pair) /\ Len(bs) = k
    BY <1>2, <1>7 DEF Are
  <2>2. place[Len(place)] # <<>> \/ Len(bs) > 0
    <3>1. CASE k > 0
      BY <2>1, <3>1
    <3>2. CASE k = 0
      <4>1. place[LastNode] # <<>>
        BY <1>0, <3>2, RoomOrFull DEF Invs
      <4> QED BY <2>1, <4>1
    <3> QED BY <1>5, <3>1, <3>2
  <2> QED BY <1>2, <2>1, <2>2, NotEmptied
<1>14. LayLink(bytes, place, S, <<T, 0>>, c, G, bs, bs, T, 0, k, more, k2, bytes', place', S2, G2)
  <2>1. 0 \in Nat /\ 0 + k + k2 <= S2[T] /\ S2[T] \in Nat
    BY <1>5, <1>6
  <2> QED BY <1>1, <1>2, <1>4, <1>5, <1>6, <1>9, <1>10, <1>11, <1>12, <1>13, <2>1 DEF LayLink
<1>15. Then(S2, T, 0 + k, k2, Then(S2, T, 0, k, <<T, 0>>)) = EndOf(se, len, 0, yes)
  <2>1. k2 > 0 /\ 0 + k + k2 = TLV_SIZE /\ TLV_SIZE + 0 = TLV_SIZE
    BY <1>5
  <2>2. EndOf(se, len, 0, yes) = After(S2, T, TLV_SIZE, 0)
    BY <1>0 DEF EndOf
  <2> QED BY <2>1, <2>2 DEF Then, After
<1>16. Lay(bytes', place', S2, EndOf(se, len, 0, yes), c, G2)
  BY <1>14, <1>15, LayLinked
<1>17. LastFilled'
  <2>1. PICK s : s = [place EXCEPT ![Len(place)] = @ \o bs]
    OBVIOUS
  <2>2. s \in Seq(Seq(Pair)) /\ bs \in Seq(Pair) /\ more \in Seq(Pair) /\ Len(more) > 0
    <3>1. bs \in Seq(Pair) /\ more \in Seq(Pair) /\ Len(more) > 0
      BY <1>5, <1>7 DEF Are
    <3> QED BY <1>2, <2>1, <3>1, GrownIsSeq
  <2>3. place' = Append(s, more)
    BY <1>1, <1>2, <2>1
  <2>4. place'[Len(place')] = more
    BY <2>2, <2>3
  <2>5. Len(place') = LastNode'
    BY DEF Invs, TypeOK
  <2>6. more # <<>>
    BY <2>2
  <2> QED BY <2>4, <2>5, <2>6 DEF LastFilled
<1>18. yes = Loop' /\ w'.len = len /\ w'.old = 0 /\ cnt'[1] = c
  <2>1. cnt \in Seq(Nat) /\ Len(cnt) = LastNode
    BY DEF Invs, TypeOK
  <2>2. cnt'[1] = cnt[1]
    BY <1>1, <1>5, <2>1
  <2> QED BY <1>0, <2>2 DEF Loop
<1> QED BY <1>0, <1>16, <1>17, <1>18, LaidNext

(* The rest of a value is written, and the TLV complete. *)
LEMMA PartEnds ==
  ASSUME SizesAssumption, Invs, Invs', LayoutInv, CountInv, pc = "value",
         NEW size, size = w.len - w.old, NEW part, NEW for,
         part = Value(Len(sent) + 1, 0, 0 + size), for = Value(Len(sent) + 1, w.old, w.old + size),
         size <= Room, Written(part, for), pc' = "write", Sent(w.len, w.old = 0, FALSE), w' = w
  PROVE  LayoutInv'
<1>0. PICK se, l, o, loop, no, whole, T, a, se2, S, S2, G, G2, c, e :
        /\ se = sent /\ l = w.len /\ o = w.old /\ loop = Loop /\ no = FALSE /\ whole = (w.old = 0)
        /\ T = Len(sent) + 1 /\ a = TLV_SIZE + w.old
        /\ se2 = Append(se, [len |-> l, whole |-> whole, counted |-> no])
        /\ S = SizesOf(se, l) /\ S2 = SizesOf(se2, l)
        /\ G = GoodOf(se, l, o, loop) /\ G2 = GoodOf(se2, l, o, no) /\ c = cnt[1]
        /\ e = EndOf(se, l, o, loop)
  OBVIOUS
<1>1. /\ bytes' = [bytes EXCEPT ![LastNode] = @ \o part] /\ place' = [place EXCEPT ![LastNode] = @ \o for]
      /\ cnt' = cnt /\ sent' = se2 /\ whole \in BOOLEAN /\ no \in BOOLEAN
  BY <1>0 DEF Written, Sent
<1>2. /\ Lay(bytes, place, SizesOf(se, l), EndOf(se, l, o, loop), cnt[1], GoodOf(se, l, o, loop))
      /\ LastFilled /\ se \in Seq(SentType) /\ l \in Nat /\ o \in Nat /\ o <= l
      /\ \A n \in 1 .. Len(place) - 1 : place[n] # <<>>
      /\ place \in Seq(Seq(Pair)) /\ place # <<>> /\ Len(place) = LastNode
      /\ Len(se) + 1 \in Nat /\ Len(se) + 1 > cnt[1]
  BY <1>0, Current
<1>3. loop = TRUE /\ e = After(S, T, TLV_SIZE, o)
  BY <1>0 DEF Loop, EndOf
<1>4. Lay(bytes, place, S, e, c, G) /\ T \in Nat /\ T > c
  BY <1>0, <1>2
<1>5. /\ TLV_SIZE \in Nat /\ size \in Nat /\ a \in Nat /\ size = l - o /\ a + size = TLV_SIZE + l
      /\ Are(part, T, TLV_SIZE, size) /\ Are(for, T, a, size)
  <2>1. size = IF size > Room THEN Room ELSE size
    BY <1>0, <1>2, WriterBounds DEF Invs
  <2>2. size \in Nat /\ Are(part, T, TLV_SIZE, size) /\ Are(for, T, TLV_SIZE + w.old, size)
    BY <1>0, <1>4, <2>1, PartBytes DEF Invs
  <2>3. TLV_SIZE \in Nat
    BY SizesAssumption DEF SizesAssumption
  <2> QED BY SMTT(30), <1>0, <1>2, <2>2, <2>3
<1>a. /\ TLV_SIZE \in Nat /\ size \in Nat /\ a \in Nat /\ TLV_SIZE <= a /\ a = TLV_SIZE + o
      /\ a + size = TLV_SIZE + l /\ (whole => a = TLV_SIZE)
  <2>1. a = TLV_SIZE + o /\ (whole => o = 0)
    BY <1>0
  <2>2. o \in Nat /\ TLV_SIZE \in Nat /\ size \in Nat /\ a \in Nat /\ a + size = TLV_SIZE + l
    BY <1>2, <1>5
  <2> QED BY <2>1, <2>2
<1>6. S[T] = TLV_SIZE + l /\ S2[T] = TLV_SIZE + l /\ G \subseteq G2 /\ Agree(G, S, S2) /\ Len(se2) = T
  <2>1. Completes(se, l, o, loop, l, whole, no, se2, l, o)
    BY <1>0, <1>1, <1>2 DEF Completes
  <2>2. Completed(se, l, o, loop, l, se2, l, o)
    BY <2>1, Completing
  <2>3. Len(se2) = T /\ S2[T] = TLV_SIZE + l
    BY <1>0, <2>2 DEF Completed
  <2>4. Preserves(G, S, G2, S2)
    BY <1>0, <2>2 DEF Completed
  <2>5. SizesOf(se, l)[Len(se) + 1] = TLV_SIZE + l
    BY <1>2, SizesHave
  <2> QED BY <1>0, <2>3, <2>4, <2>5 DEF Preserves
<1>7. Adds(part, for, T, a, size, G2)
  <2>1. ASSUME NEW x \in 1 .. size PROVE <<part[x], <<T, a + x - 1>> >> \in G2
    <3>1. PICK b, p : b = <<T, TLV_SIZE + x - 1>> /\ p = <<T, a + x - 1>>
      OBVIOUS
    <3>2. TLV_SIZE + x - 1 \in Nat /\ a + x - 1 \in Nat /\ a + x - 1 < TLV_SIZE + l
          /\ TLV_SIZE + x - 1 >= TLV_SIZE /\ a + x - 1 >= TLV_SIZE
      BY <1>a
    <3>3. part[x] = b
      BY <1>5, <3>1 DEF Are
    <3>4. b \in Pair /\ p \in Pair /\ b[1] = T /\ p[1] = T /\ b[2] = TLV_SIZE + x - 1 /\ p[2] = a + x - 1
      BY <1>4, <3>1, <3>2 DEF Pair
    <3>5. whole => b = p
      BY <1>a, <3>1
    <3>6. b = p \/ (b[1] = p[1] /\ p[2] >= TLV_SIZE /\ b[2] >= TLV_SIZE /\ ~whole)
      BY <3>2, <3>4, <3>5
    <3>7. p[1] = Len(se) + 1 /\ p[2] < TLV_SIZE + l
      BY <1>0, <3>2, <3>4
    <3>8. <<b, p>> \in GoodOf(se2, l, o, FALSE)
      BY <1>0, <1>1, <1>2, <3>4, <3>6, <3>7, CompletingAdds
    <3> QED BY <1>0, <3>1, <3>3, <3>8
  <2> QED BY <1>5, <2>1 DEF Adds, Are
<1>8. size > 0 => e = <<T, a>>
  <2>1. size > 0 => TLV_SIZE + o < S[T] /\ TLV_SIZE + o = a
    BY <1>0, <1>2, <1>5, <1>6
  <2> QED BY <1>3, <2>1 DEF After
<1>9. LayWrite(bytes, place, S, e, c, G, part, for, T, a, size, bytes', place', S2, c, G2)
  <2>1. a + size <= S2[T] /\ S2[T] \in Nat
    BY <1>2, <1>5, <1>6
  <2> QED BY <1>1, <1>2, <1>4, <1>5, <1>6, <1>7, <1>8, <2>1 DEF LayWrite
<1>10. Then(S2, T, a, size, e) = EndOf(se2, l, o, no)
  <2>1. EndOf(se2, l, o, no) = <<T + 1, 0>>
    BY <1>0, <1>6 DEF EndOf
  <2>2. CASE size > 0
    <3>1. ~(a + size < S2[T])
      BY <1>2, <1>5, <1>6
    <3> QED BY <2>1, <2>2, <3>1 DEF Then, After
  <2>3. CASE ~(size > 0)
    <3>1. ~(TLV_SIZE + o < S[T])
      BY <1>2, <1>5, <1>6, <2>3
    <3> QED BY <1>3, <2>1, <2>3, <3>1 DEF Then, After
  <2> QED BY <2>2, <2>3
<1>11. Lay(bytes', place', S2, EndOf(se2, l, o, no), c, G2)
  BY <1>9, <1>10, LayGrown
<1>12. LastFilled'
  <2>0. for \in Seq(Pair) /\ Len(for) = size
    BY <1>5 DEF Are
  <2>1. LastNode > 1 => place[LastNode] # <<>> \/ Len(for) > 0
    <3>1. o < l => size > 0
      BY <1>2, <1>5
    <3> QED BY <1>0, <1>2, <2>0, <3>1 DEF LastFilled
  <2>2. LastNode' = LastNode /\ Len(place') = LastNode'
    <3>1. Len(place') = Len(place)
      BY <1>1, <1>2, <2>0, GrownIsSeq DEF Grown
    <3>2. Len(place') = LastNode'
      BY DEF Invs, TypeOK
    <3> QED BY <1>2, <3>1, <3>2
  <2>3. LastNode > 1 => place'[LastNode] # <<>>
    BY <1>1, <1>2, <2>0, <2>1, NotEmptied
  <2> QED BY <2>2, <2>3 DEF LastFilled
<1>13. no = Loop' /\ w'.len = l /\ w'.old = o /\ cnt'[1] = c
  BY <1>0, <1>1 DEF Loop
<1> QED BY <1>0, <1>1, <1>11, <1>12, <1>13, LaidNext

(* A part of a value fills the last node, an empty one is linked. *)
LEMMA PartGoesOn ==
  ASSUME SizesAssumption, Invs, Invs', LayoutInv, CountInv, pc = "value",
         NEW size, size = Room, w.len - w.old > Room, NEW part, NEW for,
         part = Value(Len(sent) + 1, 0, 0 + size), for = Value(Len(sent) + 1, w.old, w.old + size),
         Linked(part, for, <<>>), w' = [w EXCEPT !.old = @ + size], sent' = sent, pc' = pc
  PROVE  LayoutInv'
<1>0. PICK se, l, o, o2, loop, T, a, S, G, G2, c, e :
        /\ se = sent /\ l = w.len /\ o = w.old /\ o2 = w.old + size /\ loop = Loop
        /\ T = Len(sent) + 1 /\ a = TLV_SIZE + w.old
        /\ S = SizesOf(se, l)
        /\ G = GoodOf(se, l, o, loop) /\ G2 = GoodOf(se, l, o2, loop) /\ c = cnt[1]
        /\ e = EndOf(se, l, o, loop)
  OBVIOUS
<1>1. /\ bytes' = Append([bytes EXCEPT ![LastNode] = @ \o part], <<>>)
      /\ place' = Append([place EXCEPT ![LastNode] = @ \o for], <<>>)
      /\ cnt' = Append(cnt, 0)
  BY <1>0 DEF Linked
<1>2. /\ Lay(bytes, place, SizesOf(se, l), EndOf(se, l, o, loop), cnt[1], GoodOf(se, l, o, loop))
      /\ LastFilled /\ se \in Seq(SentType) /\ l \in Nat /\ o \in Nat /\ o <= l
      /\ \A n \in 1 .. Len(place) - 1 : place[n] # <<>>
      /\ place \in Seq(Seq(Pair)) /\ place # <<>> /\ Len(place) = LastNode
      /\ Len(se) + 1 \in Nat /\ Len(se) + 1 > cnt[1]
  BY <1>0, Current
<1>3. loop = TRUE /\ e = After(S, T, TLV_SIZE, o)
  BY <1>0 DEF Loop, EndOf
<1>4. Lay(bytes, place, S, e, c, G) /\ T \in Nat /\ T > c
  BY <1>0, <1>2
<1>5. /\ TLV_SIZE \in Nat /\ size \in Nat /\ a \in Nat /\ o2 \in Nat /\ o2 < l /\ o <= o2 /\ a + size = TLV_SIZE + o2
      /\ Are(part, T, TLV_SIZE, size) /\ Are(for, T, a, size)
  <2>1. PICK rest : rest = w.len - w.old
    OBVIOUS
  <2>2. size = IF rest > Room THEN Room ELSE rest
    BY <2>1
  <2>3. size \in Nat /\ Are(part, T, TLV_SIZE, size) /\ Are(for, T, TLV_SIZE + w.old, size)
    BY <1>0, <1>4, <2>1, <2>2, PartBytes DEF Invs
  <2>4. TLV_SIZE \in Nat
    BY SizesAssumption DEF SizesAssumption
  <2>5. Room < l - o /\ o2 = o + size /\ size = Room /\ a = TLV_SIZE + o
    BY <1>0
  <2>6. o \in Nat /\ l \in Nat /\ size \in Nat
    BY <1>2, <2>3
  <2>7. a \in Nat /\ o2 \in Nat /\ o2 < l /\ o <= o2 /\ a + size = TLV_SIZE + o2
    BY <2>4, <2>5, <2>6
  <2>8. Are(for, T, a, size)
    BY <1>0, <2>3
  <2> QED BY <2>3, <2>4, <2>7, <2>8
<1>a. /\ TLV_SIZE \in Nat /\ size \in Nat /\ a \in Nat /\ TLV_SIZE <= a /\ a = TLV_SIZE + o
      /\ a + size = TLV_SIZE + o2
  <2>1. a = TLV_SIZE + o
    BY <1>0
  <2>2. o \in Nat /\ TLV_SIZE \in Nat /\ size \in Nat /\ a \in Nat /\ a + size = TLV_SIZE + o2
    BY <1>2, <1>5
  <2> QED BY <2>1, <2>2
<1>b. TLV_SIZE + o < S[T] /\ TLV_SIZE + o = a
  <2>1. S[T] = TLV_SIZE + l
    BY <1>0, <1>2, SizesHave
  <2>2. o \in Nat /\ o2 \in Nat /\ l \in Nat /\ o <= o2 /\ o2 < l /\ TLV_SIZE \in Nat
    BY <1>2, <1>5
  <2>3. a = TLV_SIZE + o
    BY <1>a
  <2> QED BY <2>1, <2>2, <2>3
<1>6. S[T] = TLV_SIZE + l /\ G \subseteq G2 /\ Agree(G, S, S) /\ Agree(G2, S, S)
  <2>1. Looped(se, l, o, loop, l, o2)
    BY <1>2, <1>5, Looping
  <2>2. SizesOf(se, l)[Len(se) + 1] = TLV_SIZE + l
    BY <1>2, SizesHave
  <2>3. GoodOf(se, l, o2, TRUE) = G2
    BY <1>0, <1>3
  <2>4. Preserves(G, S, G2, S)
    BY <1>0, <2>1, <2>3 DEF Looped
  <2>5. \A g \in GoodOf(se, l, o2, TRUE) : SizesOf(se, l)[g[2][1]] \in Nat
    BY <1>2, <1>5, GoodHas
  <2>6. Agree(G2, S, S)
    BY <1>0, <2>3, <2>5 DEF Agree
  <2> QED BY <1>0, <2>2, <2>4, <2>6 DEF Preserves
<1>7. Adds(part, for, T, a, size, G2)
  <2>1. ASSUME NEW x \in 1 .. size PROVE <<part[x], <<T, a + x - 1>> >> \in G2
    <3>1. PICK b, p : b = <<T, TLV_SIZE + x - 1>> /\ p = <<T, a + x - 1>>
      OBVIOUS
    <3>2. TLV_SIZE + x - 1 \in Nat /\ a + x - 1 \in Nat /\ a + x - 1 < TLV_SIZE + o2
          /\ TLV_SIZE + x - 1 >= TLV_SIZE /\ a + x - 1 >= TLV_SIZE
      BY <1>a
    <3>3. part[x] = b
      BY <1>5, <3>1 DEF Are
    <3>4. b \in Pair /\ p \in Pair /\ b[1] = T /\ p[1] = T /\ b[2] = TLV_SIZE + x - 1 /\ p[2] = a + x - 1
      BY <1>4, <3>1, <3>2 DEF Pair
    <3>5. b[1] = p[1] /\ p[2] >= TLV_SIZE /\ b[2] >= TLV_SIZE
      BY <3>2, <3>4
    <3>6. p[1] = Len(se) + 1 /\ p[2] < TLV_SIZE + o2
      BY <1>0, <3>2, <3>4
    <3>7. <<b, p>> \in GoodOf(se, l, o2, TRUE)
      BY <1>2, <1>5, <3>4, <3>5, <3>6, LoopingAdds
    <3> QED BY <1>0, <1>3, <3>1, <3>3, <3>7
  <2> QED BY <1>5, <2>1 DEF Adds, Are
<1>8. size > 0 => e = <<T, a>>
  BY <1>3, <1>b DEF After
<1>9. [place EXCEPT ![Len(place)] = @ \o for][Len(place)] # <<>>
  <2>1. for \in Seq(Pair) /\ Len(for) = size
    BY <1>5 DEF Are
  <2>2. place[Len(place)] # <<>> \/ Len(for) > 0
    <3>1. CASE size > 0
      BY <2>1, <3>1
    <3>2. CASE size = 0
      BY <1>2, <3>2, RoomOrFull DEF Invs
    <3> QED BY <1>5, <3>1, <3>2
  <2> QED BY <1>2, <2>1, <2>2, NotEmptied
<1>10. LayLink(bytes, place, S, e, c, G, part, for, T, a, size, <<>>, 0, bytes', place', S, G2)
  <2>1. a + size + 0 <= S[T] /\ S[T] \in Nat /\ 0 \in Nat /\ ~(0 > 0)
    BY SMTT(30), <1>2, <1>5, <1>6
  <2>2. Adds(<<>>, <<>>, T, a + size, 0, G2)
    BY DEF Adds, Are
  <2> QED BY <1>1, <1>2, <1>4, <1>5, <1>6, <1>7, <1>8, <1>9, <2>1, <2>2 DEF LayLink
<1>11. Then(S, T, a + size, 0, Then(S, T, a, size, e)) = EndOf(se, l, o2, loop)
  <2>1. EndOf(se, l, o2, loop) = After(S, T, TLV_SIZE, o2) /\ ~(0 > 0)
    BY <1>0, <1>3 DEF EndOf
  <2>2. CASE size > 0
    BY <1>5, <2>1, <2>2 DEF Then, After
  <2>3. CASE size = 0
    <3>1. o2 = o
      BY <1>0, <1>2, <2>3
    <3>2. ~(size > 0)
      BY <2>3
    <3> QED BY <1>3, <2>1, <3>1, <3>2 DEF Then
  <2> QED BY <1>5, <2>2, <2>3
<1>12. Lay(bytes', place', S, EndOf(se, l, o2, loop), c, G2)
  BY <1>10, <1>11, LayLinked
<1>13. w'.len = l /\ w'.old = o2 /\ loop = Loop' /\ cnt'[1] = c
  <2>1. w \in [len : Nat, old : Nat]
    BY DEF Invs, TypeOK
  <2>2. cnt \in Seq(Nat) /\ Len(cnt) = LastNode /\ LastNode \in Nat \ {0}
    BY WriterBounds DEF Invs, TypeOK
  <2>3. cnt'[1] = cnt[1]
    BY <1>1, <2>2
  <2> QED BY <1>0, <2>1, <2>3 DEF Loop
<1>14. LastFilled'
  <2>1. w'.old < w'.len /\ pc' = "value"
    BY <1>5, <1>13
  <2> QED BY <2>1 DEF LastFilled
<1> QED BY <1>0, <1>12, <1>13, <1>14, LaidNext

(* Every write keeps the layout, unless it fails. *)
LEMMA WriteLaid ==
  ASSUME SizesAssumption, Invs, Invs', LayoutInv, CountInv, Write, pc' # "failed"
  PROVE  LayoutInv'
<1>0. TypeOK /\ FullButLast
  BY DEF Invs
<1>1. ASSUME NEW len \in Lens, nifo_tlv_alloc(len) PROVE LayoutInv'
  <2>1. LastNode = 1 /\ len \in Nat
    BY <1>0, <1>1, AllocInHead
  <2>2. WritesWhole(len, TRUE)
    <3>1. PICK tlv, ln : tlv = Bytes(Len(sent) + 1, 0, TLV_SIZE + len) /\ ln = LastNode
      OBVIOUS
    <3>2. ln = 1 /\ ~(ln > 1)
      BY <2>1, <3>1
    <3>3. /\ bytes' = [bytes EXCEPT ![1] = @ \o tlv] /\ place' = [place EXCEPT ![1] = @ \o tlv]
          /\ pc = "write" /\ pc' = "write" /\ w' = w /\ Sent(len, TRUE, TRUE)
      BY <1>1, <3>1 DEF nifo_tlv_alloc
    <3> QED BY <3>1, <3>2, <3>3 DEF WritesWhole
  <2> QED BY <2>1, <2>2, WholeLaid
<1>2. ASSUME NEW len \in Lens, nifo_copy_tlv_cont(len) PROVE LayoutInv'
  <2>1. pc = "write" /\ len \in Nat
    BY <1>2 DEF nifo_copy_tlv_cont, SizesAssumption
  <2>2. CASE CopyWhole(len)
    <3>1. WritesWhole(len, FALSE)
      BY <2>1, <2>2 DEF CopyWhole, Written, WritesWhole
    <3> QED BY <2>1, <3>1, WholeLaid
  <2>3. CASE CopyHeader(len)
    BY <2>1, <2>3, HeaderLaid
  <2>4. CASE CopySplit(len)
    <3>1. PICK bs, more : bs = Bytes(Len(sent) + 1, 0, Room) /\ more = Bytes(Len(sent) + 1, Room, TLV_SIZE)
      OBVIOUS
    <3>2. Room < TLV_SIZE /\ Linked(bs, bs, more) /\ w' = [len |-> len, old |-> 0] /\ pc' = "value"
          /\ sent' = sent
      BY <2>4, <3>1 DEF CopySplit, Fail
    <3> QED BY <2>1, <3>1, <3>2, SplitLaid
  <2> QED BY <1>2, <2>2, <2>3, <2>4 DEF nifo_copy_tlv_cont
<1>3. CASE CopyPart
  <2>1. pc = "value"
    BY <1>3 DEF CopyPart
  <2>2. PICK rest, size, part, for :
          /\ rest = w.len - w.old /\ size = IF rest > Room THEN Room ELSE rest
          /\ part = Value(Len(sent) + 1, 0, 0 + size)
          /\ for = Value(Len(sent) + 1, w.old, w.old + size)
    OBVIOUS
  <2>3. \/ rest <= Room /\ Written(part, for) /\ pc' = "write" /\ Sent(w.len, w.old = 0, FALSE) /\ w' = w
        \/ /\ rest > Room /\ Linked(part, for, <<>>) /\ w' = [w EXCEPT !.old = @ + size]
           /\ sent' = sent /\ pc' = pc
        \/ pc' = "failed"
    BY <1>3, <2>2 DEF CopyPart, CopiedFrom, Fail
  <2>4. Room \in Nat /\ rest \in Nat
    BY <1>0, <2>2, WriterBounds DEF Invs
  <2>5. CASE rest <= Room /\ Written(part, for) /\ pc' = "write" /\ Sent(w.len, w.old = 0, FALSE) /\ w' = w
    <3>1. size = w.len - w.old /\ size <= Room
      BY <2>2, <2>4, <2>5
    <3> QED BY <2>1, <2>2, <2>5, <3>1, PartEnds
  <2>6. CASE /\ rest > Room /\ Linked(part, for, <<>>) /\ w' = [w EXCEPT !.old = @ + size]
             /\ sent' = sent /\ pc' = pc
    <3>1. size = Room /\ w.len - w.old > Room
      BY <2>2, <2>6
    <3> QED BY <2>1, <2>2, <2>6, <3>1, PartGoesOn
  <2> QED BY <2>3, <2>5, <2>6
<1> QED BY <1>1, <1>2, <1>3 DEF Write

-----------------------------------------------------------------------------
(* A fresh message *)

LEMMA FreshOrder ==
  ASSUME NEW pl, pl = << <<>> >>, NEW S, NEW e, e = <<1, 0>>
  PROVE  InOrder(pl, S, e)
<1>1. Len(pl) = 1 /\ Len(pl[1]) = 0 /\ 1 .. Len(pl[1]) = {}
  OBVIOUS
<1>2. \A n \in 1 .. Len(pl) : n = 1
  BY <1>1
<1>3. Here(pl, e, 1, 1) = <<1, 0>>
  BY <1>1 DEF Here
<1> QED BY <1>1, <1>2, <1>3 DEF InOrder

LEMMA InitIInv == ASSUME SizesAssumption, Init PROVE IInv
<1>1. TypeOK /\ FullButLast /\ w.old <= w.len
  BY InitInvs DEF Invs
<1>2. /\ lastoffset = <<NIFO_SIZE>> /\ cnt = <<0>> /\ place = << <<>> >> /\ sent = <<>> /\ got = <<>>
      /\ pc = "write"
  BY DEF Init
<1>3. ReadsInOrder /\ GetsCounted
  BY <1>2 DEF ReadsInOrder, GetsCounted
<1>4. LastNode = 1 /\ cnt[1] = 0 /\ Len(sent) = 0
  BY <1>2 DEF LastNode
<1>5. CountInv
  <2>1. Counted = {}
    BY <1>4 DEF Counted
  <2>2. Cardinality(Counted) = 0
    BY <2>1, FS_EmptySet
  <2> QED BY <1>4, <2>2 DEF CountInv
<1>6. LayoutInv
  <2>1. End = <<1, 0>>
    BY <1>2, <1>4 DEF End
  <2>2. InOrder(place, Sizes, End)
    BY <1>2, <2>1, FreshOrder
  <2>3. \A n \in 1 .. LastNode : 1 .. Len(place[n]) = {}
    BY <1>2, <1>4
  <2> QED BY <1>4, <2>2, <2>3 DEF LayoutInv
<1> QED BY <1>1, <1>2, <1>3, <1>5, <1>6 DEF IInv

-----------------------------------------------------------------------------
(* The reader *)

(* It leaves the layout as it is. *)
LEMMA ReaderLeaves ==
  ASSUME UNCHANGED <<nodes, sent, w>>, pc' = pc \/ (pc # "value" /\ pc' # "value")
  PROVE  /\ LayoutInv => LayoutInv'
         /\ CountInv => CountInv'
         /\ Sizes' = Sizes /\ End' = End
<1>1. /\ lastoffset' = lastoffset /\ cnt' = cnt /\ bytes' = bytes /\ place' = place /\ sent' = sent
      /\ w' = w /\ LastNode' = LastNode
  BY DEF nodes, LastNode
<1>2. Sizes' = Sizes /\ End' = End /\ Counted' = Counted
  BY <1>1 DEF Sizes, End, Counted
<1>3. CountInv => CountInv'
  BY <1>1, <1>2 DEF CountInv
<1>4. ASSUME LayoutInv PROVE LayoutInv'
  <2>1. InOrder(place', Sizes', End')
    BY <1>1, <1>2, <1>4 DEF LayoutInv
  <2>2. ASSUME NEW n \in 1 .. LastNode', NEW i \in 1 .. Len(place'[n])
        PROVE  /\ Known(place[n][i])' /\ Stands(bytes[n][i], place[n][i])'
               /\ n > 1 => place'[n][i][1] > cnt'[1]
    <3>1. Known(place[n][i]) /\ Stands(bytes[n][i], place[n][i]) /\ (n > 1 => place[n][i][1] > cnt[1])
      BY <1>1, <1>4 DEF LayoutInv
    <3>2. Known(place[n][i])'
      BY <1>1, <1>2, <3>1 DEF Known
    <3>3. Stands(bytes[n][i], place[n][i])'
      BY <1>1, <3>1 DEF Stands
    <3> QED BY <1>1, <3>1, <3>2, <3>3
  <2> QED BY <1>1, <1>4, <2>1, <2>2 DEF LayoutInv
<1> QED BY <1>2, <1>3, <1>4

(* What it has of TLV T: the first m bytes of its header, or of its value. *)
Base(p) == IF p = "head" THEN 0 ELSE TLV_SIZE
Total(p, T) == IF p = "head" THEN TLV_SIZE ELSE sent[T].len
Has(buf, p, T, m) ==
  /\ buf \in Seq(Pair) /\ Len(buf) = m
  /\ p = "head" => Are(buf, T, 0, m)
  /\ p = "body" => /\ \A k \in 1 .. m : buf[k][1] = T /\ buf[k][2] >= TLV_SIZE
                   /\ sent[T].whole => Are(buf, T, TLV_SIZE, m)
(* ReaderInv, of reader s in phase p. *)
Stood(s, p, T, m) ==
  /\ T \in 1 .. Len(sent) /\ m \in Nat /\ s.need \in Nat /\ m + s.need = Total(p, T)
  /\ s.off <= lastoffset[s.node]
  /\ Here(place, End, s.node, s.off - NIFO_SIZE + 1) = After(Sizes, T, Base(p), m)
  /\ Has(s.buf, p, T, m)
  /\ p = "body" => s.tlv = T
  /\ s.by = "get" => s.node = 1 /\ s.i = T - 1 /\ T <= cnt[1]

LEMMA AreSame ==
  ASSUME NEW s, NEW s2, NEW t, NEW a, NEW k, Are(s, t, a, k), Are(s2, t, a, k)
  PROVE  s = s2
<1>1. s \in Seq(Pair) /\ s2 \in Seq(Pair) /\ Len(s) = k /\ Len(s2) = k /\ \A x \in 1 .. k : s[x] = s2[x]
  BY DEF Are
<1> QED BY <1>1, SeqEqual

LEMMA ReaderIs ==
  ASSUME SizesAssumption, TypeOK, ReaderInv, pc \in {"head", "body"}
  PROVE  \E T, m : T = Len(got) + 1 /\ Stood(r, pc, T, m)
<1>1. PICK T, n, m : T = Len(got) + 1 /\ n = (IF pc = "head" THEN TLV_SIZE ELSE sent[T].len) /\ m = n - r.need
  OBVIOUS
<1>2. /\ T <= Len(sent) /\ r.need <= n /\ Len(r.buf) = m
      /\ r.off <= lastoffset[r.node]
      /\ Here(place, End, r.node, r.off - NIFO_SIZE + 1) =
           After(Sizes, T, IF pc = "head" THEN 0 ELSE TLV_SIZE, m)
      /\ pc = "head" => r.buf = Bytes(T, 0, m)
      /\ pc = "body" =>
           /\ r.tlv = T
           /\ \A k \in 1 .. Len(r.buf) : r.buf[k][1] = T /\ r.buf[k][2] >= TLV_SIZE
           /\ sent[T].whole => r.buf = Value(T, 0, m)
      /\ r.by = "get" => r.node = 1 /\ r.i = Len(got) /\ Len(got) < cnt[1]
  BY <1>1 DEF ReaderInv
<1>3. /\ r \in Readers /\ Len(got) \in Nat /\ Len(sent) \in Nat /\ sent \in Seq(SentType)
      /\ cnt \in Seq(Nat) /\ Len(cnt) = LastNode /\ LastNode \in Nat \ {0}
  <2>1. r \in Readers
    BY TypeParts
  <2> QED BY SMTT(30), <2>1 DEF TypeOK, SentType, LastNode
<1>4. /\ r.buf \in Seq(Pair) /\ r.need \in Nat /\ r.i \in Nat /\ T \in 1 .. Len(sent) /\ TLV_SIZE \in Nat
      /\ cnt[1] \in Nat
  BY SMTT(30), <1>1, <1>2, <1>3 DEF Readers, SizesAssumption
<1>5. n \in Nat /\ m \in Nat /\ m + r.need = n
  <2>1. sent[T] \in SentType
    BY <1>3, <1>4, ElementOfSeq
  <2>2. n \in Nat
    BY <1>1, <1>4, <2>1 DEF SentType
  <2> QED BY <1>1, <1>2, <1>4, <2>2
<1>6. Are(Bytes(T, 0, m), T, 0, m) /\ Are(Value(T, 0, m), T, TLV_SIZE, m)
  <2>1. PICK z, b, b2 : z = 0 /\ b = TLV_SIZE + 0 /\ b2 = TLV_SIZE + m
    OBVIOUS
  <2>2. /\ z \in Nat /\ b \in Nat /\ b2 \in Nat /\ b = TLV_SIZE /\ z <= m /\ b <= b2 /\ T \in Nat
        /\ m - z = m /\ b2 - b = m
    BY <1>3, <1>4, <1>5, <2>1
  <2>3. Are(Bytes(T, z, m), T, z, m - z) /\ Are(Bytes(T, b, b2), T, b, b2 - b)
    BY <1>5, <2>2, BytesAre
  <2> QED BY <2>1, <2>2, <2>3 DEF Value
<1>7. Has(r.buf, pc, T, m)
  BY <1>2, <1>4, <1>6 DEF Has
<1>8. r.by = "get" => r.node = 1 /\ r.i = T - 1 /\ T <= cnt[1]
  BY <1>1, <1>2, <1>3, <1>4
<1>9. Total(pc, T) = n /\ Base(pc) = (IF pc = "head" THEN 0 ELSE TLV_SIZE)
  BY <1>1 DEF Total, Base
<1>10. Stood(r, pc, T, m)
  BY <1>2, <1>4, <1>5, <1>7, <1>8, <1>9 DEF Stood
<1> QED BY <1>1, <1>10

(* The other way round, of the next state. *)
LEMMA ReaderIsNext ==
  ASSUME SizesAssumption, cnt[1] \in Nat, UNCHANGED <<nodes, sent, w>>,
         pc # "value", pc' \in {"head", "body"},
         NEW g \in Nat, g = Len(got'), NEW T, T = g + 1, NEW m, NEW s, s = r', NEW p, p = pc', Stood(s, p, T, m)
  PROVE  ReaderInv'
<1>1. /\ cnt' = cnt /\ place' = place /\ sent' = sent /\ lastoffset' = lastoffset
      /\ Sizes' = Sizes /\ End' = End
  BY ReaderLeaves DEF nodes
<1>2. PICK n : n = Total(p, T)
  OBVIOUS
<1>3. /\ T \in 1 .. Len(sent) /\ m \in Nat /\ s.need \in Nat /\ m + s.need = n
      /\ s.off <= lastoffset[s.node]
      /\ Here(place, End, s.node, s.off - NIFO_SIZE + 1) = After(Sizes, T, Base(p), m)
      /\ Has(s.buf, p, T, m)
      /\ p = "body" => s.tlv = T
      /\ s.by = "get" => s.node = 1 /\ s.i = T - 1 /\ T <= cnt[1]
  BY <1>2 DEF Stood
<1>4. TLV_SIZE \in Nat
  BY DEF SizesAssumption
<1>5. n \in Nat /\ m = n - s.need /\ s.need <= n
  <2>1. PICK k : k = s.need
    OBVIOUS
  <2>2. k \in Nat /\ m \in Nat /\ m + k = n
    BY <1>3, <2>1
  <2>3. n \in Nat /\ m = n - k /\ k <= n
    BY <2>2
  <2> QED BY <2>1, <2>3
<1>6. Are(Bytes(T, 0, m), T, 0, m) /\ Are(Value(T, 0, m), T, TLV_SIZE, m)
  <2>1. PICK z, b, b2 : z = 0 /\ b = TLV_SIZE + 0 /\ b2 = TLV_SIZE + m
    OBVIOUS
  <2>2. /\ z \in Nat /\ b \in Nat /\ b2 \in Nat /\ b = TLV_SIZE /\ z <= m /\ b <= b2 /\ T \in Nat
        /\ m - z = m /\ b2 - b = m
    BY <1>3, <1>4, <2>1
  <2>3. Are(Bytes(T, z, m), T, z, m - z) /\ Are(Bytes(T, b, b2), T, b, b2 - b)
    BY <1>3, <2>2, BytesAre
  <2> QED BY <2>1, <2>2, <2>3 DEF Value
<1>7. /\ Len(s.buf) = m
      /\ p = "head" => s.buf = Bytes(T, 0, m)
      /\ p = "body" => /\ \A k \in 1 .. Len(s.buf) : s.buf[k][1] = T /\ s.buf[k][2] >= TLV_SIZE
                       /\ sent[T].whole => s.buf = Value(T, 0, m)
  <2>1. /\ Len(s.buf) = m
        /\ p = "head" => Are(s.buf, T, 0, m)
        /\ p = "body" => /\ \A k \in 1 .. m : s.buf[k][1] = T /\ s.buf[k][2] >= TLV_SIZE
                         /\ sent[T].whole => Are(s.buf, T, TLV_SIZE, m)
    BY <1>3 DEF Has
  <2>2. p = "head" => s.buf = Bytes(T, 0, m)
    BY <1>6, <2>1, AreSame
  <2>3. p = "body" /\ sent[T].whole => s.buf = Value(T, 0, m)
    BY <1>6, <2>1, AreSame
  <2> QED BY <2>1, <2>2, <2>3
<1>8. /\ n = IF p = "head" THEN TLV_SIZE ELSE sent[T].len
      /\ Base(p) = IF p = "head" THEN 0 ELSE TLV_SIZE
  BY <1>2 DEF Total, Base
<1>9. T <= Len(sent) /\ (s.by = "get" => s.node = 1 /\ s.i = g /\ g < cnt[1] /\ T = g + 1)
  <2>1. T - 1 = g
    OBVIOUS
  <2>2. T <= cnt[1] => g < cnt[1]
    <3>1. ASSUME T <= cnt[1] PROVE g < cnt[1]
      BY <3>1
    <3> QED BY <3>1
  <2>3. T <= Len(sent)
    BY <1>3
  <2> QED BY <1>3, <2>1, <2>2, <2>3
<1> QED BY <1>1, <1>3, <1>5, <1>7, <1>8, <1>9 DEF ReaderInv

LEMMA ByteInNode ==
  ASSUME NEW h \in Nat, NEW o \in Nat, h <= o, NEW L \in Nat, NEW k \in Nat, NEW x \in 1 .. k,
         NEW i, i = o - h + 1, i + k <= L + 1, NEW a, a = o + x - 1, NEW b, b = i + x - 1
  PROVE  a < h + L /\ a - h + 1 = b /\ b \in 1 .. L
OBVIOUS

(* The next k bytes of the node are those it needs. *)
Follow(T, m, n, i, j, k) ==
  /\ Stood(r, pc, T, m) /\ pc \in {"head", "body"}
  /\ n = r.node /\ i = r.off - NIFO_SIZE + 1 /\ j = Base(pc) + m
  /\ k \in Nat /\ k <= r.need /\ i + k <= Len(place[n]) + 1
  /\ \A x \in 1 .. k : place[n][i + x - 1] = <<T, j + x - 1>>

(* What it has when it has taken k bytes more. *)
LEMMA HasMore ==
  ASSUME SizesAssumption, TypeOK, LayoutInv, NEW T, NEW m, NEW n, NEW i, NEW j, NEW k,
         Follow(T, m, n, i, j, k), NEW buf, buf = Taken(k)
  PROVE  Has(buf, pc, T, m + k)
<1>0. /\ Stood(r, pc, T, m) /\ pc \in {"head", "body"}
      /\ n = r.node /\ i = r.off - NIFO_SIZE + 1 /\ j = Base(pc) + m
      /\ k \in Nat /\ k <= r.need /\ i + k <= Len(place[n]) + 1
      /\ \A x \in 1 .. k : place[n][i + x - 1] = <<T, j + x - 1>>
  BY DEF Follow
<1>1. /\ T \in 1 .. Len(sent) /\ m \in Nat /\ r.need \in Nat /\ m + r.need = Total(pc, T)
      /\ Has(r.buf, pc, T, m)
  BY <1>0 DEF Stood
<1>2. /\ r.node \in 1 .. LastNode /\ r.off \in Nat /\ NIFO_SIZE <= r.off /\ NIFO_SIZE \in Nat /\ TLV_SIZE \in Nat
      /\ Len(sent) \in Nat /\ Len(place) = LastNode /\ Len(place[n]) \in Nat
      /\ lastoffset[n] = NIFO_SIZE + Len(place[n])
  <2>1. r \in Readers
    BY TypeParts
  <2>2. LastNode \in Nat /\ n \in 1 .. LastNode /\ r.off \in NIFO_SIZE .. BODY_SIZE
    BY <1>0, <2>1 DEF Readers, TypeOK, LastNode
  <2>3. /\ Len(sent) \in Nat /\ Len(place) = LastNode /\ Len(place[n]) \in Nat
        /\ NIFO_SIZE + Len(place[n]) = lastoffset[n]
    <3>1. NodesOK
      BY NodesTyped
    <3>2. Len(place) = LastNode /\ place[n] \in Seq(Pair)
      BY <2>2, <3>1 DEF NodesOK, Filled, LastNode
    <3>3. NIFO_SIZE + Len(place[n]) = lastoffset[n]
      BY <2>2, <3>1 DEF NodesOK, Filled, LastNode
    <3>4. Len(sent) \in Nat
      BY DEF TypeOK
    <3> QED BY <3>2, <3>3, <3>4
  <2> QED BY <1>0, <2>2, <2>3 DEF SizesAssumption
<1>3. /\ buf \in Seq(Pair) /\ Len(buf) = m + k
      /\ \A x \in 1 .. m : buf[x] = r.buf[x]
      /\ \A x \in 1 .. k : buf[m + x] = At(n, r.off + x - 1)
  <2>1. Len(r.buf) = m
    BY <1>1 DEF Has
  <2> QED BY <1>0, <2>1, TakenHas
<1>4. ASSUME NEW x \in 1 .. k PROVE Stands(buf[m + x], <<T, j + x - 1>>)
  <2>1. PICK a, b : a = r.off + x - 1 /\ b = i + x - 1
    OBVIOUS
  <2>2. a < lastoffset[n] /\ a - NIFO_SIZE + 1 = b /\ b \in 1 .. Len(place[n])
    <3>1. PICK o, L : o = r.off /\ L = Len(place[n])
      OBVIOUS
    <3>2. /\ o \in Nat /\ L \in Nat /\ NIFO_SIZE \in Nat /\ NIFO_SIZE <= o /\ lastoffset[n] = NIFO_SIZE + L
          /\ i = o - NIFO_SIZE + 1 /\ i + k <= L + 1 /\ a = o + x - 1 /\ b = i + x - 1
      BY <1>0, <1>2, <2>1, <3>1
    <3>3. a < NIFO_SIZE + L /\ a - NIFO_SIZE + 1 = b /\ b \in 1 .. L
      <4>1. k \in Nat /\ x \in 1 .. k
        BY <1>0
      <4> QED BY <3>2, <4>1, ByteInNode
    <3> QED BY <3>1, <3>2, <3>3
  <2>3. At(n, a) = bytes[n][b]
    BY <2>2 DEF At
  <2>4. Stands(bytes[n][b], place[n][b])
    BY <1>0, <1>2, <2>2 DEF LayoutInv
  <2> QED BY <1>0, <1>3, <2>1, <2>3, <2>4
<1>5. \A y \in 1 .. m + k : y \in 1 .. m \/ \E x \in 1 .. k : y = m + x
  <2>1. ASSUME NEW y \in 1 .. m + k, ~(y \in 1 .. m) PROVE y - m \in 1 .. k /\ y = m + (y - m)
    BY <1>0, <1>1, <2>1
  <2> QED BY <2>1
<1>6. CASE pc = "head"
  <2>1. j = m /\ Are(r.buf, T, 0, m) /\ m + r.need = TLV_SIZE
    <3>1. Base(pc) = 0 /\ Total(pc, T) = TLV_SIZE
      BY <1>6 DEF Base, Total
    <3> QED BY <1>0, <1>1, <1>6, <3>1 DEF Has
  <2>2. ASSUME NEW x \in 1 .. k PROVE buf[m + x] = <<T, 0 + (m + x) - 1>>
    <3>1. PICK p, q : p = <<T, j + x - 1>> /\ q = j + x - 1
      OBVIOUS
    <3>2. q < TLV_SIZE /\ q = 0 + (m + x) - 1
      BY <1>0, <1>1, <1>2, <2>1, <3>1
    <3>3. p[2] < TLV_SIZE
      BY <3>1, <3>2
    <3>4. buf[m + x] = p
      BY <1>4, <3>1, <3>3 DEF Stands
    <3> QED BY <3>1, <3>2, <3>4
  <2>3. \A y \in 1 .. m : buf[y] = <<T, 0 + y - 1>>
    BY <1>3, <2>1 DEF Are
  <2>4. \A y \in 1 .. m + k : buf[y] = <<T, 0 + y - 1>>
    BY <1>5, <2>2, <2>3
  <2> QED BY <1>3, <1>6, <2>4 DEF Has, Are
<1>7. CASE pc = "body"
  <2>1. /\ j = TLV_SIZE + m /\ \A y \in 1 .. m : r.buf[y][1] = T /\ r.buf[y][2] >= TLV_SIZE
        /\ sent[T].whole => Are(r.buf, T, TLV_SIZE, m)
    BY <1>0, <1>1, <1>7 DEF Base, Has
  <2>2. ASSUME NEW x \in 1 .. k
        PROVE  /\ buf[m + x][1] = T /\ buf[m + x][2] >= TLV_SIZE
               /\ sent[T].whole => buf[m + x] = <<T, TLV_SIZE + (m + x) - 1>>
    <3>1. PICK p, q : p = <<T, q>> /\ q = j + x - 1
      OBVIOUS
    <3>2. q >= TLV_SIZE /\ q = TLV_SIZE + (m + x) - 1
      <4>1. /\ k \in Nat /\ x \in 1 .. k /\ m \in Nat /\ TLV_SIZE \in Nat /\ j = TLV_SIZE + m
            /\ q = j + x - 1
        BY <1>0, <1>1, <1>2, <2>1, <3>1
      <4> QED BY <4>1
    <3>3. p[1] = T /\ p[2] >= TLV_SIZE
      BY <3>1, <3>2
    <3>4. Stands(buf[m + x], p)
      BY <1>4, <3>1
    <3>5. T <= Len(sent)
      BY <1>1
    <3> QED BY <3>1, <3>2, <3>3, <3>4, <3>5 DEF Stands
  <2>3. \A y \in 1 .. m : /\ buf[y][1] = T /\ buf[y][2] >= TLV_SIZE
                          /\ sent[T].whole => buf[y] = <<T, TLV_SIZE + y - 1>>
    BY <1>3, <2>1 DEF Are
  <2>4. \A y \in 1 .. m + k : /\ buf[y][1] = T /\ buf[y][2] >= TLV_SIZE
                              /\ sent[T].whole => buf[y] = <<T, TLV_SIZE + y - 1>>
    BY <1>5, <2>2, <2>3
  <2> QED BY <1>3, <1>7, <2>4 DEF Has, Are
<1> QED BY <1>0, <1>6, <1>7

(* What the node it stands in has. *)
LEMMA NodeHas ==
  ASSUME SizesAssumption, TypeOK, NEW n, n \in 1 .. LastNode
  PROVE  /\ LastNode \in Nat \ {0} /\ place \in Seq(Seq(Pair)) /\ Len(place) = LastNode
         /\ place[n] \in Seq(Pair) /\ Len(place[n]) \in Nat /\ NIFO_SIZE + Len(place[n]) = lastoffset[n]
         /\ lastoffset[n] \in Nat /\ NIFO_SIZE <= lastoffset[n] /\ lastoffset[n] <= BODY_SIZE
<1>1. NodesOK /\ LastNode \in Nat \ {0} /\ lastoffset[n] \in NIFO_SIZE .. BODY_SIZE
  <2>1. NodesOK /\ lastoffset \in Seq(NIFO_SIZE .. BODY_SIZE) /\ lastoffset # <<>>
    BY TypeParts
  <2>2. Len(lastoffset) \in Nat \ {0} /\ n \in 1 .. Len(lastoffset)
    BY <2>1 DEF LastNode
  <2> QED BY <2>1, <2>2, ElementOfSeq DEF LastNode
<1>2. place \in Seq(Seq(Pair)) /\ Len(place) = LastNode /\ place[n] \in Seq(Pair)
      /\ NIFO_SIZE + Len(place[n]) = lastoffset[n]
  BY <1>1 DEF NodesOK, Filled, LastNode
<1> QED BY <1>1, <1>2 DEF SizesAssumption

(* A TLV is its header and its value. *)
LEMMA TotalEnds ==
  ASSUME SizesAssumption, TypeOK, NEW p \in {"head", "body"}, NEW T \in 1 .. Len(sent)
  PROVE  /\ Sizes[T] \in Nat /\ Base(p) \in Nat /\ Total(p, T) \in Nat /\ Base(p) + Total(p, T) <= Sizes[T]
         /\ sent[T].len \in Nat /\ Sizes[T] = TLV_SIZE + sent[T].len
<1>1. TLV_SIZE \in Nat /\ sent[T].len \in Nat /\ Len(sent) \in Nat
  <2>1. sent \in Seq(SentType)
    BY TypeParts DEF SentType
  <2>2. sent[T] \in SentType
    BY <2>1, ElementOfSeq
  <2> QED BY <2>1, <2>2 DEF SentType, SizesAssumption
<1>2. T \in 1 .. Len(sent) + 1 /\ T <= Len(sent)
  BY <1>1
<1>3. Sizes[T] = TLV_SIZE + sent[T].len
  BY <1>2 DEF Sizes
<1>4. \/ Base(p) = 0 /\ Total(p, T) = TLV_SIZE
      \/ Base(p) = TLV_SIZE /\ Total(p, T) = sent[T].len
  BY DEF Base, Total
<1> QED BY <1>1, <1>3, <1>4

(* What it needs is what is ahead of it. *)
LEMMA StoodAhead ==
  ASSUME SizesAssumption, TypeOK, LayoutInv, NEW T, NEW m, NEW p \in {"head", "body"}, p = pc, Stood(r, p, T, m),
         NEW n, n = r.node, NEW i, i = r.off - NIFO_SIZE + 1, NEW j, j = Base(p) + m,
         NEW need, need = r.need, need > 0
  PROVE  /\ Ahead(place, Sizes, End, n, i, T, j, need)
         /\ T \in 1 .. Len(sent) /\ m \in Nat /\ need \in Nat /\ m + need = Total(p, T)
<1>1. /\ T \in 1 .. Len(sent) /\ m \in Nat /\ need \in Nat /\ m + need = Total(p, T)
      /\ r.off <= lastoffset[n]
      /\ Here(place, End, n, i) = After(Sizes, T, Base(p), m)
  BY DEF Stood
<1>2. n \in 1 .. LastNode /\ r.off \in Nat /\ NIFO_SIZE <= r.off
  <2>1. r \in Readers
    BY TypeParts
  <2> QED BY <2>1 DEF Readers, SizesAssumption
<1>3. /\ Sizes[T] \in Nat /\ Base(p) \in Nat /\ Base(p) + Total(p, T) <= Sizes[T] /\ Total(p, T) \in Nat
  BY <1>1, TotalEnds
<1>4. j \in Nat /\ j + need <= Sizes[T] /\ j < Sizes[T] /\ need \in Nat \ {0}
  BY <1>1, <1>3
<1>5. Here(place, End, n, i) = <<T, j>>
  BY <1>1, <1>4 DEF After
<1>6. End[1] = Len(sent) + 1 /\ T # End[1] /\ T \in Nat
  <2>1. End = <<Len(sent) + 1, 0>>
    BY DEF End
  <2>2. Len(sent) \in Nat
    BY DEF TypeOK
  <2> QED BY <1>1, <2>1, <2>2
<1>7. /\ place \in Seq(Seq(Pair)) /\ Len(place) = LastNode /\ LastNode \in Nat \ {0}
      /\ Len(place[n]) \in Nat /\ NIFO_SIZE + Len(place[n]) = lastoffset[n]
  BY <1>2, NodeHas
<1>8. i \in 1 .. Len(place[n]) + 1
  <2>1. PICK o, L : o = r.off /\ L = Len(place[n])
    OBVIOUS
  <2>2. /\ o \in Nat /\ L \in Nat /\ NIFO_SIZE \in Nat /\ NIFO_SIZE <= o /\ o <= NIFO_SIZE + L
        /\ i = o - NIFO_SIZE + 1
    BY <1>1, <1>2, <1>7, <2>1 DEF SizesAssumption
  <2>3. i \in 1 .. L + 1
    BY <2>2
  <2> QED BY <2>1, <2>3
<1>9. n \in 1 .. Len(place)
  BY <1>2, <1>7
<1>10. InOrder(place, Sizes, End)
  BY DEF LayoutInv
<1> QED BY <1>1, <1>3, <1>4, <1>5, <1>6, <1>7, <1>8, <1>9, <1>10 DEF Ahead

(* The reader has taken k more bytes of TLV T and stands at offset o of node n2. *)
LEMMA MoreStood ==
  ASSUME NEW T, NEW m, NEW p, Stood(r, p, T, m), NEW k \in Nat, k <= r.need, NEW s, NEW n2, NEW o,
         s = [r EXCEPT !.node = n2, !.off = o, !.need = r.need - k, !.buf = Taken(k)], r \in Readers,
         Has(Taken(k), p, T, m + k), o <= lastoffset[n2],
         Here(place, End, n2, o - NIFO_SIZE + 1) = After(Sizes, T, Base(p), m + k),
         r.by = "get" => n2 = 1
  PROVE  Stood(s, p, T, m + k)
<1>1. /\ T \in 1 .. Len(sent) /\ m \in Nat /\ r.need \in Nat /\ m + r.need = Total(p, T)
      /\ p = "body" => r.tlv = T
      /\ r.by = "get" => r.node = 1 /\ r.i = T - 1 /\ T <= cnt[1]
  BY DEF Stood
<1>2. /\ s.node = n2 /\ s.off = o /\ s.need = r.need - k /\ s.buf = Taken(k)
      /\ s.tlv = r.tlv /\ s.by = r.by /\ s.i = r.i
  BY DEF Readers
<1>3. m + k \in Nat /\ s.need \in Nat /\ (m + k) + s.need = Total(p, T)
  <2>1. PICK need, need2 : need = r.need /\ need2 = s.need
    OBVIOUS
  <2>2. need \in Nat /\ need2 = need - k /\ k <= need /\ m \in Nat /\ m + need = Total(p, T)
    BY <1>1, <1>2, <2>1
  <2>3. m + k \in Nat /\ need2 \in Nat /\ (m + k) + need2 = Total(p, T)
    BY <2>2
  <2> QED BY <2>1, <2>3
<1> QED BY <1>1, <1>2, <1>3 DEF Stood

(* A turn of the loop takes the next bytes of the TLV, on to the next node. *)
LEMMA PartTaken ==
  ASSUME SizesAssumption, TypeOK, FullButLast, LayoutInv, CountInv, ReadPart,
         NEW T, NEW m, NEW p \in {"head", "body"}, p = pc, Stood(r, p, T, m)
  PROVE  \E m2 : Stood(r', p, T, m2)
<1>0. PICK n, o, i, j, need, L, rest, lo, base, size :
        /\ lo = lastoffset[r.node] /\ base = Base(p) /\ size = Sizes[T]
        /\ n = r.node /\ o = r.off /\ i = r.off - NIFO_SIZE + 1 /\ j = Base(p) + m /\ need = r.need
        /\ L = Len(place[n]) /\ rest = BODY_SIZE - o
  OBVIOUS
<1>1. r \in Readers /\ r.need > 0
  BY Turn, TypeParts
<1>2. /\ n \in 1 .. LastNode /\ o \in Nat /\ NIFO_SIZE <= o /\ o <= BODY_SIZE
      /\ NIFO_SIZE \in Nat /\ BODY_SIZE \in Nat /\ need \in Nat /\ need > 0
  BY <1>0, <1>1 DEF Readers, SizesAssumption
<1>3. /\ LastNode \in Nat \ {0} /\ place \in Seq(Seq(Pair)) /\ Len(place) = LastNode
      /\ L \in Nat /\ lastoffset[n] = NIFO_SIZE + L /\ lastoffset[n] <= BODY_SIZE
  BY <1>0, <1>2, NodeHas
<1>4. /\ Ahead(place, Sizes, End, n, i, T, j, need)
      /\ T \in 1 .. Len(sent) /\ m \in Nat /\ m + need = Total(p, T)
  BY <1>0, <1>2, StoodAhead
<1>5. Sizes[T] \in Nat /\ Base(p) \in Nat /\ Total(p, T) \in Nat /\ Base(p) + Total(p, T) <= Sizes[T]
  BY <1>4, TotalEnds
<1>s. /\ o \in Nat /\ L \in Nat /\ need \in Nat /\ m \in Nat /\ base \in Nat /\ size \in Nat
      /\ NIFO_SIZE \in Nat /\ BODY_SIZE \in Nat /\ need > 0 /\ NIFO_SIZE <= o /\ o <= lo
      /\ lo = NIFO_SIZE + L /\ lo <= BODY_SIZE /\ i = o - NIFO_SIZE + 1 /\ rest = BODY_SIZE - o
      /\ j = base + m /\ base + (m + need) <= size
  <2>1. o <= lo
    BY <1>0 DEF Stood
  <2> QED BY <1>0, <1>2, <1>3, <1>4, <1>5, <2>1
<1>6. /\ i \in Nat /\ 1 <= i /\ rest \in Nat /\ (o + need) - NIFO_SIZE + 1 = i + need
      /\ j + need = base + (m + need) /\ j + rest = base + (m + rest)
  BY <1>s
<1>e. /\ o + need > BODY_SIZE =>
           i + need > L + 1 /\ rest < need /\ rest <= need /\ base + (m + rest) < size
      /\ lo = BODY_SIZE => L + 1 - i = rest /\ i + rest <= L + 1 /\ (i + need > L + 1 => o + need > BODY_SIZE)
      /\ i + need <= L + 1 => o + need <= lo
      /\ o + need > BODY_SIZE \/ o + need <= BODY_SIZE
      /\ i + need > L + 1 \/ i + need <= L + 1
      /\ ~(o + need > BODY_SIZE /\ o + need <= BODY_SIZE)
  BY <1>s
<1>7. ASSUME i + need > L + 1
      PROVE  /\ n < LastNode /\ lastoffset[n] = BODY_SIZE /\ L + 1 - i = rest
             /\ place[n + 1] # <<>> /\ place[n + 1][1] = <<T, j + rest>>
             /\ \A x \in 1 .. rest : place[n][i + x - 1] = <<T, j + x - 1>>
  <2>1. /\ n < Len(place) /\ place[n + 1] # <<>>
        /\ place[n + 1][1] = <<T, j + (L + 1 - i)>>
        /\ \A x \in 1 .. L + 1 - i : place[n][i + x - 1] = <<T, j + x - 1>>
    <3>1. i + need > Len(place[n]) + 1
      BY <1>0, <1>7
    <3>2. /\ n < Len(place) /\ place[n + 1] # <<>>
          /\ place[n + 1][1] = <<T, j + (Len(place[n]) + 1 - i)>>
          /\ \A x \in 1 .. Len(place[n]) + 1 - i : place[n][i + x - 1] = <<T, j + x - 1>>
      BY <1>4, <3>1, AheadOver
    <3> QED BY <1>0, <3>2
  <2>2. n \in 1 .. LastNode - 1
    BY <1>2, <1>3, <2>1
  <2>3. lastoffset[n] = BODY_SIZE
    BY <2>2 DEF FullButLast
  <2>4. L + 1 - i = rest
    BY <1>0, <1>e, <2>3
  <2> QED BY <1>3, <2>1, <2>3, <2>4
<1>8. CASE /\ o + need > BODY_SIZE
           /\ r' = [r EXCEPT !.node = RingNext(n), !.off = NIFO_SIZE, !.need = need - rest,
                             !.buf = Taken(rest)]
  <2>1. i + need > L + 1
    BY <1>e, <1>8
  <2>2. /\ n < LastNode /\ lastoffset[n] = BODY_SIZE /\ L + 1 - i = rest
        /\ place[n + 1] # <<>> /\ place[n + 1][1] = <<T, j + rest>>
        /\ \A x \in 1 .. rest : place[n][i + x - 1] = <<T, j + x - 1>>
    BY <1>7, <2>1
  <2>3. rest < need /\ i + rest <= L + 1
    BY <1>0, <1>e, <1>8, <2>2
  <2>4. Has(Taken(rest), p, T, m + rest)
    <3>1. /\ rest \in Nat /\ rest <= r.need /\ i + rest <= Len(place[n]) + 1
      BY <1>0, <1>6, <1>8, <1>e, <2>3
    <3>2. \A x \in 1 .. rest : place[n][i + x - 1] = <<T, j + x - 1>>
      BY <2>2
    <3>3. PICK buf : buf = Taken(rest)
      OBVIOUS
    <3>4. Stood(r, pc, T, m) /\ pc \in {"head", "body"} /\ j = Base(pc) + m
      BY <1>0
    <3>5. Follow(T, m, n, i, j, rest)
      BY <1>0, <3>1, <3>2, <3>4 DEF Follow
    <3> QED BY <1>0, <3>3, <3>5, HasMore
  <2>5. RingNext(n) = n + 1 /\ n + 1 \in 1 .. LastNode /\ n + 1 > 1
    <3>1. n \in 1 .. LastNode /\ LastNode \in Nat /\ n < LastNode
      BY <1>2, <1>3, <2>2
    <3> QED BY <3>1 DEF RingNext
  <2>6. place[n + 1] \in Seq(Pair) /\ Len(place[n + 1]) \in Nat /\ Len(place[n + 1]) >= 1
        /\ NIFO_SIZE <= lastoffset[n + 1]
    BY <2>2, <2>5, NodeHas
  <2>7. Here(place, End, n + 1, NIFO_SIZE - NIFO_SIZE + 1) = After(Sizes, T, Base(p), m + rest)
    <3>1. NIFO_SIZE - NIFO_SIZE + 1 = 1
      BY <1>2
    <3>2. Here(place, End, n + 1, 1) = <<T, j + rest>>
      BY <2>2, <2>6 DEF Here
    <3>3. Base(p) + (m + rest) < Sizes[T] /\ Base(p) + (m + rest) = j + rest
      BY <1>0, <1>6, <1>e, <1>8
    <3> QED BY <3>1, <3>2, <3>3 DEF After
  <2>8. r.by = "get" => FALSE
    <3>1. ASSUME r.by = "get" PROVE T <= cnt[1]
      BY <3>1 DEF Stood
    <3>2. place[n + 1][1][1] > cnt[1]
      <4>1. 1 \in 1 .. Len(place[n + 1])
        BY <2>6
      <4> QED BY <2>5, <4>1 DEF LayoutInv
    <3>3. T > cnt[1]
      BY <2>2, <3>2
    <3>4. cnt[1] \in Nat
      BY CountedFinite DEF CountInv
    <3>5. ASSUME r.by = "get" PROVE FALSE
      <4>1. T \in Nat
        BY <1>4
      <4> QED BY <3>1, <3>3, <3>4, <3>5, <4>1
    <3> QED BY <3>5
  <2>9. Stood(r', p, T, m + rest)
    <3>1. r' = [r EXCEPT !.node = n + 1, !.off = NIFO_SIZE, !.need = r.need - rest, !.buf = Taken(rest)]
      BY <1>0, <1>8, <2>5
    <3>2. rest <= r.need
      BY <1>0, <1>e, <1>8
    <3> QED BY <1>1, <1>6, <2>4, <2>6, <2>7, <2>8, <3>1, <3>2, MoreStood
  <2> QED BY <2>9
<1>9. CASE /\ o + need <= BODY_SIZE
           /\ r' = [r EXCEPT !.off = o + need, !.need = 0, !.buf = Taken(need)]
  <2>1. i + need <= L + 1
    <3>1. ASSUME i + need > L + 1 PROVE FALSE
      <4>1. lastoffset[n] = BODY_SIZE
        BY <1>7, <3>1
      <4> QED BY <1>0, <1>9, <1>e, <3>1, <4>1
    <3> QED BY <1>e, <3>1
  <2>2. /\ \A x \in 1 .. need : place[n][i + x - 1] = <<T, j + x - 1>>
        /\ Here(place, End, n, i + need) = After(Sizes, T, j, need)
    <3>1. i + need <= Len(place[n]) + 1
      BY <1>0, <2>1
    <3> QED BY <1>4, <3>1, AheadHere
  <2>3. Has(Taken(need), p, T, m + need)
    <3>1. need \in Nat /\ need <= r.need /\ i + need <= Len(place[n]) + 1
      BY <1>0, <1>2, <2>1
    <3>3. PICK buf : buf = Taken(need)
      OBVIOUS
    <3>4. Stood(r, pc, T, m) /\ pc \in {"head", "body"} /\ j = Base(pc) + m
      BY <1>0
    <3>5. Follow(T, m, n, i, j, need)
      BY <1>0, <2>2, <3>1, <3>4 DEF Follow
    <3> QED BY <1>0, <3>3, <3>5, HasMore
  <2>4. Here(place, End, n, (o + need) - NIFO_SIZE + 1) = After(Sizes, T, Base(p), m + need)
    <3>1. (o + need) - NIFO_SIZE + 1 = i + need
      BY <1>6
    <3>2. j + need = Base(p) + (m + need)
      BY <1>0, <1>6
    <3> QED BY <2>2, <3>1, <3>2 DEF After
  <2>5. o + need <= lastoffset[n]
    BY <1>0, <1>e, <2>1
  <2>6. r' = [r EXCEPT !.node = n, !.off = o + need, !.need = r.need - need, !.buf = Taken(need)]
    <3>1. r.need - need = 0
      BY <1>0, <1>2
    <3>2. [r EXCEPT !.off = o + need, !.need = 0, !.buf = Taken(need)] =
            [r EXCEPT !.node = n, !.off = o + need, !.need = 0, !.buf = Taken(need)]
      BY <1>0, <1>1 DEF Readers
    <3> QED BY <1>9, <3>1, <3>2
  <2>7. r.by = "get" => n = 1
    BY <1>0 DEF Stood
  <2>8. Stood(r', p, T, m + need)
    <3>1. need <= r.need
      BY <1>0, <1>2
    <3> QED BY <1>1, <1>2, <2>3, <2>4, <2>5, <2>6, <2>7, <3>1, MoreStood
  <2> QED BY <2>8
<1>10. \/ /\ o + need > BODY_SIZE
          /\ r' = [r EXCEPT !.node = RingNext(n), !.off = NIFO_SIZE, !.need = need - rest,
                            !.buf = Taken(rest)]
       \/ /\ o + need <= BODY_SIZE
          /\ r' = [r EXCEPT !.off = o + need, !.need = 0, !.buf = Taken(need)]
  BY <1>0, Turn
<1> QED BY <1>8, <1>9, <1>10

(* The header read is that of the TLV it stands at, and its value follows. *)
LEMMA HeaderRead ==
  ASSUME SizesAssumption, TypeOK, ReadHeader, NEW T, NEW m, Stood(r, "head", T, m)
  PROVE  \/ pc' = "failed"
         \/ pc' = "body" /\ Stood(r', "body", T, 0)
<1>0. pc = "head" /\ r.need = 0 /\ TLV_SIZE \in Nat \ {0}
  BY DEF ReadHeader, SizesAssumption
<1>1. /\ T \in 1 .. Len(sent) /\ m = TLV_SIZE
      /\ r.off <= lastoffset[r.node]
      /\ Here(place, End, r.node, r.off - NIFO_SIZE + 1) = After(Sizes, T, 0, TLV_SIZE)
      /\ Are(r.buf, T, 0, TLV_SIZE)
      /\ r.by = "get" => r.node = 1 /\ r.i = T - 1 /\ T <= cnt[1]
  <2>1. /\ T \in 1 .. Len(sent) /\ m \in Nat /\ m + r.need = TLV_SIZE
        /\ r.off <= lastoffset[r.node]
        /\ Here(place, End, r.node, r.off - NIFO_SIZE + 1) = After(Sizes, T, 0, m)
        /\ Are(r.buf, T, 0, m)
        /\ r.by = "get" => r.node = 1 /\ r.i = T - 1 /\ T <= cnt[1]
    BY DEF Stood, Total, Base, Has
  <2>2. m = TLV_SIZE
    BY <1>0, <2>1
  <2> QED BY <2>1, <2>2
<1>2. ASSUME NEW t \in 1 .. Len(sent) PROVE Are(Bytes(t, 0, TLV_SIZE), t, 0, TLV_SIZE)
  <2>1. PICK z, b : z = 0 /\ b = TLV_SIZE
    OBVIOUS
  <2>2. t \in Nat /\ z \in Nat /\ b \in Nat /\ z <= b /\ b - z = b
    BY <1>0, <2>1
  <2>3. Are(Bytes(t, z, b), t, z, b - z)
    BY <2>2, BytesAre
  <2> QED BY <2>1, <2>2, <2>3
<1>3. r.buf = Bytes(T, 0, TLV_SIZE)
  BY <1>1, <1>2, AreSame
<1>4. ASSUME NEW t \in 1 .. Len(sent), r.buf = Bytes(t, 0, TLV_SIZE) PROVE t = T
  <2>1. Are(r.buf, t, 0, TLV_SIZE)
    BY <1>2, <1>4
  <2>2. 1 \in 1 .. TLV_SIZE
    BY <1>0
  <2>3. r.buf[1] = <<T, 0 + 1 - 1>> /\ r.buf[1] = <<t, 0 + 1 - 1>>
    BY <1>1, <2>1, <2>2 DEF Are
  <2> QED BY <2>3
<1>5. /\ r' = [r EXCEPT !.tlv = T, !.need = sent[T].len, !.buf = <<>>]
      /\ pc' = "body" \/ pc' = "failed"
  <2>1. \/ \E t \in 1 .. Len(sent) :
             /\ r.buf = Bytes(t, 0, TLV_SIZE)
             /\ r' = [r EXCEPT !.tlv = t, !.need = sent[t].len, !.buf = <<>>]
             /\ pc' = "body" \/ pc' = "failed"
        \/ \A t \in 1 .. Len(sent) : r.buf # Bytes(t, 0, TLV_SIZE)
    BY DEF ReadHeader
  <2> QED BY <1>1, <1>3, <1>4, <2>1
<1>6. Stood(r', "body", T, 0)
  <2>1. r \in Readers
    BY TypeParts
  <2>2. /\ r'.node = r.node /\ r'.off = r.off /\ r'.i = r.i /\ r'.by = r.by
        /\ r'.tlv = T /\ r'.need = sent[T].len /\ r'.buf = <<>>
    BY <1>5, <2>1 DEF Readers
  <2>3. sent[T].len \in Nat /\ 0 + sent[T].len = sent[T].len /\ 0 \in Nat
    BY <1>1, TotalEnds
  <2>4. After(Sizes, T, 0, TLV_SIZE) = After(Sizes, T, TLV_SIZE, 0)
    <3>1. 0 + TLV_SIZE = TLV_SIZE + 0
      BY <1>0
    <3> QED BY <3>1 DEF After
  <2>5. Has(<<>>, "body", T, 0)
    BY DEF Has, Are
  <2>6. Base("body") = TLV_SIZE /\ Total("body", T) = sent[T].len
    BY DEF Base, Total
  <2> QED BY <1>1, <2>2, <2>3, <2>4, <2>5, <2>6 DEF Stood
<1> QED BY <1>5, <1>6

(* At the first byte of TLV T a new turn may begin. *)
LEMMA FirstStood ==
  ASSUME SizesAssumption, TypeOK, NEW T \in 1 .. Len(sent), NEW n, NEW o, o <= lastoffset[n],
         Here(place, End, n, o - NIFO_SIZE + 1) = <<T, 0>>,
         NEW s, s.node = n, s.off = o, s.need = TLV_SIZE, s.buf = <<>>,
         s.by = "get" => n = 1 /\ s.i = T - 1 /\ T <= cnt[1]
  PROVE  Stood(s, "head", T, 0)
<1>1. TLV_SIZE \in Nat \ {0} /\ 0 + TLV_SIZE = TLV_SIZE /\ 0 \in Nat
  BY DEF SizesAssumption
<1>2. After(Sizes, T, 0, 0) = <<T, 0>>
  <2>1. Sizes[T] = TLV_SIZE + sent[T].len /\ sent[T].len \in Nat
    BY TotalEnds
  <2>2. 0 + 0 < Sizes[T] /\ 0 + 0 = 0
    BY <1>1, <2>1
  <2> QED BY <2>2 DEF After
<1>3. Has(<<>>, "head", T, 0)
  BY DEF Has, Are
<1>4. Base("head") = 0 /\ Total("head", T) = TLV_SIZE
  BY DEF Base, Total
<1> QED BY <1>1, <1>2, <1>3, <1>4 DEF Stood

(* No node of a complete message is empty but a lone head. *)
LEMMA NoneEmpty ==
  ASSUME SizesAssumption, TypeOK, FullButLast, LayoutInv, pc # "value", NEW n \in 2 .. LastNode
  PROVE  place[n] # <<>> /\ Len(place[n]) >= 1
<1>1. n \in 1 .. LastNode /\ LastNode \in Nat \ {0} /\ n > 1
  BY DEF TypeOK, LastNode
<1>2. place[n] \in Seq(Pair) /\ Len(place[n]) \in Nat /\ NIFO_SIZE + Len(place[n]) = lastoffset[n]
  BY <1>1, NodeHas
<1>3. CASE n = LastNode
  <2>1. LastNode > 1
    BY <1>1, <1>3
  <2>2. place[n] # <<>>
    BY <1>3, <2>1 DEF LayoutInv
  <2> QED BY <1>2, <2>2
<1>4. CASE n # LastNode
  <2>1. n \in 1 .. LastNode - 1
    BY <1>1, <1>4
  <2>2. lastoffset[n] = BODY_SIZE
    BY <2>1 DEF FullButLast
  <2>3. Len(place[n]) >= 1
    BY <1>2, <2>2 DEF SizesAssumption
  <2> QED BY <1>2, <2>3
<1> QED BY <1>3, <1>4

(* What stands after TLV T: the next one, or the end. *)
LEMMA NextIsSent ==
  ASSUME SizesAssumption, TypeOK, LayoutInv, pc # "value", NEW T \in Nat, NEW n \in 1 .. LastNode,
         NEW i \in 1 .. Len(place[n]), place[n][i] = <<T, 0>>
  PROVE  T \in 1 .. Len(sent)
<1>1. Known(place[n][i])
  BY DEF LayoutInv
<1> QED BY <1>1 DEF Known

(* The value is read: on to the next TLV, if there is one. *)
LEMMA ValueRead ==
  ASSUME SizesAssumption, TypeOK, FullButLast, LayoutInv, CountInv, ReadValue,
         NEW T, NEW m, Stood(r, "body", T, m)
  PROVE  \/ pc' = "head" /\ Stood(r', "head", T + 1, 0)
         \/ /\ pc' = "end" /\ (r'.by = "read" => T = Len(sent))
            /\ r'.by = "get" => T = cnt[1]
<1>0. /\ pc = "body" /\ r.need = 0 /\ TLV_SIZE \in Nat \ {0} /\ r \in Readers /\ Len(sent) \in Nat
      /\ End = <<Len(sent) + 1, 0>>
  BY TypeParts DEF ReadValue, SizesAssumption, End
<1>1. PICK n, o, i, L, lo : /\ n = r.node /\ o = r.off /\ i = r.off - NIFO_SIZE + 1 /\ L = Len(place[n])
                            /\ lo = lastoffset[n]
  OBVIOUS
<1>2. /\ T \in 1 .. Len(sent) /\ m = sent[T].len /\ o <= lo
      /\ Here(place, End, n, i) = After(Sizes, T, TLV_SIZE, m)
      /\ r.by = "get" => n = 1 /\ r.i = T - 1 /\ T <= cnt[1]
  <2>1. /\ T \in 1 .. Len(sent) /\ m \in Nat /\ m + r.need = sent[T].len /\ o <= lo
        /\ Here(place, End, n, i) = After(Sizes, T, TLV_SIZE, m)
        /\ r.by = "get" => n = 1 /\ r.i = T - 1 /\ T <= cnt[1]
    BY <1>1 DEF Stood, Total, Base
  <2>2. m = sent[T].len
    BY <1>0, <2>1
  <2> QED BY <2>1, <2>2
<1>3. Here(place, End, n, i) = <<T + 1, 0>>
  <2>1. Sizes[T] = TLV_SIZE + m
    BY <1>2, TotalEnds
  <2>2. ~(TLV_SIZE + m < Sizes[T])
    <3>1. TLV_SIZE + m \in Nat
      BY <1>2, TotalEnds, <2>1
    <3> QED BY <2>1, <3>1
  <2> QED BY <1>2, <2>2 DEF After
<1>4. /\ n \in 1 .. LastNode /\ LastNode \in Nat \ {0} /\ Len(place) = LastNode /\ L \in Nat
      /\ lo = NIFO_SIZE + L /\ o \in Nat /\ NIFO_SIZE <= o /\ NIFO_SIZE \in Nat /\ lo \in Nat
      /\ T \in Nat /\ T + 1 \in Nat
  <2>1. n \in 1 .. LastNode /\ o \in Nat /\ NIFO_SIZE <= o /\ NIFO_SIZE \in Nat
    BY <1>0, <1>1 DEF Readers, SizesAssumption
  <2>2. T \in Nat /\ T + 1 \in Nat
    BY <1>0, <1>2
  <2> QED BY <1>1, <2>1, <2>2, NodeHas
<1>5. /\ i = o - NIFO_SIZE + 1 /\ i \in 1 .. L + 1
      /\ o < lo => i \in 1 .. L
      /\ ~(o < lo) => i = L + 1 /\ o = lo
  <2>1. /\ i = o - NIFO_SIZE + 1 /\ o \in Nat /\ L \in Nat /\ NIFO_SIZE \in Nat /\ NIFO_SIZE <= o /\ o <= lo
        /\ lo = NIFO_SIZE + L
    BY <1>1, <1>2, <1>4
  <2> QED BY <2>1
<1>6. CASE r.by = "read" /\ ReadNext
  <2>1. CASE /\ o < lo
             /\ GoOn([Start(n) EXCEPT !.off = o])
    <3>1. i \in 1 .. L /\ i <= L
      BY <1>4, <1>5, <2>1
    <3>2. place[n][i] = <<T + 1, 0>>
      BY <1>1, <1>3, <3>1 DEF Here
    <3>3. T + 1 \in 1 .. Len(sent)
      BY <1>0, <1>1, <1>4, <3>1, <3>2, NextIsSent
    <3>4. r' = [Start(n) EXCEPT !.off = o] /\ pc' = "head"
      BY <2>1 DEF GoOn, Start
    <3>5. r'.node = n /\ r'.off = o /\ r'.need = TLV_SIZE /\ r'.buf = <<>> /\ r'.by = "read"
      BY <3>4 DEF Start
    <3>6. o <= lastoffset[n] /\ Here(place, End, n, o - NIFO_SIZE + 1) = <<T + 1, 0>>
      BY <1>1, <1>2, <1>3
    <3>7. Stood(r', "head", T + 1, 0)
      BY <3>3, <3>5, <3>6, FirstStood
    <3> QED BY <3>4, <3>7
  <2>2. CASE ~(o < lo) /\ ~IsLast(n) /\ GoOn(Start(RingNext(n)))
    <3>1. n < LastNode /\ RingNext(n) = n + 1 /\ n + 1 \in 2 .. LastNode /\ n + 1 \in 1 .. LastNode
      BY <1>4, <2>2 DEF IsLast, RingNext
    <3>2. place[n + 1] # <<>> /\ Len(place[n + 1]) >= 1 /\ 1 \in 1 .. Len(place[n + 1])
          /\ NIFO_SIZE <= lastoffset[n + 1]
      <4>1. place[n + 1] # <<>> /\ Len(place[n + 1]) >= 1
        BY <1>0, <3>1, NoneEmpty
      <4>2. Len(place[n + 1]) \in Nat /\ NIFO_SIZE <= lastoffset[n + 1]
        BY <3>1, NodeHas
      <4> QED BY <4>1, <4>2
    <3>3. i = L + 1 /\ ~(i <= L)
      BY <1>4, <1>5, <2>2
    <3>4. place[n + 1][1] = <<T + 1, 0>>
      BY <1>1, <1>3, <1>4, <3>1, <3>2, <3>3 DEF Here
    <3>5. T + 1 \in 1 .. Len(sent)
      BY <1>0, <1>4, <3>1, <3>2, <3>4, NextIsSent
    <3>6. Here(place, End, n + 1, NIFO_SIZE - NIFO_SIZE + 1) = <<T + 1, 0>>
      <4>1. NIFO_SIZE - NIFO_SIZE + 1 = 1
        BY <1>4
      <4> QED BY <3>2, <3>4, <4>1 DEF Here
    <3>7. r' = Start(n + 1) /\ pc' = "head"
      BY <2>2, <3>1 DEF GoOn, Start
    <3>8. r'.node = n + 1 /\ r'.off = NIFO_SIZE /\ r'.need = TLV_SIZE /\ r'.buf = <<>> /\ r'.by = "read"
      BY <3>7 DEF Start
    <3>9. Stood(r', "head", T + 1, 0)
      BY <3>2, <3>5, <3>6, <3>8, FirstStood
    <3> QED BY <3>7, <3>9
  <2>3. CASE ~(o < lo) /\ IsLast(n) /\ pc' = "end" /\ r' = r
    <3>1. n = LastNode
      <4>1. CASE lastoffset[n] # BODY_SIZE
        <5>1. ~(n \in 1 .. LastNode - 1)
          BY <4>1 DEF FullButLast
        <5> QED BY <1>4, <5>1
      <4>2. CASE RingNext(n) = 1
        BY <1>4, <4>2 DEF RingNext
      <4> QED BY <2>3, <4>1, <4>2 DEF IsLast
    <3>2. i = L + 1 /\ ~(i <= L) /\ ~(n < Len(place))
      BY <1>4, <1>5, <2>3, <3>1
    <3>3. Here(place, End, n, i) = <<Len(sent) + 1, 0>>
      BY <1>0, <1>1, <3>2 DEF Here
    <3>4. T = Len(sent)
      <4>1. T + 1 = Len(sent) + 1
        BY <1>3, <3>3
      <4> QED BY <1>0, <1>4, <4>1
    <3>5. r'.by = "read"
      BY <1>6, <2>3
    <3> QED BY <2>3, <3>4, <3>5
  <2>4. \/ o < lo /\ GoOn([Start(n) EXCEPT !.off = o])
        \/ ~(o < lo) /\ ~IsLast(n) /\ GoOn(Start(RingNext(n)))
        \/ ~(o < lo) /\ IsLast(n) /\ pc' = "end" /\ r' = r
    <3>1. \/ ~(lo <= o) /\ GoOn([Start(n) EXCEPT !.off = o])
          \/ lo <= o /\ ~IsLast(n) /\ GoOn(Start(RingNext(n)))
          \/ lo <= o /\ IsLast(n) /\ pc' = "end" /\ r' = r
      BY <1>1, <1>6 DEF ReadNext, AtEnd
    <3>2. (lo <= o) <=> ~(o < lo)
      BY <1>4
    <3> QED BY <3>1, <3>2
  <2> QED BY <2>1, <2>2, <2>3, <2>4
<1>7. CASE r.by = "get" /\ GetNext
  <2>1. PICK s : s = [Start(n) EXCEPT !.off = o, !.i = r.i + 1, !.by = "get"]
    OBVIOUS
  <2>2. /\ s.node = n /\ s.off = o /\ s.need = TLV_SIZE /\ s.buf = <<>> /\ s.by = "get" /\ s.i = r.i + 1
    BY <2>1 DEF Start
  <2>3. r' = s /\ pc' = IF s.by = "get" /\ s.i >= cnt[s.node] THEN "end" ELSE "head"
    BY <1>1, <1>7, <2>1 DEF GetNext, GoOn
  <2>4. n = 1 /\ T <= cnt[1] /\ s.i = T /\ cnt[1] \in Nat /\ cnt[1] <= Len(sent)
    <3>1. n = 1 /\ T <= cnt[1] /\ r.i = T - 1
      BY <1>2, <1>7
    <3>2. s.i = T
      BY <1>4, <2>2, <3>1
    <3>3. cnt[1] \in Nat /\ cnt[1] <= Len(sent)
      BY CountedFinite DEF CountInv
    <3> QED BY <3>1, <3>2, <3>3
  <2>5. CASE T >= cnt[1]
    BY <1>4, <2>2, <2>3, <2>4, <2>5
  <2>6. CASE ~(T >= cnt[1])
    <3>1. T + 1 \in 1 .. Len(sent) /\ T + 1 <= cnt[1] /\ (T + 1) - 1 = T
      BY <1>0, <1>4, <2>4, <2>6
    <3>2. pc' = "head"
      BY <2>2, <2>3, <2>4, <2>6
    <3>3. o <= lastoffset[n] /\ Here(place, End, n, o - NIFO_SIZE + 1) = <<T + 1, 0>>
      BY <1>1, <1>2, <1>3
    <3>4. Stood(s, "head", T + 1, 0)
      BY <2>2, <2>4, <3>1, <3>3, FirstStood
    <3> QED BY <2>3, <3>2, <3>4
  <2> QED BY <2>5, <2>6
<1> QED BY <1>6, <1>7 DEF ReadValue

(* A reader begins with the first TLV. *)
LEMMA CallStands ==
  ASSUME SizesAssumption, TypeOK, LayoutInv, CountInv, NEW by \in {"read", "get"}, ReadCall(by)
  PROVE  \/ pc' = "head" /\ Stood(r', "head", 1, 0)
         \/ pc' = "end" /\ r'.by = "get" /\ cnt[1] = 0
<1>1. PICK s : s = [Start(1) EXCEPT !.by = by]
  OBVIOUS
<1>2. /\ s.node = 1 /\ s.off = NIFO_SIZE /\ s.need = TLV_SIZE /\ s.buf = <<>> /\ s.by = by /\ s.i = 0
  BY <1>1 DEF Start
<1>3. r' = s /\ pc' = (IF s.by = "get" /\ s.i >= cnt[s.node] THEN "end" ELSE "head") /\ sent # <<>>
  BY <1>1 DEF ReadCall, GoOn
<1>4. 1 \in 1 .. Len(sent) /\ cnt[1] \in Nat
  <2>1. Len(sent) \in Nat \ {0}
    BY <1>3 DEF TypeOK
  <2> QED BY <2>1, CountedFinite DEF CountInv
<1>5. Here(place, End, 1, NIFO_SIZE - NIFO_SIZE + 1) = <<1, 0>>
  <2>1. NIFO_SIZE - NIFO_SIZE + 1 = 1
    BY DEF SizesAssumption
  <2> QED BY <2>1 DEF LayoutInv, InOrder
<1>6. NIFO_SIZE <= lastoffset[1]
  <2>1. 1 \in 1 .. LastNode
    BY DEF TypeOK, LastNode
  <2> QED BY <2>1, NodeHas
<1>7. CASE s.by = "get" /\ 0 >= cnt[1]
  BY <1>2, <1>3, <1>4, <1>7
<1>8. CASE ~(s.by = "get" /\ 0 >= cnt[1])
  <2>1. pc' = "head"
    BY <1>2, <1>3, <1>8
  <2>2. s.by = "get" => 1 = 1 /\ s.i = 1 - 1 /\ 1 <= cnt[1]
    BY <1>2, <1>4, <1>8
  <2>3. Stood(s, "head", 1, 0)
    BY <1>2, <1>4, <1>5, <1>6, <2>2, FirstStood
  <2> QED BY <1>3, <2>1, <2>3
<1> QED BY <1>7, <1>8

-----------------------------------------------------------------------------
(* The theorems *)

(* What the reader returned stays as it is while it reads on. *)
LEMMA GotStays ==
  ASSUME ReadsInOrder, UNCHANGED <<sent, got>>, pc' # "lost", pc' = "end" /\ r'.by = "read" => Len(got) = Len(sent)
  PROVE  ReadsInOrder'
BY DEF ReadsInOrder

(* What it returns of TLV T is in order. *)
LEMMA GotGrows ==
  ASSUME SizesAssumption, TypeOK, ReadsInOrder, NEW T, T = Len(got) + 1, NEW m, Stood(r, "body", T, m), r.need = 0,
         got' = Append(got, [tlv |-> r.tlv, value |-> r.buf]), sent' = sent,
         pc' # "lost", pc' = "end" /\ r'.by = "read" => T = Len(sent)
  PROVE  ReadsInOrder' /\ Len(got') = T
<1>1. /\ got \in Seq([tlv : Nat, value : Seq(Pair)]) /\ r.tlv \in Nat /\ r.buf \in Seq(Pair) /\ r \in Readers
      /\ TLV_SIZE \in Nat
  BY TypeParts DEF Readers, SizesAssumption
<1>2. /\ T \in 1 .. Len(sent) /\ m = sent[T].len /\ r.tlv = T /\ Len(r.buf) = m /\ m \in Nat
      /\ \A k \in 1 .. m : r.buf[k][1] = T /\ r.buf[k][2] >= TLV_SIZE
      /\ sent[T].whole => Are(r.buf, T, TLV_SIZE, m)
  <2>1. /\ T \in 1 .. Len(sent) /\ m \in Nat /\ m + r.need = sent[T].len /\ r.tlv = T
        /\ Has(r.buf, "body", T, m)
    BY DEF Stood, Total
  <2>2. m + 0 = m
    BY <2>1
  <2> QED BY <2>1, <2>2 DEF Has
<1>3. sent[T].whole => r.buf = Value(T, 0, sent[T].len)
  <2>1. PICK b, b2 : b = TLV_SIZE + 0 /\ b2 = TLV_SIZE + m
    OBVIOUS
  <2>2. T \in Nat /\ b \in Nat /\ b2 \in Nat /\ b <= b2 /\ b = TLV_SIZE /\ b2 - b = m
    BY <1>1, <1>2, <2>1
  <2>3. Are(Bytes(T, b, b2), T, b, b2 - b)
    BY <2>2, BytesAre
  <2>4. Value(T, 0, sent[T].len) = Bytes(T, b, b2)
    BY <1>2, <2>1 DEF Value
  <2>5. Are(Bytes(T, b, b2), T, TLV_SIZE, m)
    BY <2>2, <2>3
  <2> QED BY <1>2, <2>4, <2>5, AreSame
<1>4. Len(got) \in Nat /\ Len(got') = T /\ \A i \in 1 .. T : i \in 1 .. Len(got) \/ i = T
  BY <1>1
<1>5. ASSUME NEW i \in 1 .. T
      PROVE  LET v == got'[i].value IN
             /\ got'[i].tlv = i /\ Len(v) = sent[i].len
             /\ \A k \in 1 .. Len(v) : v[k][1] = i /\ v[k][2] >= TLV_SIZE
             /\ sent[i].whole => v = Value(i, 0, sent[i].len)
  <2>1. CASE i \in 1 .. Len(got)
    <3>1. got'[i] = got[i]
      BY <1>1, <2>1
    <3> QED BY <2>1, <3>1 DEF ReadsInOrder
  <2>2. CASE i = T
    <3>1. got'[T].tlv = r.tlv /\ got'[T].value = r.buf
      BY <1>1, <1>4
    <3> QED BY <1>2, <1>3, <2>2, <3>1
  <2> QED BY <1>4, <2>1, <2>2
<1> QED BY <1>4, <1>5 DEF ReadsInOrder

(* Each step but a new message keeps the invariant. *)
LEMMA NextIInv == ASSUME SizesAssumption, IInv, [Next]_vars, ~NewMessage PROVE IInv'
<1>0. /\ Invs /\ TypeOK /\ FullButLast /\ ReadsInOrder /\ GetsCounted /\ CountInv
      /\ pc \in {"write", "value"} => got = <<>>
      /\ pc # "failed" => LayoutInv
      /\ pc \in {"head", "body"} => ReaderInv
  BY DEF IInv, Invs
<1>1. Invs' /\ (TypeOK /\ FullButLast /\ w.old <= w.len)'
  BY <1>0, NextTypes DEF Invs
<1>2. /\ cnt[1] \in Nat /\ cnt[1] = Cardinality(Counted) /\ cnt[1] <= Len(sent)
      /\ Len(got) \in Nat /\ Len(sent) \in Nat
  BY <1>0, CountedFinite DEF CountInv, TypeOK
<1>3. CASE Write
  <2>1. pc \in {"write", "value"} /\ UNCHANGED <<r, got>> /\ pc' \in {"write", "value", "failed"}
    <3>1. UNCHANGED <<r, got>> /\ pc' \in {"write", "value", "failed"}
      BY <1>0, <1>3, WriteTypes
    <3>2. pc \in {"write", "value"}
      BY <1>3 DEF Write, CopyPart, nifo_tlv_alloc, nifo_copy_tlv_cont
    <3> QED BY <3>1, <3>2
  <2>2. got' = <<>>
    BY <1>0, <2>1
  <2>3. ReadsInOrder' /\ GetsCounted'
    BY <2>1, <2>2 DEF ReadsInOrder, GetsCounted
  <2>4. CountInv'
    BY <1>0, <1>3, CountNext
  <2>5. pc' # "failed" => LayoutInv'
    BY <1>0, <1>1, <1>3, <2>1, WriteLaid
  <2> QED BY <1>1, <2>1, <2>2, <2>3, <2>4, <2>5 DEF IInv
<1>4. CASE ReadPart
  <2>1. UNCHANGED <<nodes, sent, w, got, pc>> /\ pc \in {"head", "body"}
    BY <1>4 DEF ReadPart
  <2>2. CountInv' /\ LayoutInv'
    BY <1>0, <2>1, ReaderLeaves
  <2>3. PICK T, m : T = Len(got) + 1 /\ Stood(r, pc, T, m)
    BY <1>0, <2>1, ReaderIs
  <2>4. PICK m2 : Stood(r', pc, T, m2)
    BY <1>0, <1>4, <2>1, <2>3, PartTaken
  <2>5. ReaderInv'
    BY <1>2, <2>1, <2>3, <2>4, ReaderIsNext
  <2>6. ReadsInOrder' /\ GetsCounted'
    BY <1>0, <2>1, GotStays DEF GetsCounted
  <2> QED BY <1>1, <2>1, <2>2, <2>5, <2>6 DEF IInv
<1>5. CASE ReadHeader
  <2>1. UNCHANGED <<nodes, sent, w, got>> /\ pc = "head"
    BY <1>5 DEF ReadHeader
  <2>2. PICK T, m : T = Len(got) + 1 /\ Stood(r, "head", T, m)
    BY <1>0, <2>1, ReaderIs
  <2>3. \/ pc' = "failed"
        \/ pc' = "body" /\ Stood(r', "body", T, 0)
    BY <1>0, <1>5, <2>2, HeaderRead
  <2>4. CountInv' /\ LayoutInv'
    BY <1>0, <2>1, <2>3, ReaderLeaves
  <2>5. pc' = "body" => ReaderInv'
    BY <1>2, <2>1, <2>2, <2>3, ReaderIsNext
  <2>6. ReadsInOrder' /\ GetsCounted'
    BY <1>0, <2>1, <2>3, GotStays DEF GetsCounted
  <2> QED BY <1>1, <2>3, <2>4, <2>5, <2>6 DEF IInv
<1>6. CASE ReadValue
  <2>1. UNCHANGED <<nodes, sent, w>> /\ pc = "body" /\ r.need = 0
        /\ got' = Append(got, [tlv |-> r.tlv, value |-> r.buf])
    BY <1>6 DEF ReadValue
  <2>2. PICK T, m : T = Len(got) + 1 /\ Stood(r, "body", T, m)
    BY <1>0, <2>1, ReaderIs
  <2>3. \/ pc' = "head" /\ Stood(r', "head", T + 1, 0)
        \/ /\ pc' = "end" /\ (r'.by = "read" => T = Len(sent))
           /\ r'.by = "get" => T = cnt[1]
    BY <1>0, <1>6, <2>1, <2>2, ValueRead
  <2>4. ReadsInOrder' /\ Len(got') = T
    BY <1>0, <2>1, <2>2, <2>3, GotGrows
  <2>5. CountInv' /\ LayoutInv'
    BY <1>0, <2>1, <2>3, ReaderLeaves
  <2>6. GetsCounted'
    <3>1. Counted' = Counted
      BY <2>1 DEF Counted
    <3> QED BY <1>2, <2>3, <2>4, <3>1 DEF GetsCounted
  <2>7. pc' = "head" => ReaderInv'
    <3>1. T \in Nat
      BY <1>2, <2>2
    <3> QED BY <1>2, <2>1, <2>3, <2>4, <3>1, ReaderIsNext
  <2> QED BY <1>1, <2>3, <2>4, <2>5, <2>6, <2>7 DEF IInv
<1>7. ASSUME NEW by \in {"read", "get"}, ReadCall(by) PROVE IInv'
  <2>1. UNCHANGED <<nodes, sent, w, got>> /\ pc = "write"
    BY <1>7 DEF ReadCall
  <2>2. got = <<>> /\ Len(got') = 0
    BY <1>0, <2>1
  <2>3. \/ pc' = "head" /\ Stood(r', "head", 1, 0)
        \/ pc' = "end" /\ r'.by = "get" /\ cnt[1] = 0
    BY <1>0, <1>7, <2>1, CallStands
  <2>4. CountInv' /\ LayoutInv'
    BY <1>0, <2>1, <2>3, ReaderLeaves
  <2>5. pc' = "head" => ReaderInv'
    <3>1. 0 \in Nat /\ 1 = 0 + 1
      OBVIOUS
    <3> QED BY <1>2, <2>1, <2>2, <2>3, <3>1, ReaderIsNext
  <2>6. ReadsInOrder'
    BY <1>0, <2>1, <2>3, GotStays
  <2>7. GetsCounted'
    <3>1. Counted' = Counted
      BY <2>1 DEF Counted
    <3> QED BY <1>2, <2>2, <2>3, <3>1 DEF GetsCounted
  <2> QED BY <1>1, <2>3, <2>4, <2>5, <2>6, <2>7 DEF IInv
<1>8. CASE UNCHANGED vars
  <2>1. UNCHANGED <<nodes, sent, w, got, r, pc>>
    BY <1>8 DEF vars
  <2>2. /\ CountInv' /\ (LayoutInv => LayoutInv') /\ Sizes' = Sizes /\ End' = End
    BY <1>0, <2>1, ReaderLeaves
  <2>3. ReaderInv => ReaderInv'
    BY <2>1, <2>2 DEF ReaderInv, nodes
  <2>4. Counted' = Counted
    BY <2>1 DEF Counted
  <2>5. ReadsInOrder' /\ GetsCounted'
    BY <1>0, <2>1, <2>4 DEF ReadsInOrder, GetsCounted
  <2> QED BY <1>0, <1>1, <2>1, <2>2, <2>3, <2>5 DEF IInv
<1> QED BY <1>3, <1>4, <1>5, <1>6, <1>7, <1>8 DEF Next, Read

(* Whatever the sizes of nodes, heads and headers, the lengths of the values *)
(* and the writers that are called, the bytes of the nodes are those of the  *)
(* TLVs in their order, and the reader stands where it should.               *)
THEOREM InvariantHolds == Spec => []IInv
<1>1. Init => IInv
  BY InitIInv, SizesAssumption
<1>2. IInv /\ [Next]_vars => IInv' \/ Init'
  <2>1. NewMessage => Init'
    BY DEF NewMessage, Init, Start
  <2> QED BY <2>1, NextIInv, SizesAssumption
<1> QED BY <1>1, <1>2, PTL DEF Spec

(* The reader returns the TLVs in the order they were written, none twice,   *)
(* and with "no more" it has returned all (nifo_copy_tlv_cont against        *)
(* nifo_read_tlv_cont and nifo_get_tlv_cont).                                *)
THEOREM ReadsInOrderHolds == Spec => []ReadsInOrder
<1>1. IInv => ReadsInOrder
  BY DEF IInv
<1> QED BY <1>1, InvariantHolds, PTL

(* What nifo_tlv_alloc alone has written, nifo_get_tlv_cont visits           *)
(* completely.                                                               *)
THEOREM GetsAllHolds == Spec => []GetsAll
<1>1. IInv => GetsAll
  <2> SUFFICES ASSUME IInv, pc = "end", r.by = "get", Counted = 1 .. Len(sent)
               PROVE  Len(got) = Len(sent)
    BY DEF GetsAll
  <2>1. Len(got) = Cardinality(1 .. Len(sent))
    BY DEF IInv, GetsCounted
  <2>2. Len(sent) \in Nat
    BY DEF IInv, TypeOK
  <2>3. Cardinality(1 .. Len(sent)) = Len(sent)
    BY <2>2, UpTo
  <2> QED BY <2>1, <2>3
<1> QED BY <1>1, InvariantHolds, PTL
=============================================================================
