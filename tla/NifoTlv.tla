------------------------------- MODULE NifoTlv -------------------------------
(***************************************************************************)
(* The TLVs of a nifo message (nifo/nifo.c): nifo_tlv_alloc writes one      *)
(* into the head node and counts it, nifo_copy_tlv_cont lets a header or a  *)
(* value that does not fit run over into further nodes of the cont ring;    *)
(* nifo_read_tlv_cont reads them one after the other and nifo_get_tlv_cont  *)
(* (like nifo_get_point_cont) by the counter of the node it has come to.    *)
(*                                                                         *)
(* A byte is <<t, k>>, byte k of the t-th TLV of the message: k < TLV_SIZE *)
(* is its header, which holds type and length, the others are its value.   *)
(* The message has one user at a time, who writes it and, as receiver,     *)
(* reads it; a message that could not be completed is deleted unread.      *)
(***************************************************************************)
EXTENDS Integers, Sequences, FiniteSets

CONSTANTS NIFO_SIZE,  \* bytes of a node that the NIFO head takes
          TLV_SIZE,   \* bytes of a TLV's header
          BODY_SIZE,  \* DEF_MEMNODEBODY_SIZE
          Lens,       \* bound: the lengths of values
          MaxTlv,     \* bound: TLVs of a message
          MaxNodes    \* bound: nodes of a message

ASSUME SizesAssumption ==
  /\ NIFO_SIZE \in Nat \ {0} /\ TLV_SIZE \in Nat \ {0} /\ BODY_SIZE \in Nat
  /\ NIFO_SIZE + TLV_SIZE <= BODY_SIZE
  /\ Lens \subseteq Nat /\ MaxTlv \in Nat /\ MaxNodes \in Nat \ {0}

VARIABLES
  lastoffset, cnt, \* of each node of the cont ring, from the head on
  bytes,  \* what is written in its body
  place,  \* history: which byte of which TLV each of them stands for
  sent,   \* history: of each TLV written, its length, whether its value is in one
          \* piece, and whether nifo_tlv_alloc wrote it
  w,      \* nifo_copy_tlv_cont in progress: its len and oldLen
  r,      \* the reader: *nexttlv as node and offset, and what it has of this TLV
  got,    \* what the reader returned: which TLV, and its value
  pc      \* "write", "value" (in the copy loop), "head", "body", "end", "lost", "failed"

nodes == <<lastoffset, cnt, bytes, place>>
vars == <<nodes, sent, w, r, got, pc>>

Junk == <<0, 0>>                                    \* a byte nobody wrote
Bytes(t, a, b) == [i \in 1 .. b - a |-> <<t, a + i - 1>>]
Value(t, a, b) == Bytes(t, TLV_SIZE + a, TLV_SIZE + b)

LastNode == Len(lastoffset)
Room == BODY_SIZE - lastoffset[LastNode]
RingNext(n) == IF n = LastNode THEN 1 ELSE n + 1
At(n, o) == IF o < lastoffset[n] THEN bytes[n][o - NIFO_SIZE + 1] ELSE Junk

Start(n) == [node |-> n, off |-> NIFO_SIZE, i |-> 0, need |-> TLV_SIZE, buf |-> <<>>,
             tlv |-> 0, by |-> "read"]

Init == /\ lastoffset = <<NIFO_SIZE>> /\ cnt = <<0>> /\ bytes = << <<>> >> /\ place = << <<>> >>
        /\ sent = <<>> /\ got = <<>> /\ pc = "write"
        /\ w = [len |-> 0, old |-> 0] /\ r = Start(1)

-----------------------------------------------------------------------------
(* The writers. *)

(* The bytes bs are written, to stand for ps. *)
Written(bs, ps) ==
  /\ bytes' = [bytes EXCEPT ![LastNode] = @ \o bs]
  /\ place' = [place EXCEPT ![LastNode] = @ \o ps]
  /\ lastoffset' = [lastoffset EXCEPT ![LastNode] = @ + Len(bs)]
  /\ UNCHANGED cnt
Sent(len, whole, counted) ==
  sent' = Append(sent, [len |-> len, whole |-> whole, counted |-> counted])

(* nifo_node_alloc may fail at any time: the nodes are shared.  The new node *)
(* is linked behind the last and begins with the bytes more.                 *)
Linked(bs, ps, more) ==
  /\ LastNode < MaxNodes
  /\ bytes' = Append([bytes EXCEPT ![LastNode] = @ \o bs], more)
  /\ place' = Append([place EXCEPT ![LastNode] = @ \o ps], more)
  /\ lastoffset' = Append([lastoffset EXCEPT ![LastNode] = @ + Len(bs)], NIFO_SIZE + Len(more))
  /\ cnt' = Append(cnt, 0)
Fail == pc' = "failed" /\ UNCHANGED <<sent, w>>

(* Mutant: the TLV is not counted. *)
nifo_tlv_alloc_NoCount(len) ==
  /\ pc = "write" /\ Len(sent) < MaxTlv
  /\ lastoffset[1] + TLV_SIZE + len <= BODY_SIZE
  /\ bytes' = [bytes EXCEPT ![1] = @ \o Bytes(Len(sent) + 1, 0, TLV_SIZE + len)]
  /\ place' = [place EXCEPT ![1] = @ \o Bytes(Len(sent) + 1, 0, TLV_SIZE + len)]
  /\ lastoffset' = [lastoffset EXCEPT ![1] = @ + TLV_SIZE + len]
  /\ Sent(len, TRUE, TRUE)
  /\ UNCHANGED <<cnt, w, r, got, pc>>

nifo_tlv_alloc(len) ==
  /\ pc = "write" /\ Len(sent) < MaxTlv
  /\ lastoffset[1] + TLV_SIZE + len <= BODY_SIZE
  /\ bytes' = [bytes EXCEPT ![1] = @ \o Bytes(Len(sent) + 1, 0, TLV_SIZE + len)]
  /\ place' = [place EXCEPT ![1] = @ \o Bytes(Len(sent) + 1, 0, TLV_SIZE + len)]
  /\ lastoffset' = [lastoffset EXCEPT ![1] = @ + TLV_SIZE + len]
  /\ cnt' = [cnt EXCEPT ![1] = @ + 1]
  /\ Sent(len, TRUE, TRUE)
  /\ UNCHANGED <<w, r, got, pc>>

(* All of the TLV fits into the last node. *)
CopyWhole(len) ==
  /\ TLV_SIZE + len <= Room
  /\ LET tlv == Bytes(Len(sent) + 1, 0, TLV_SIZE + len) IN Written(tlv, tlv)
  /\ Sent(len, TRUE, FALSE)
  /\ UNCHANGED <<w, pc>>

(* The header fits, the value goes to the loop. *)
CopyHeader(len) ==
  /\ TLV_SIZE <= Room /\ Room < TLV_SIZE + len
  /\ LET header == Bytes(Len(sent) + 1, 0, TLV_SIZE) IN Written(header, header)
  /\ w' = [len |-> len, old |-> 0] /\ pc' = "value"
  /\ UNCHANGED sent

(* Mutant: a header is not cut: it goes whole into the new node. *)
CopySplit_NotCut(len) ==
  /\ Room < TLV_SIZE
  /\ \/ /\ Linked(<<>>, <<>>, Bytes(Len(sent) + 1, 0, TLV_SIZE))
        /\ w' = [len |-> len, old |-> 0] /\ pc' = "value"
        /\ UNCHANGED sent
     \/ UNCHANGED nodes /\ Fail

(* Not even the header fits: it is cut in two. *)
CopySplit(len) ==
  /\ Room < TLV_SIZE
  /\ LET part == Bytes(Len(sent) + 1, 0, Room) IN
     \/ /\ Linked(part, part, Bytes(Len(sent) + 1, Room, TLV_SIZE))
        /\ w' = [len |-> len, old |-> 0] /\ pc' = "value"
        /\ UNCHANGED sent
     \/ Written(part, part) /\ Fail

nifo_copy_tlv_cont(len) ==
  /\ pc = "write" /\ Len(sent) < MaxTlv
  /\ CopyWhole(len) \/ CopyHeader(len) \/ CopySplit(len)
  /\ UNCHANGED <<r, got>>

(* Where in the value the next part is copied from: memcpy takes value, not *)
(* value + oldLen.                                                          *)
CopiedFrom(old) == 0

(* One turn of the loop over the value, or the one memcpy when it fits. *)
CopyPart ==
  /\ pc = "value"
  /\ LET rest == w.len - w.old
         size == IF rest > Room THEN Room ELSE rest
         a    == CopiedFrom(w.old)
         part == Value(Len(sent) + 1, a, a + size)
         for  == Value(Len(sent) + 1, w.old, w.old + size) IN
     \/ /\ rest <= Room
        /\ Written(part, for) /\ pc' = "write"
        /\ Sent(w.len, w.old = 0, FALSE)
        /\ UNCHANGED w
     \/ /\ rest > Room
        /\ Linked(part, for, <<>>)
        /\ w' = [w EXCEPT !.old = @ + size]
        /\ UNCHANGED <<sent, pc>>
     \/ rest > Room /\ Written(part, for) /\ Fail
  /\ UNCHANGED <<r, got>>

-----------------------------------------------------------------------------
(* The readers.  Both take the bytes of a header or a value from one node  *)
(* if they are there, and else go round the ring.                          *)

GoOn(s) == r' = s /\ pc' = IF s.by = "get" /\ s.i >= cnt[s.node] THEN "end" ELSE "head"

ReadCall(by) ==
  /\ pc = "write" /\ sent # <<>>
  /\ GoOn([Start(1) EXCEPT !.by = by])
  /\ UNCHANGED <<nodes, sent, w, got>>

Taken(k) == r.buf \o [i \in 1 .. k |-> At(r.node, r.off + i - 1)]

(* Mutant: a node's offset without the modulo. *)
ReadPart_NoWrap ==
  /\ pc \in {"head", "body"} /\ r.need > 0
  /\ LET rest == BODY_SIZE - r.off IN
     \/ /\ r.off + r.need > BODY_SIZE
        /\ r' = [r EXCEPT !.node = RingNext(@), !.off = @ + rest + NIFO_SIZE,
                          !.need = @ - rest, !.buf = Taken(rest)]
     \/ /\ r.off + r.need <= BODY_SIZE
        /\ r' = [r EXCEPT !.off = @ + r.need, !.need = 0, !.buf = Taken(r.need)]
  /\ UNCHANGED <<nodes, sent, w, got, pc>>

(* Mutant: at the very end of a node nothing is taken, and the node not left. *)
ReadPart_Spins ==
  /\ pc \in {"head", "body"} /\ r.need > 0
  /\ LET rest == BODY_SIZE - r.off IN
     \/ rest = 0 /\ UNCHANGED r
     \/ /\ rest > 0 /\ r.off + r.need > BODY_SIZE
        /\ r' = [r EXCEPT !.node = RingNext(@), !.off = (@ + rest + NIFO_SIZE) % BODY_SIZE,
                          !.need = @ - rest, !.buf = Taken(rest)]
     \/ /\ r.off + r.need <= BODY_SIZE
        /\ r' = [r EXCEPT !.off = @ + r.need, !.need = 0, !.buf = Taken(r.need)]
  /\ UNCHANGED <<nodes, sent, w, got, pc>>

ReadPart ==
  /\ pc \in {"head", "body"} /\ r.need > 0
  /\ LET rest == BODY_SIZE - r.off IN
     \/ /\ r.off + r.need > BODY_SIZE
        /\ r' = [r EXCEPT !.node = RingNext(@), !.off = (@ + rest + NIFO_SIZE) % BODY_SIZE,
                          !.need = @ - rest, !.buf = Taken(rest)]
     \/ /\ r.off + r.need <= BODY_SIZE
        /\ r' = [r EXCEPT !.off = @ + r.need, !.need = 0, !.buf = Taken(r.need)]
  /\ UNCHANGED <<nodes, sent, w, got, pc>>

(* The header is read.  A value in more than one node is copied into a     *)
(* malloc'ed buffer, and malloc may fail.  Bytes that are no header send   *)
(* the reader anywhere.                                                    *)
ReadHeader ==
  /\ pc = "head" /\ r.need = 0
  /\ \/ \E t \in 1 .. Len(sent) :
          /\ r.buf = Bytes(t, 0, TLV_SIZE)
          /\ r' = [r EXCEPT !.tlv = t, !.need = sent[t].len, !.buf = <<>>]
          /\ \/ pc' = "body"
             \/ r.off + sent[t].len > BODY_SIZE /\ pc' = "failed"
     \/ /\ \A t \in 1 .. Len(sent) : r.buf # Bytes(t, 0, TLV_SIZE)
        /\ pc' = "lost" /\ UNCHANGED r
  /\ UNCHANGED <<nodes, sent, w, got>>

(* Mutant: the end of a node is one byte further on. *)
AtEnd_Beyond(n, o) == lastoffset[n] < o

(* *nexttlv: where the node goes on, else the next node, else NULL. *)
AtEnd(n, o) == lastoffset[n] <= o
IsLast(n) == lastoffset[n] # BODY_SIZE \/ RingNext(n) = 1

ReadNext ==
  \/ /\ ~AtEnd(r.node, r.off)
     /\ GoOn([Start(r.node) EXCEPT !.off = r.off])
  \/ /\ AtEnd(r.node, r.off) /\ ~IsLast(r.node)
     /\ GoOn(Start(RingNext(r.node)))
  \/ /\ AtEnd(r.node, r.off) /\ IsLast(r.node)
     /\ pc' = "end" /\ UNCHANGED r

(* nifo_get_tlv_cont goes on to its next turn from where it is. *)
GetNext == GoOn([Start(r.node) EXCEPT !.off = r.off, !.i = r.i + 1, !.by = "get"])

ReadValue ==
  /\ pc = "body" /\ r.need = 0
  /\ got' = Append(got, [tlv |-> r.tlv, value |-> r.buf])
  /\ \/ r.by = "read" /\ ReadNext
     \/ r.by = "get" /\ GetNext
  /\ UNCHANGED <<nodes, sent, w>>

(* The user deletes the message and begins another. *)
NewMessage ==
  /\ pc \in {"end", "failed"}
  /\ lastoffset' = <<NIFO_SIZE>> /\ cnt' = <<0>> /\ bytes' = << <<>> >> /\ place' = << <<>> >>
  /\ sent' = <<>> /\ got' = <<>> /\ pc' = "write"
  /\ w' = [len |-> 0, old |-> 0] /\ r' = Start(1)

Write == CopyPart \/ \E len \in Lens : nifo_tlv_alloc(len) \/ nifo_copy_tlv_cont(len)
Read == ReadPart \/ ReadHeader \/ ReadValue
Next == Write \/ Read \/ NewMessage \/ \E by \in {"read", "get"} : ReadCall(by)

Spec == Init /\ [][Next]_vars

(* A call that has begun goes on. *)
FairSpec == Spec /\ WF_vars(Read)

-----------------------------------------------------------------------------
TypeOK ==
  /\ lastoffset \in Seq(NIFO_SIZE .. BODY_SIZE) /\ lastoffset # <<>>
  /\ cnt \in Seq(Nat) /\ bytes \in Seq(Seq(Nat \X Nat)) /\ place \in Seq(Seq(Nat \X Nat))
  /\ Len(cnt) = LastNode /\ Len(bytes) = LastNode /\ Len(place) = LastNode
  /\ \A n \in 1 .. LastNode : /\ NIFO_SIZE + Len(bytes[n]) = lastoffset[n]
                              /\ NIFO_SIZE + Len(place[n]) = lastoffset[n]
  /\ sent \in Seq([len : Nat, whole : BOOLEAN, counted : BOOLEAN])
  /\ w \in [len : Nat, old : Nat]
  /\ r \in [node : 1 .. LastNode, off : NIFO_SIZE .. BODY_SIZE, i : Nat, need : Nat,
            buf : Seq(Nat \X Nat), tlv : Nat, by : {"read", "get"}]
  /\ got \in Seq([tlv : Nat, value : Seq(Nat \X Nat)])
  /\ pc \in {"write", "value", "head", "body", "end", "lost", "failed"}

(* Every node of a message but its last is full: the reader takes a node    *)
(* that is not full for the last one (nifo.c:870), and one that is cut      *)
(* short for the middle of a value (nifo.c:850).                            *)
FullButLast == \A n \in 1 .. LastNode - 1 : lastoffset[n] = BODY_SIZE

(* However headers and values are cut at the ends of nodes, the reader      *)
(* returns the TLVs in the order they were written, none twice, each with   *)
(* its length and bytes of its own value, the very bytes where the value is *)
(* in one piece, and when it says that was the last one it was              *)
(* (nifo_copy_tlv_cont against nifo_read_tlv_cont and nifo_get_tlv_cont).   *)
ReadsInOrder ==
  /\ pc # "lost"
  /\ \A i \in 1 .. Len(got) :
       LET v == got[i].value IN
       /\ got[i].tlv = i /\ Len(v) = sent[i].len
       /\ \A k \in 1 .. Len(v) : v[k][1] = i /\ v[k][2] >= TLV_SIZE
       /\ sent[i].whole => v = Value(i, 0, sent[i].len)
  /\ pc = "end" /\ r.by = "read" => Len(got) = Len(sent)

Counted == {t \in 1 .. Len(sent) : sent[t].counted}

(* A message that nifo_tlv_alloc alone has written is visited completely:   *)
(* nifo_get_tlv_cont, which "finds all structures of the linked list"       *)
(* (nifo.c:637), relies on the counters of the nodes it comes to, and only  *)
(* that writer counts.  Of a message that nifo_copy_tlv_cont wrote, or had  *)
(* a part in, it finds fewer than all.                                      *)
GetsAll ==
  pc = "end" /\ r.by = "get" /\ Counted = 1 .. Len(sent) => Len(got) = Len(sent)

(* What the inductive invariant below is made of.                           *)

(* The sizes of the TLVs, the one in work included. *)
Sizes == [t \in 1 .. Len(sent) + 1 |-> TLV_SIZE + (IF t <= Len(sent) THEN sent[t].len ELSE w.len)]

(* The byte d bytes after byte j of TLV t, if none of t is left the next    *)
(* TLV's first.                                                             *)
After(S, t, j, d) == IF j + d < S[t] THEN <<t, j + d>> ELSE <<t + 1, 0>>

(* What byte i of node n stands for, or would, if it is the next to be      *)
(* written and e is to come.                                                *)
Here(pl, e, n, i) ==
  IF i <= Len(pl[n]) THEN pl[n][i]
  ELSE IF n < Len(pl) /\ pl[n + 1] # <<>> THEN pl[n + 1][1]
  ELSE e

InOrder(pl, S, e) ==
  /\ Here(pl, e, 1, 1) = <<1, 0>>
  /\ \A n \in 1 .. Len(pl) : \A i \in 1 .. Len(pl[n]) : \A d \in 0 .. Len(pl[n]) + 1 - i :
       pl[n][i][2] + d <= S[pl[n][i][1]] =>
         Here(pl, e, n, i + d) = After(S, pl[n][i][1], pl[n][i][2], d)

(* What is to be written next. *)
End == IF pc = "value" THEN After(Sizes, Len(sent) + 1, TLV_SIZE, w.old) ELSE <<Len(sent) + 1, 0>>

(* What may be written of the TLV of p. *)
Known(p) ==
  \/ p[1] \in 1 .. Len(sent) /\ p[2] < Sizes[p[1]]
  \/ pc = "value" /\ p[1] = Len(sent) + 1 /\ p[2] < TLV_SIZE + w.old

(* The byte b stands for p. *)
Stands(b, p) ==
  /\ b[1] = p[1] /\ (p[2] < TLV_SIZE => b = p) /\ (p[2] >= TLV_SIZE => b[2] >= TLV_SIZE)
  /\ p[1] <= Len(sent) /\ sent[p[1]].whole => b = p

(* What the code does, not what its doc says: as many as were counted.      *)
GetsCounted == pc = "end" /\ r.by = "get" => Len(got) = Cardinality(Counted)

CountInv ==
  /\ cnt[1] = Cardinality(Counted)
  /\ \A n \in 2 .. LastNode : cnt[n] = 0

LayoutInv ==
  /\ InOrder(place, Sizes, End)
  /\ \A n \in 1 .. LastNode : \A i \in 1 .. Len(place[n]) :
       /\ Known(place[n][i]) /\ Stands(bytes[n][i], place[n][i])
       /\ n > 1 => place[n][i][1] > cnt[1]
  /\ LastNode > 1 => place[LastNode] # <<>> \/ (pc = "value" /\ w.old < w.len)

(* The reader is where the TLV goes on of which it still needs bytes.       *)
ReaderInv ==
  LET t == Len(got) + 1
      n == IF pc = "head" THEN TLV_SIZE ELSE sent[t].len IN
  /\ t <= Len(sent) /\ r.need <= n /\ Len(r.buf) = n - r.need
  /\ r.off <= lastoffset[r.node]
  /\ Here(place, End, r.node, r.off - NIFO_SIZE + 1) =
       After(Sizes, t, IF pc = "head" THEN 0 ELSE TLV_SIZE, n - r.need)
  /\ pc = "head" => r.buf = Bytes(t, 0, n - r.need)
  /\ pc = "body" =>
       /\ r.tlv = t
       /\ \A k \in 1 .. Len(r.buf) : r.buf[k][1] = t /\ r.buf[k][2] >= TLV_SIZE
       /\ sent[t].whole => r.buf = Value(t, 0, n - r.need)
  /\ r.by = "get" => r.node = 1 /\ r.i = Len(got) /\ Len(got) < cnt[1]

(* The inductive invariant.  The writers keep the layout: the bytes of the  *)
(* nodes, one after the other, stand for those of the TLVs, one after the   *)
(* other, wherever nodes are full or cannot be had (nifo.c:929-1026); the   *)
(* reader, which finds headers and cuts only by counting, is at the place   *)
(* in it that what it has read says (nifo.c:797-910).                       *)
IInv ==
  /\ TypeOK /\ FullButLast /\ ReadsInOrder /\ GetsCounted
  /\ w.old <= w.len
  /\ pc \in {"write", "value"} => got = <<>>
  /\ CountInv
  /\ pc # "failed" => LayoutInv
  /\ pc \in {"head", "body"} => ReaderInv

(* Reading ends: going round the ring the reader comes to the last TLV, or  *)
(* to a malloc that fails, and never starts over at the head.               *)
ReadEnds == pc \in {"head", "body"} ~> pc \in {"end", "failed"}

(* What "copies data into the node" (nifo.c:915) says: a value is read as   *)
(* it was written.                                                          *)
ValueAsWritten == \A i \in 1 .. Len(got) : got[i].value = Value(got[i].tlv, 0, sent[got[i].tlv].len)
=============================================================================
