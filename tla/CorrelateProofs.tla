---------------------------- MODULE CorrelateProofs ----------------------------
(***************************************************************************)
(* Theorems of Correlate, for every set of values of the fields, tables of *)
(* any size and any number of deaths: what a log message is filled with is *)
(* what was said last of its key, and tables that no death has cut off     *)
(* fill two messages of one subscriber alike.                              *)
(*                                                                         *)
(* The argument.  A tuple agrees with the tables when it says of each key  *)
(* it has, and that has a node, what the node says.  The rounds of Gather  *)
(* end in such a tuple: an IP brings its IMSI's TMSI in the first round,   *)
(* and the TMSI its time in the second.  Copying it therefore leaves what  *)
(* each node says of its own key as it was; and a node outside those that  *)
(* it is copied to is named by none of them.                               *)
(***************************************************************************)
EXTENDS Correlate, TLAPS

(* The type of the tables.                                                 *)
Sound(h) ==
  /\ DOMAIN h = HashKey
  /\ \A k \in HashKey :
       /\ DOMAIN h[k] \in SUBSET Value[k]
       /\ \A v \in DOMAIN h[k] : h[k][v] \in Tuple /\ h[k][v][k] = v

AgreesOn(h, c, k) ==
  Found(h, c, k) => c[Paired[k]] = h[k][c[k]][Paired[k]]

Agrees(h, c) == \A k \in HashKey : AgreesOn(h, c, k)

-----------------------------------------------------------------------------
(* What a node's copy is after one is put in a table.                      *)
LEMMA PutFact ==
  ASSUME NEW h, DOMAIN h = HashKey, NEW k \in HashKey, NEW v, NEW c
  PROVE  /\ DOMAIN Put(h, k, v, c) = HashKey
         /\ DOMAIN Put(h, k, v, c)[k] = DOMAIN h[k] \cup {v}
         /\ Put(h, k, v, c)[k][v] = c
         /\ \A u \in DOMAIN h[k] : u # v => Put(h, k, v, c)[k][u] = h[k][u]
         /\ \A j \in HashKey : j # k => Put(h, k, v, c)[j] = h[j]
  BY DEF Put

(* A tuple that has the node's key can be put there.                       *)
LEMMA PutSound ==
  ASSUME NEW h, Sound(h), NEW k \in HashKey, NEW v \in Value[k],
         NEW c \in Tuple, c[k] = v
  PROVE  Sound(Put(h, k, v, c))
<1> DEFINE g == Put(h, k, v, c)
<1>1. /\ DOMAIN g = HashKey
      /\ DOMAIN g[k] = DOMAIN h[k] \cup {v} /\ g[k][v] = c
      /\ \A u \in DOMAIN h[k] : u # v => g[k][u] = h[k][u]
      /\ \A j \in HashKey : j # k => g[j] = h[j]
  BY PutFact DEF Sound
<1> HIDE DEF g
<1>2. ASSUME NEW j \in HashKey
      PROVE  /\ DOMAIN g[j] \in SUBSET Value[j]
             /\ \A u \in DOMAIN g[j] : g[j][u] \in Tuple /\ g[j][u][j] = u
  <2>1. CASE j # k
    <3>1. g[j] = h[j]
      BY <1>1, <2>1
    <3>2. /\ DOMAIN h[j] \in SUBSET Value[j]
          /\ \A u \in DOMAIN h[j] : h[j][u] \in Tuple /\ h[j][u][j] = u
      BY DEF Sound
    <3> QED BY <3>1, <3>2, Zenon
  <2>2. CASE j = k
    <3>1. DOMAIN g[k] \in SUBSET Value[k]
      BY <1>1 DEF Sound
    <3>2. ASSUME NEW u \in DOMAIN g[k]
          PROVE  g[k][u] \in Tuple /\ g[k][u][k] = u
      <4>1. CASE u = v
        BY <1>1, <4>1
      <4>2. CASE u # v
        <5>1. u \in DOMAIN h[k] /\ g[k][u] = h[k][u]
          BY <1>1, <3>2, <4>2
        <5> QED BY <5>1 DEF Sound
      <4> QED BY <4>1, <4>2
    <3> QED BY <2>2, <3>1, <3>2
  <2> QED BY <2>1, <2>2
<1>3. Sound(g)
  BY <1>1, <1>2 DEF Sound
<1> QED BY <1>3 DEF g

(* The fields of tuples.                                                   *)
LEMMA KeyFact ==
  ASSUME NEW k \in HashKey
  PROVE  k \in Field /\ Paired[k] \in Field /\ Paired[k] # k
  BY DEF Field, HashKey, Paired

LEMMA FieldFact ==
  ASSUME NEW c \in Tuple, NEW f \in Field
  PROVE  /\ c[f] \in Value[f] \cup {Empty}
         /\ Empty \notin Value[f]
         /\ Blank[f] = Empty
  BY CorrelateAssumption DEF Tuple, Field, Value, Blank

LEMMA BlankFact == Blank \in Tuple
  BY DEF Tuple, Blank, Field

LEMMA SetFact ==
  ASSUME NEW c \in Tuple, NEW f \in Field, NEW v \in Value[f] \cup {Empty}
  PROVE  /\ [c EXCEPT ![f] = v] \in Tuple
         /\ [c EXCEPT ![f] = v][f] = v
         /\ \A g \in Field : g # f => [c EXCEPT ![f] = v][g] = c[g]
  BY DEF Tuple, Field, Value

LEMMA SaidFact ==
  ASSUME NEW k \in HashKey, NEW v \in Value[k],
         NEW w \in Value[Paired[k]] \cup {Empty}
  PROVE  /\ Said(k, v, w) \in Tuple
         /\ Said(k, v, w)[k] = v
         /\ Said(k, v, w)[Paired[k]] = w
         /\ \A f \in Field : f # k /\ f # Paired[k] => Said(k, v, w)[f] = Empty
<1> DEFINE d == [Blank EXCEPT ![k] = v]
<1>1. d \in Tuple /\ d[k] = v
  BY BlankFact, SetFact, KeyFact
<1>2. ASSUME NEW g \in Field, g # k  PROVE d[g] = Empty
  BY <1>2, BlankFact, SetFact, KeyFact, FieldFact
<1>3. Said(k, v, w) = [d EXCEPT ![Paired[k]] = w]
  BY KeyFact DEF Said
<1> HIDE DEF d
<1>4. /\ Said(k, v, w) \in Tuple
      /\ Said(k, v, w)[Paired[k]] = w
      /\ \A g \in Field : g # Paired[k] => Said(k, v, w)[g] = d[g]
  <2> DEFINE f == Paired[k]
             e == [d EXCEPT ![f] = w]
  <2>1. f \in Field /\ w \in Value[f] \cup {Empty}
    BY KeyFact
  <2>2. Said(k, v, w) = e
    BY <1>3
  <2> HIDE DEF f
  <2>3. e \in Tuple /\ e[f] = w /\ \A g \in Field : g # f => e[g] = d[g]
    BY <1>1, <2>1, SetFact
  <2> HIDE DEF e
  <2> QED BY <2>2, <2>3 DEF f
<1> QED BY <1>1, <1>2, <1>4, KeyFact

(* What is looked up is a value of the key.                                *)
LEMMA FoundFact ==
  ASSUME NEW h, Sound(h), NEW c \in Tuple, NEW k \in HashKey, Found(h, c, k)
  PROVE  /\ c[k] \in Value[k] /\ c[k] # Empty
         /\ h[k][c[k]] \in Tuple /\ h[k][c[k]][k] = c[k]
<1>1. c[k] \in DOMAIN h[k] /\ DOMAIN h[k] \in SUBSET Value[k]
  BY DEF Sound, Found
<1>2. h[k][c[k]] \in Tuple /\ h[k][c[k]][k] = c[k]
  BY <1>1 DEF Sound
<1> QED BY <1>1, <1>2, KeyFact, FieldFact

(* Only the paired field changes, and to what the node says.               *)
LEMMA PullFact ==
  ASSUME NEW h, Sound(h), NEW c \in Tuple, NEW k \in HashKey
  PROVE  /\ Pull(h, c, k) \in Tuple
         /\ \A f \in Field : f # Paired[k] => Pull(h, c, k)[f] = c[f]
         /\ AgreesOn(h, Pull(h, c, k), k)
         /\ AgreesOn(h, c, k) => Pull(h, c, k)[Paired[k]] = c[Paired[k]]
<1>1. CASE ~Found(h, c, k)
  BY <1>1 DEF Pull, AgreesOn
<1>2. CASE Found(h, c, k)
  <2> DEFINE node == h[k][c[k]]
             d == [c EXCEPT ![k] = node[k]]
             e == [d EXCEPT ![Paired[k]] = node[Paired[k]]]
  <2>1. /\ node \in Tuple /\ node[k] = c[k] /\ c[k] \in Value[k]
        /\ node[Paired[k]] \in Value[Paired[k]] \cup {Empty}
    BY <1>2, FoundFact, KeyFact, FieldFact
  <2>2. d \in Tuple /\ \A f \in Field : d[f] = c[f]
    BY <2>1, SetFact, KeyFact
  <2>3. Pull(h, c, k) = e
    BY <1>2 DEF Pull
  <2> HIDE DEF node, d
  <2>4. /\ e \in Tuple /\ e[Paired[k]] = node[Paired[k]]
        /\ \A f \in Field : f # Paired[k] => e[f] = d[f]
    BY <2>1, <2>2, SetFact, KeyFact
  <2> HIDE DEF e
  <2>5. Pull(h, c, k)[k] = c[k]
    BY <2>2, <2>3, <2>4, KeyFact
  <2> QED BY <1>2, <2>2, <2>3, <2>4, <2>5 DEF AgreesOn, node, Found
<1> QED BY <1>1, <1>2

-----------------------------------------------------------------------------
(* One round, of a tuple that agrees on the IP: the IP's node has nothing  *)
(* new, so it ends agreeing on the IMSI, and on all if it did before.      *)
LEMMA RoundFact ==
  ASSUME NEW h, Sound(h), NEW c \in Tuple, NEW k \in HashKey,
         AgreesOn(h, c, "uiIP")
  PROVE  LET d == Round(h, c, k) IN
           /\ d \in Tuple
           /\ d["uiIP"] = c["uiIP"] /\ d["ucIMSI"] = c["ucIMSI"]
           /\ AgreesOn(h, d, "uiIP")
           /\ c[k] # Empty => AgreesOn(h, d, "ucIMSI")
           /\ AgreesOn(h, c, "ucIMSI") =>
                /\ d["ucTMSI"] = c["ucTMSI"]
                /\ AgreesOn(h, d, "ucIMSI")
                /\ AgreesOn(h, c, "ucTMSI") \/ c[k] # Empty =>
                     AgreesOn(h, d, "ucTMSI")
<1> DEFINE p == Pull(h, c, "uiIP")
           q == Pull(h, p, "ucTMSI")
           r == Pull(h, q, "ucIMSI")
<1>0. /\ "uiIP" \in HashKey /\ "ucTMSI" \in HashKey /\ "ucIMSI" \in HashKey
      /\ "uiIP" \in Field /\ "ucTMSI" \in Field /\ "ucIMSI" \in Field
      /\ "llTime" \in Field
      /\ Paired["uiIP"] = "ucIMSI" /\ Paired["ucIMSI"] = "ucTMSI"
      /\ Paired["ucTMSI"] = "llTime"
  BY DEF HashKey, Field, Paired
<1>1. p \in Tuple /\ \A f \in Field : p[f] = c[f]
  BY <1>0, PullFact
<1>2. /\ q \in Tuple /\ AgreesOn(h, q, "ucTMSI")
      /\ \A f \in Field : f # "llTime" => q[f] = p[f]
  <2> HIDE DEF p
  <2> QED BY <1>0, <1>1, PullFact
<1>3. /\ r \in Tuple /\ AgreesOn(h, r, "ucIMSI")
      /\ \A f \in Field : f # "ucTMSI" => r[f] = q[f]
      /\ AgreesOn(h, q, "ucIMSI") => r["ucTMSI"] = q["ucTMSI"]
  <2> HIDE DEF q
  <2> QED BY <1>0, <1>2, PullFact
<1>4. Round(h, c, k) = IF c[k] # Empty THEN r ELSE c
  BY DEF Round
<1> HIDE DEF p, q, r
<1>5. /\ r["uiIP"] = c["uiIP"] /\ r["ucIMSI"] = c["ucIMSI"]
      /\ q["ucIMSI"] = c["ucIMSI"] /\ q["ucTMSI"] = c["ucTMSI"]
  BY <1>0, <1>1, <1>2, <1>3
<1>6. AgreesOn(h, r, "uiIP")
  BY <1>0, <1>5 DEF AgreesOn, Found
<1>7. ASSUME AgreesOn(h, c, "ucIMSI")
      PROVE  r["ucTMSI"] = c["ucTMSI"] /\ AgreesOn(h, r, "ucTMSI")
  <2>1. AgreesOn(h, q, "ucIMSI")
    BY <1>0, <1>5, <1>7 DEF AgreesOn, Found
  <2>2. r["ucTMSI"] = q["ucTMSI"] /\ r["llTime"] = q["llTime"]
    BY <1>0, <1>3, <2>1
  <2> QED BY <1>0, <1>2, <1>5, <2>2 DEF AgreesOn, Found
<1>8. CASE c[k] # Empty
  BY <1>3, <1>4, <1>5, <1>6, <1>7, <1>8
<1>9. CASE c[k] = Empty
  BY <1>4, <1>9
<1> QED BY <1>8, <1>9

(* What Set_HashoData copies: a tuple with the message's key, that agrees. *)
LEMMA GatherFact ==
  ASSUME NEW h, Sound(h), NEW k \in HashKey, NEW v \in Value[k],
         NEW w \in Value[Paired[k]] \cup {Empty},
         v \in DOMAIN h[k] => h[k][v] = Said(k, v, w)
  PROVE  LET d == Gather(h, Said(k, v, w)) IN
           d \in Tuple /\ d[k] = v /\ Agrees(h, d)
<1> DEFINE c == Said(k, v, w)
           c1 == Round(h, c, "uiIP")
           c2 == Round(h, c1, "ucTMSI")
           c3 == Round(h, c2, "ucIMSI")
<1>0. /\ HashKey = {"uiIP", "ucTMSI", "ucIMSI"} /\ HashKey \subseteq Field
      /\ Paired["uiIP"] = "ucIMSI" /\ Paired["ucIMSI"] = "ucTMSI"
      /\ Paired["ucTMSI"] = "llTime"
  BY DEF HashKey, Field, Paired
<1>1. /\ c \in Tuple /\ c[k] = v /\ c[Paired[k]] = w
      /\ \A f \in Field : f # k /\ f # Paired[k] => c[f] = Empty
  BY SaidFact
<1>2. Gather(h, c) = c3
  BY DEF Gather
<1>3. \A d \in Tuple, j \in HashKey : d[j] = Empty => AgreesOn(h, d, j)
  BY FoundFact DEF AgreesOn
<1>4. AgreesOn(h, c, k)
  BY <1>1 DEF AgreesOn, Found
<1>5. v # Empty
  BY KeyFact, <1>1, FieldFact
<1> HIDE DEF c, c1, c2, c3
<1>6. AgreesOn(h, c, "uiIP")
  BY <1>0, <1>1, <1>3, <1>4
<1>7. CASE k = "uiIP"
  <2>1. /\ c1 \in Tuple /\ c1[k] = v
        /\ AgreesOn(h, c1, "uiIP") /\ AgreesOn(h, c1, "ucIMSI")
    BY <1>0, <1>1, <1>5, <1>6, <1>7, RoundFact DEF c1
  <2>2. /\ c2 \in Tuple /\ c2[k] = v
        /\ AgreesOn(h, c2, "uiIP") /\ AgreesOn(h, c2, "ucIMSI")
        /\ AgreesOn(h, c2, "ucTMSI")
    BY <1>0, <1>3, <1>7, <2>1, RoundFact DEF c2
  <2>3. /\ c3 \in Tuple /\ c3[k] = v
        /\ AgreesOn(h, c3, "uiIP") /\ AgreesOn(h, c3, "ucIMSI")
        /\ AgreesOn(h, c3, "ucTMSI")
    BY <1>0, <1>7, <2>2, RoundFact DEF c3
  <2> QED BY <1>0, <1>2, <2>3 DEF Agrees, c
<1>8. CASE k = "ucIMSI"
  <2>1. /\ c1 \in Tuple /\ c1[k] = v
        /\ AgreesOn(h, c1, "uiIP") /\ AgreesOn(h, c1, "ucIMSI")
    BY <1>0, <1>1, <1>4, <1>6, <1>8, RoundFact DEF c1
  <2>2. /\ c2 \in Tuple /\ c2[k] = v
        /\ AgreesOn(h, c2, "uiIP") /\ AgreesOn(h, c2, "ucIMSI")
        /\ AgreesOn(h, c2, "ucTMSI")
    BY <1>0, <1>3, <1>8, <2>1, RoundFact DEF c2
  <2>3. /\ c3 \in Tuple /\ c3[k] = v
        /\ AgreesOn(h, c3, "uiIP") /\ AgreesOn(h, c3, "ucIMSI")
        /\ AgreesOn(h, c3, "ucTMSI")
    BY <1>0, <1>8, <2>2, RoundFact DEF c3
  <2> QED BY <1>0, <1>2, <2>3 DEF Agrees, c
<1>9. CASE k = "ucTMSI"
  <2>1. AgreesOn(h, c, "ucIMSI") /\ AgreesOn(h, c, "ucTMSI")
    BY <1>0, <1>1, <1>3, <1>4, <1>9
  <2>2. /\ c1 \in Tuple /\ c1[k] = v
        /\ AgreesOn(h, c1, "uiIP") /\ AgreesOn(h, c1, "ucIMSI")
        /\ AgreesOn(h, c1, "ucTMSI")
    BY <1>0, <1>1, <1>6, <1>9, <2>1, RoundFact DEF c1
  <2>3. /\ c2 \in Tuple /\ c2[k] = v
        /\ AgreesOn(h, c2, "uiIP") /\ AgreesOn(h, c2, "ucIMSI")
        /\ AgreesOn(h, c2, "ucTMSI")
    BY <1>0, <1>9, <2>2, RoundFact DEF c2
  <2>4. /\ c3 \in Tuple /\ c3[k] = v
        /\ AgreesOn(h, c3, "uiIP") /\ AgreesOn(h, c3, "ucIMSI")
        /\ AgreesOn(h, c3, "ucTMSI")
    BY <1>0, <1>9, <2>3, RoundFact DEF c3
  <2> QED BY <1>0, <1>2, <2>4 DEF Agrees, c
<1> QED BY <1>0, <1>7, <1>8, <1>9

-----------------------------------------------------------------------------
LEMMA NamedFact ==
  ASSUME NEW h, NEW c, NEW j \in HashKey, NEW u
  PROVE  <<j, u>> \in Named(h, c) <=> Found(h, c, j) /\ u = c[j]
  BY DEF Named

LEMMA NamedType ==
  ASSUME NEW h, Sound(h), NEW c \in Tuple
  PROVE  Named(h, c) \in SUBSET UNION {{k} \X Value[k] : k \in HashKey}
  BY FoundFact DEF Named

LEMMA BlankNamesNone ==
  ASSUME NEW h, Sound(h)
  PROVE  \A j \in HashKey : ~Found(h, Blank, j)
  BY BlankFact, FoundFact, KeyFact, FieldFact

(* The parts of the invariant.                                             *)
KeepsSaid ==
  \A k \in HashKey : \A v \in DOMAIN hash[k] : hash[k][v][Paired[k]] = said[k][v]

CopiesSaid ==
  \A k \in HashKey : Found(hash, cur, k) => cur[Paired[k]] = said[k][cur[k]]

AreWritten ==
  \A i \in 1 .. next - 1 :
    next # Done /\ Found(hash, cur, HashKeys[i]) => hash[HashKeys[i]][cur[HashKeys[i]]] = cur

LEMMA InvariantParts ==
  IInv <=> /\ TypeOK
           /\ next = Done => cur = Blank
           /\ KeepsSaid
           /\ CopiesSaid
           /\ AreWritten
           /\ AlikeOutside(cut \cup Named(hash, cur))
  BY DEF IInv, KeepsSaid, CopiesSaid, AreWritten

LEMMA InitInvariant == Init => IInv
<1> SUFFICES ASSUME Init PROVE IInv
  OBVIOUS
<1>1. Sound(hash)
  BY DEF Init, Sound
<1>2. TypeOK
  BY BlankFact, CorrelateAssumption DEF Init, TypeOK, Done
<1>3. \A k \in HashKey : DOMAIN hash[k] = {}
  BY DEF Init
<1>4. KeepsSaid /\ AlikeOutside(cut \cup Named(hash, cur))
  BY <1>3 DEF KeepsSaid, AlikeOutside
<1>5. CopiesSaid
  BY <1>3 DEF CopiesSaid, Found
<1>6. AreWritten
  BY DEF Init, AreWritten
<1> QED BY <1>2, <1>4, <1>5, <1>6, InvariantParts DEF Init

(* An ADD, up to the copying.                                              *)
LEMMA AddKeeps ==
  ASSUME IInv, NEW k \in HashKey, NEW v \in Value[k],
         NEW w \in Value[Paired[k]] \cup {Empty}, Add(k, v, w)
  PROVE  IInv'
<1> DEFINE c == Said(k, v, w)
<1> USE InvariantParts
<1>0. Sound(hash) /\ TypeOK /\ next = Done /\ cur = Blank
  BY DEF TypeOK, Sound, Add
<1>1. c \in Tuple /\ c[k] = v /\ c[Paired[k]] = w
  BY SaidFact
<1>2. \/ hash' = Put(hash, k, v, c)
      \/ hash' = hash /\ v \notin DOMAIN hash[k]
  BY DEF Add, HashTimer_Add
<1>3. Sound(hash') /\ (v \in DOMAIN hash'[k] => hash'[k][v] = c)
  <2>1. CASE hash' = Put(hash, k, v, c)
    <3> HIDE DEF c
    <3>1. Sound(hash')
      BY <1>0, <1>1, <2>1, PutSound
    <3>2. hash'[k][v] = c
      BY <1>0, <2>1, PutFact DEF Sound
    <3> QED BY <3>1, <3>2
  <2>2. CASE hash' = hash /\ v \notin DOMAIN hash[k]
    BY <1>0, <2>2
  <2> QED BY <1>2, <2>1, <2>2
<1>4. \A j \in HashKey : \A u : ~(j = k /\ u = v) /\ u \in DOMAIN hash'[j] =>
        u \in DOMAIN hash[j] /\ hash'[j][u] = hash[j][u]
  <2>1. CASE hash' = Put(hash, k, v, c)
    BY <1>0, <2>1, PutFact DEF Sound
  <2>2. CASE hash' = hash
    BY <2>2
  <2> QED BY <1>2, <2>1, <2>2
<1>5. cur' \in Tuple /\ cur'[k] = v /\ Agrees(hash', cur')
  BY <1>3, GatherFact DEF Add
<1>6. /\ DOMAIN said' = HashKey
      /\ \A j \in HashKey : said'[j] \in [Value[j] -> Value[Paired[j]] \cup {Empty}]
      /\ v \in DOMAIN hash'[k] => said'[k][v] = w
      /\ \A j \in HashKey : \A u \in Value[j] : ~(j = k /\ u = v) => said'[j][u] = said[j][u]
  BY <1>0 DEF Add, TypeOK
<1>7. TypeOK'
  <2>1. next' \in 1 .. Done
    BY DEF Add, Done
  <2>2. deaths' \in 0 .. MaxDeaths /\ cut' \in SUBSET UNION {{j} \X Value[j] : j \in HashKey}
    BY <1>0 DEF Add, TypeOK
  <2> QED BY <1>3, <1>5, <1>6, <2>1, <2>2 DEF TypeOK, Sound
<1>8. KeepsSaid'
  <2> SUFFICES ASSUME NEW j \in HashKey, NEW u \in DOMAIN hash'[j]
               PROVE  hash'[j][u][Paired[j]] = said'[j][u]
    BY DEF KeepsSaid
  <2>1. CASE j = k /\ u = v
    BY <1>1, <1>3, <1>6, <2>1
  <2>2. CASE ~(j = k /\ u = v)
    <3>1. u \in Value[j]
      BY <1>3 DEF Sound
    <3> QED BY <1>4, <1>6, <2>2, <3>1 DEF KeepsSaid
  <2> QED BY <2>1, <2>2
<1>9. CopiesSaid'
  BY <1>5, <1>8 DEF Agrees, AgreesOn, CopiesSaid, KeepsSaid, Found
<1>10. AreWritten'
  BY DEF Add, AreWritten
<1>11. AlikeOutside(cut \cup Named(hash, cur))'
  <2> SUFFICES ASSUME NEW i \in HashKey, NEW j \in HashKey,
                      NEW u \in DOMAIN hash'[i], NEW x \in DOMAIN hash'[j],
                      hash'[i][u][j] = x, hash'[j][x][i] = u,
                      <<i, u>> \notin (cut \cup Named(hash, cur))',
                      <<j, x>> \notin (cut \cup Named(hash, cur))'
               PROVE  hash'[i][u] = hash'[j][x]
    BY DEF AlikeOutside
  <2>1. ~(i = k /\ u = v) /\ ~(j = k /\ x = v)
    BY <1>5, NamedFact DEF Found
  <2>2. /\ u \in DOMAIN hash[i] /\ hash'[i][u] = hash[i][u]
        /\ x \in DOMAIN hash[j] /\ hash'[j][x] = hash[j][x]
    BY <1>4, <2>1
  <2>3. <<i, u>> \notin cut \cup Named(hash, cur) /\ <<j, x>> \notin cut \cup Named(hash, cur)
    BY <1>0, BlankNamesNone, NamedFact DEF Add
  <2> QED BY <2>2, <2>3 DEF AlikeOutside
<1> QED BY <1>7, <1>8, <1>9, <1>10, <1>11 DEF IInv, KeepsSaid, CopiesSaid, AreWritten, Add, Done

(* Copying to the next table.                                              *)
LEMMA CopyKeeps ==
  ASSUME IInv, Copy
  PROVE  IInv'
<1> DEFINE n == HashKeys[next]
           N == Named(hash, cur)
<1> USE InvariantParts
<1>0. /\ Sound(hash) /\ TypeOK /\ next \in 1 .. 3 /\ n \in HashKey
      /\ cur \in Tuple
  BY DEF TypeOK, Sound, Copy, Done, HashKeys, HashKey
<1>1. \/ Found(hash, cur, n) /\ hash' = Put(hash, n, cur[n], cur)
      \/ ~Found(hash, cur, n) /\ hash' = hash
  BY DEF Copy, Copied
<1> HIDE DEF n
<1>2. Sound(hash')
  BY <1>0, <1>1, PutSound, FoundFact
<1>3. \A j \in HashKey :
        /\ DOMAIN hash'[j] = DOMAIN hash[j]
        /\ \A u \in DOMAIN hash[j] :
             hash'[j][u] = IF j = n /\ u = cur[n] THEN cur ELSE hash[j][u]
  <2>1. CASE Found(hash, cur, n) /\ hash' = Put(hash, n, cur[n], cur)
    <3>1. DOMAIN hash = HashKey
      BY <1>0 DEF Sound
    <3>2. /\ DOMAIN hash'[n] = DOMAIN hash[n] /\ hash'[n][cur[n]] = cur
          /\ \A u \in DOMAIN hash[n] : u # cur[n] => hash'[n][u] = hash[n][u]
          /\ \A j \in HashKey : j # n => hash'[j] = hash[j]
      <4> DEFINE v == cur[n]
                 g == Put(hash, n, v, cur)
      <4>1. v \in DOMAIN hash[n]
        BY <2>1 DEF Found
      <4> HIDE DEF v
      <4>2. /\ DOMAIN g[n] = DOMAIN hash[n] \cup {v} /\ g[n][v] = cur
            /\ \A u \in DOMAIN hash[n] : u # v => g[n][u] = hash[n][u]
            /\ \A j \in HashKey : j # n => g[j] = hash[j]
        BY <1>0, <3>1, PutFact
      <4> HIDE DEF g
      <4>3. hash' = g
        BY <2>1 DEF g, v
      <4> QED BY <4>1, <4>2, <4>3 DEF v
    <3> QED BY <3>2
  <2>2. CASE ~Found(hash, cur, n) /\ hash' = hash
    BY <2>2 DEF Found
  <2> QED BY <1>1, <2>1, <2>2
<1>4. /\ next' = next + 1 /\ said' = said /\ deaths' = deaths
      /\ cur' = IF next' = Done THEN Blank ELSE cur
      /\ cut' = IF next' = Done THEN cut \ N ELSE cut
  BY DEF Copy
<1>5. \A j \in HashKey : Found(hash', cur, j) <=> Found(hash, cur, j)
  BY <1>3 DEF Found
<1>6. \A j \in HashKey : \A u : <<j, u>> \in N <=> Found(hash, cur, j) /\ u = cur[j]
  BY NamedFact
<1>7. Named(hash', cur) = N
  BY <1>5 DEF Named
<1>8. TypeOK'
  <2>1. next' \in 1 .. Done
    BY <1>0, <1>4 DEF Done
  <2>2. cur' \in Tuple
    BY <1>0, <1>4, BlankFact
  <2>3. cut' \in SUBSET UNION {{j} \X Value[j] : j \in HashKey}
    BY <1>0, <1>4 DEF TypeOK
  <2>4. /\ deaths' \in 0 .. MaxDeaths /\ DOMAIN said' = HashKey
        /\ \A j \in HashKey : said'[j] \in [Value[j] -> Value[Paired[j]] \cup {Empty}]
    BY <1>0, <1>4 DEF TypeOK
  <2> QED BY <1>2, <2>1, <2>2, <2>3, <2>4 DEF TypeOK, Sound
<1>9. KeepsSaid'
  BY <1>3, <1>4, <1>5 DEF KeepsSaid, CopiesSaid, Found
<1>10. CopiesSaid'
  <2>1. CASE next' = Done
    BY <1>2, <1>4, <2>1, BlankNamesNone DEF CopiesSaid
  <2>2. CASE next' # Done
    BY <1>4, <1>5, <2>2 DEF CopiesSaid
  <2> QED BY <2>1, <2>2
(* Every table written holds the tuple.                                    *)
<1>11. \A i \in 1 .. next :
         Found(hash', cur, HashKeys[i]) => hash'[HashKeys[i]][cur[HashKeys[i]]] = cur
  <2> SUFFICES ASSUME NEW i \in 1 .. next, Found(hash', cur, HashKeys[i])
               PROVE  hash'[HashKeys[i]][cur[HashKeys[i]]] = cur
    OBVIOUS
  <2>0. HashKeys[i] \in HashKey
    BY <1>0 DEF HashKeys, HashKey
  <2>1. Found(hash, cur, HashKeys[i])
    BY <1>5, <2>0
  <2>2. CASE i = next
    BY <1>3, <2>0, <2>1, <2>2 DEF n, Found
  <2>3. CASE i # next
    <3>1. i \in 1 .. next - 1 /\ next # Done
      BY <1>0, <2>3 DEF Done
    <3>2. hash[HashKeys[i]][cur[HashKeys[i]]] = cur
      BY <2>1, <3>1 DEF AreWritten
    <3> QED BY <1>3, <2>0, <2>1, <3>2 DEF Found
  <2> QED BY <2>2, <2>3
<1>12. AreWritten'
  <2>1. CASE next' = Done
    BY <2>1 DEF AreWritten
  <2>2. CASE next' # Done
    BY <1>0, <1>4, <1>11, <2>2 DEF AreWritten
  <2> QED BY <2>1, <2>2
<1>13. AlikeOutside(cut \cup N)
  OBVIOUS
<1>14. CASE next' # Done
  <2>1. cur' = cur /\ cut' = cut /\ Named(hash', cur') = N
    BY <1>4, <1>7, <1>14
  <2>2. AlikeOutside(cut \cup Named(hash, cur))'
    <3> SUFFICES ASSUME NEW i \in HashKey, NEW j \in HashKey,
                        NEW u \in DOMAIN hash'[i], NEW x \in DOMAIN hash'[j],
                        hash'[i][u][j] = x, hash'[j][x][i] = u,
                        <<i, u>> \notin cut \cup N, <<j, x>> \notin cut \cup N
                 PROVE  hash'[i][u] = hash'[j][x]
      BY <2>1 DEF AlikeOutside
    <3>1. /\ u \in DOMAIN hash[i] /\ hash'[i][u] = hash[i][u]
          /\ x \in DOMAIN hash[j] /\ hash'[j][x] = hash[j][x]
      BY <1>0, <1>3, <1>6 DEF Found
    <3> QED BY <1>13, <3>1 DEF AlikeOutside
  <2> QED BY <1>8, <1>9, <1>10, <1>12, <1>14, <2>2 DEF IInv, KeepsSaid, CopiesSaid, AreWritten
<1>15. CASE next' = Done
  <2>1. cur' = Blank /\ cut' = cut \ N /\ next = 3
    BY <1>0, <1>4, <1>15 DEF Done
  <2>2. \A j \in HashKey : Found(hash, cur, j) => hash'[j][cur[j]] = cur
    <3>1. \A j \in HashKey : \E i \in 1 .. next : HashKeys[i] = j
      BY <2>1 DEF HashKeys, HashKey
    <3> QED BY <1>5, <1>11, <3>1
  <2>3. AlikeOutside(cut \cup Named(hash, cur))'
    <3> SUFFICES ASSUME NEW i \in HashKey, NEW j \in HashKey,
                        NEW u \in DOMAIN hash'[i], NEW x \in DOMAIN hash'[j],
                        hash'[i][u][j] = x, hash'[j][x][i] = u,
                        <<i, u>> \notin cut \ N, <<j, x>> \notin cut \ N
                 PROVE  hash'[i][u] = hash'[j][x]
      BY <2>1 DEF AlikeOutside
    <3>1. u \in DOMAIN hash[i] /\ x \in DOMAIN hash[j]
      BY <1>3
    <3>2. <<i, u>> \in N => hash'[i][u] = cur /\ x = cur[j]
      BY <1>6, <2>2
    <3>3. <<j, x>> \in N => hash'[j][x] = cur /\ u = cur[i]
      BY <1>6, <2>2
    <3>4. CASE <<i, u>> \in N \/ <<j, x>> \in N
      <4>1. <<i, u>> \in N /\ <<j, x>> \in N
        BY <1>6, <3>1, <3>2, <3>3, <3>4 DEF Found
      <4> QED BY <3>2, <3>3, <4>1
    <3>5. CASE <<i, u>> \notin N /\ <<j, x>> \notin N
      <4>1. hash'[i][u] = hash[i][u] /\ hash'[j][x] = hash[j][x]
        BY <1>0, <1>3, <1>6, <3>1, <3>5 DEF Found
      <4> QED BY <1>13, <3>1, <3>5, <4>1 DEF AlikeOutside
    <3> QED BY <3>4, <3>5
  <2> QED BY <1>8, <1>9, <1>10, <1>12, <1>15, <2>1, <2>3 DEF IInv, KeepsSaid, CopiesSaid, AreWritten
<1> QED BY <1>14, <1>15

(* A timer removes a node.                                                 *)
LEMMA DelKeeps ==
  ASSUME IInv, NEW k \in HashKey, NEW v \in Value[k], invoke_del(k, v)
  PROVE  IInv'
<1> USE InvariantParts
<1>0. Sound(hash) /\ TypeOK /\ next = Done /\ cur = Blank
  BY DEF TypeOK, Sound, invoke_del
<1>1. /\ DOMAIN hash' = HashKey
      /\ \A j \in HashKey : j # k => hash'[j] = hash[j]
      /\ DOMAIN hash'[k] = DOMAIN hash[k] \ {v}
      /\ \A u \in DOMAIN hash'[k] : hash'[k][u] = hash[k][u]
  BY <1>0 DEF invoke_del, Sound, Restrict
<1>2. Sound(hash')
  <2>1. ASSUME NEW j \in HashKey
        PROVE  /\ DOMAIN hash'[j] \in SUBSET Value[j]
               /\ \A u \in DOMAIN hash'[j] : hash'[j][u] \in Tuple /\ hash'[j][u][j] = u
    <3>1. /\ DOMAIN hash[j] \in SUBSET Value[j]
          /\ \A u \in DOMAIN hash[j] : hash[j][u] \in Tuple /\ hash[j][u][j] = u
      BY <1>0 DEF Sound
    <3>2. CASE j = k
      BY <1>1, <3>1, <3>2
    <3>3. CASE j # k
      BY <1>1, <3>1, <3>3
    <3> QED BY <3>2, <3>3
  <2> QED BY <1>1, <2>1 DEF Sound
<1>3. \A j \in HashKey : \A u \in DOMAIN hash'[j] :
        ~(j = k /\ u = v) /\ u \in DOMAIN hash[j] /\ hash'[j][u] = hash[j][u]
  BY <1>1
<1>4. /\ DOMAIN said' = HashKey
      /\ \A j \in HashKey : said'[j] \in [Value[j] -> Value[Paired[j]] \cup {Empty}]
      /\ \A j \in HashKey : \A u \in Value[j] : ~(j = k /\ u = v) => said'[j][u] = said[j][u]
  BY <1>0 DEF invoke_del, TypeOK
<1>5. TypeOK'
  <2>1. /\ next' \in 1 .. Done /\ cur' \in Tuple /\ deaths' \in 0 .. MaxDeaths
        /\ cut' \in SUBSET UNION {{j} \X Value[j] : j \in HashKey}
    BY <1>0 DEF invoke_del, TypeOK
  <2> QED BY <1>2, <1>4, <2>1 DEF TypeOK, Sound
<1>6. KeepsSaid'
  <2> SUFFICES ASSUME NEW j \in HashKey, NEW u \in DOMAIN hash'[j]
               PROVE  hash'[j][u][Paired[j]] = said'[j][u]
    BY DEF KeepsSaid
  <2>1. /\ u \in DOMAIN hash[j] /\ hash'[j][u] = hash[j][u]
        /\ ~(j = k /\ u = v)
    BY <1>3
  <2>2. u \in Value[j]
    BY <1>0, <2>1 DEF Sound
  <2> QED BY <1>4, <2>1, <2>2 DEF KeepsSaid
<1>7. cur' = Blank /\ next' = Done
  BY <1>0 DEF invoke_del
<1>8. CopiesSaid' /\ AreWritten'
  BY <1>2, <1>7, BlankNamesNone DEF CopiesSaid, AreWritten
<1>9. AlikeOutside(cut \cup Named(hash, cur))'
  <2> SUFFICES ASSUME NEW i \in HashKey, NEW j \in HashKey,
                      NEW u \in DOMAIN hash'[i], NEW x \in DOMAIN hash'[j],
                      hash'[i][u][j] = x, hash'[j][x][i] = u,
                      <<i, u>> \notin (cut \cup Named(hash, cur))',
                      <<j, x>> \notin (cut \cup Named(hash, cur))'
               PROVE  hash'[i][u] = hash'[j][x]
    BY DEF AlikeOutside
  <2>1. /\ u \in DOMAIN hash[i] /\ hash'[i][u] = hash[i][u] /\ <<i, u>> # <<k, v>>
        /\ x \in DOMAIN hash[j] /\ hash'[j][x] = hash[j][x] /\ <<j, x>> # <<k, v>>
    BY <1>3
  <2>2. <<i, u>> \notin cut \cup Named(hash, cur) /\ <<j, x>> \notin cut \cup Named(hash, cur)
    BY <1>0, <2>1, BlankNamesNone, NamedFact DEF invoke_del
  <2> QED BY <2>1, <2>2 DEF AlikeOutside
<1> QED BY <1>5, <1>6, <1>7, <1>8, <1>9 DEF IInv, KeepsSaid, CopiesSaid, AreWritten

(* The process dies and starts again.                                      *)
LEMMA DieKeeps ==
  ASSUME IInv, Die
  PROVE  IInv'
<1> USE InvariantParts
<1>0. Sound(hash) /\ TypeOK /\ cur \in Tuple
  BY DEF TypeOK, Sound
<1>1. hash' = hash /\ said' = said /\ cur' = Blank /\ next' = Done
  BY DEF Die
<1>2. cut' = cut \cup Named(hash, cur)
  <2>1. CASE next = Done
    <3>1. Named(hash, cur) = {}
      BY <1>0, <2>1, BlankNamesNone DEF Named
    <3> QED BY <2>1, <3>1 DEF Die
  <2>2. CASE next # Done
    BY <2>2 DEF Die
  <2> QED BY <2>1, <2>2
<1>3. TypeOK'
  <2>1. cut' \in SUBSET UNION {{j} \X Value[j] : j \in HashKey}
    BY <1>0, <1>2, NamedType DEF TypeOK
  <2>2. deaths' \in 0 .. MaxDeaths
    BY <1>0, CorrelateAssumption DEF Die, TypeOK
  <2>3. next' \in 1 .. Done /\ cur' \in Tuple
    BY <1>1, BlankFact DEF Done
  <2>4. Sound(hash')
    BY <1>0, <1>1
  <2>5. /\ DOMAIN said' = HashKey
        /\ \A j \in HashKey : said'[j] \in [Value[j] -> Value[Paired[j]] \cup {Empty}]
    BY <1>0, <1>1 DEF TypeOK
  <2> QED BY <2>1, <2>2, <2>3, <2>4, <2>5 DEF TypeOK, Sound
<1>4. KeepsSaid' /\ CopiesSaid' /\ AreWritten'
  BY <1>0, <1>1, BlankNamesNone DEF KeepsSaid, CopiesSaid, AreWritten
<1>5. AlikeOutside(cut \cup Named(hash, cur))'
  BY <1>1, <1>2 DEF AlikeOutside
<1> QED BY <1>1, <1>3, <1>4, <1>5 DEF IInv, KeepsSaid, CopiesSaid, AreWritten

(* The invariant of Correlate, checked by the run "logs" on a small        *)
(* instance.                                                               *)
THEOREM Invariant == Spec => []IInv
<1>1. IInv /\ [Next]_vars => IInv'
  <2> SUFFICES ASSUME IInv, [Next]_vars PROVE IInv'
    OBVIOUS
  <2>1. ASSUME NEW k \in HashKey, NEW v \in Value[k],
               NEW w \in Value[Paired[k]] \cup {Empty}, Add(k, v, w)
        PROVE  IInv'
    BY <2>1, AddKeeps
  <2>2. ASSUME NEW k \in HashKey, NEW v \in Value[k], invoke_del(k, v)
        PROVE  IInv'
    BY <2>2, DelKeeps
  <2>3. CASE UNCHANGED vars
    <3>1. /\ hash' = hash /\ next' = next /\ cur' = cur /\ deaths' = deaths
          /\ said' = said /\ cut' = cut
      BY <2>3 DEF vars
    <3>2. TypeOK'
      BY <3>1 DEF IInv, TypeOK
    <3>3. AlikeOutside(cut \cup Named(hash, cur))'
      BY <3>1 DEF IInv, AlikeOutside
    <3> QED BY <3>1, <3>2, <3>3 DEF IInv
  <2> QED BY <2>1, <2>2, <2>3, CopyKeeps, DieKeeps DEF Next
<1> QED BY <1>1, InitInvariant, PTL DEF Spec

THEOREM TypeCorrect == Spec => []TypeOK
<1>1. IInv => TypeOK
  BY DEF IInv
<1> QED BY <1>1, Invariant, PTL

-----------------------------------------------------------------------------
(* A message with one key gets the copy of the key's node, if it has one.  *)
LEMMA OnlyFact ==
  ASSUME Sound(hash), NEW k \in HashKey, NEW v \in Value[k]
  PROVE  /\ Only(k, v) \in Tuple
         /\ Only(k, v)[k] = v
         /\ \A j \in HashKey : j # k => Only(k, v)[j] = Empty
         /\ v # Empty
         /\ Get_HashoData(Only(k, v)) =
              IF v \in DOMAIN hash[k] THEN hash[k][v] ELSE Only(k, v)
<1> DEFINE m == Only(k, v)
           Looked == {HashKeys[i] : i \in {i \in 1 .. 3 : IsFirst(i, m)}}
<1>1. /\ m \in Tuple /\ m[k] = v /\ v # Empty
      /\ \A j \in HashKey : j # k => m[j] = Empty
  BY BlankFact, KeyFact, SetFact, FieldFact DEF Only
<1>2. Looked = {k}
  <2> HIDE DEF m
  <2>1. HashKey = {HashKeys[1], HashKeys[2], HashKeys[3]}
    BY DEF HashKey, HashKeys
  <2>2. \A i \in 1 .. 3 : HashKeys[i] \in HashKey
    BY <2>1
  <2>3. \A i \in 1 .. 3 : \A j \in 1 .. i - 1 : HashKeys[i] # HashKeys[j] /\ HashKeys[j] \in HashKey
    BY DEF HashKey, HashKeys
  <2>4. \A i \in 1 .. 3 : IsFirst(i, m) <=> HashKeys[i] = k
    BY <1>1, <2>2, <2>3 DEF IsFirst
  <2>5. \E i \in 1 .. 3 : HashKeys[i] = k
    BY <2>1
  <2> QED BY <2>4, <2>5
<1>3. Get_HashoData(m) = IF \E j \in Looked : Found(hash, m, j)
                         THEN LET j == CHOOSE j \in Looked : TRUE IN hash[j][m[j]]
                         ELSE m
  BY DEF Get_HashoData
<1> HIDE DEF m, Looked
<1>4. Get_HashoData(m) = IF v \in DOMAIN hash[k] THEN hash[k][v] ELSE m
  BY <1>1, <1>2, <1>3 DEF Found
<1> QED BY <1>1, <1>4 DEF m

(* What a log message is filled with is what was said last.                *)
THEOREM LogsGetWhatWasSaid == Spec => []LatestSaid
<1>1. IInv => LatestSaid
  <2> SUFFICES ASSUME IInv, NEW k \in HashKey, NEW v \in DOMAIN hash[k]
               PROVE  Get_HashoData(Only(k, v))[Paired[k]] = said[k][v]
    BY DEF LatestSaid
  <2>1. Sound(hash) /\ v \in Value[k]
    BY DEF IInv, TypeOK, Sound
  <2>2. Get_HashoData(Only(k, v)) = hash[k][v]
    BY <2>1, OnlyFact
  <2> QED BY <2>2 DEF IInv
<1> QED BY <1>1, Invariant, PTL

(* Two log messages of one subscriber are filled alike.                    *)
THEOREM LogsOfOneAgree == Spec => []LogsAgree
<1>1. IInv => LogsAgree
  <2> SUFFICES ASSUME IInv, next = Done,
                      NEW k \in HashKey, NEW j \in HashKey,
                      NEW v \in Value[k], NEW w \in Value[j],
                      Get_HashoData(Only(k, v))[j] = w,
                      Get_HashoData(Only(j, w))[k] = v,
                      <<k, v>> \notin cut, <<j, w>> \notin cut
               PROVE  Get_HashoData(Only(k, v)) = Get_HashoData(Only(j, w))
    BY DEF LogsAgree
  <2>1. Sound(hash) /\ cur = Blank
    BY DEF IInv, TypeOK, Sound
  <2>2. Named(hash, cur) = {}
    BY <2>1, BlankNamesNone DEF Named
  <2>3. CASE k = j
    <3>1. v = w
      <4>1. Get_HashoData(Only(k, v))[k] = v
        <5>1. CASE v \in DOMAIN hash[k]
          <6>1. Get_HashoData(Only(k, v)) = hash[k][v]
            BY <2>1, <5>1, OnlyFact
          <6> QED BY <2>1, <5>1, <6>1 DEF Sound
        <5>2. CASE v \notin DOMAIN hash[k]
          <6>1. Get_HashoData(Only(k, v)) = Only(k, v) /\ Only(k, v)[k] = v
            BY <2>1, <5>2, OnlyFact
          <6> QED BY <6>1
        <5> QED BY <5>1, <5>2
      <4> QED BY <2>3, <4>1
    <3> QED BY <2>3, <3>1
  <2>4. CASE k # j
    <3>1. v \in DOMAIN hash[k] /\ w \in DOMAIN hash[j]
      BY <2>1, <2>4, OnlyFact
    <3>2. Get_HashoData(Only(k, v)) = hash[k][v] /\ Get_HashoData(Only(j, w)) = hash[j][w]
      BY <2>1, <3>1, OnlyFact
    <3>3. AlikeOutside(cut)
      BY <2>2 DEF IInv
    <3> QED BY <3>1, <3>2, <3>3 DEF AlikeOutside
  <2> QED BY <2>3, <2>4
<1> QED BY <1>1, Invariant, PTL
=============================================================================
