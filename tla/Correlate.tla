------------------------------- MODULE Correlate -------------------------------
(***************************************************************************)
(* The correlation data of CO_LOG (ref_lib/structg/co_log_main.stc): what  *)
(* the process knows of a subscriber, STG_HASHKEY, and the hash tables it  *)
(* keeps copies of it in, one table per key.  A correlation message says   *)
(* which value of the next field belongs to a value of a key; the copies   *)
(* of all the keys that the message and the tables name are then made      *)
(* alike, one after the other.  A log message, which carries some of the   *)
(* fields, takes the others from the first table it has a key of.          *)
(*                                                                         *)
(* The fields and the order of the tables are those of the structure the   *)
(* template's own comments use (llTime, ucTMSI, ucIMSI, uiIP): structg     *)
(* makes a table of each field but the first, paired with the field before *)
(* it, and ITERATE takes the keys in the reverse order of their names.     *)
(*                                                                         *)
(* Abstractions.  The timers are CoLog's: here a node may expire at any    *)
(* time between two messages, and a DEL message, which only moves a timer, *)
(* has no action.  The tables are in shared memory: the process may die    *)
(* between two of the writes of a message and start again.                 *)
(***************************************************************************)
EXTENDS Integers, FiniteSets, Functions, TLC

CONSTANTS
  Times, Tmsis, Imsis, Ips,   (* the values of each field                  *)
  Empty,        (* a field that is not filled                              *)
  TotCnt,       (* per key: the nodes its table has room for               *)
  MaxDeaths     (* bound: times the process dies                           *)

ASSUME CorrelateAssumption ==
  /\ Empty \notin Times \cup Tmsis \cup Imsis \cup Ips
  /\ TotCnt \in [{"ucTMSI", "ucIMSI", "uiIP"} -> Nat]
  /\ MaxDeaths \in Nat

VARIABLES
  hash,     (* per table: the copy of each value of its key that has a node*)
  next,     (* the table Set_HashoData copies to next, of HashKeys         *)
  cur,      (* aSTG_HASHKEY, what it copies                                *)
  deaths,
  said,     (* history: what the last message about a key said             *)
  cut       (* history: the keys whose copies a death left half made       *)

vars == <<hash, next, cur, deaths, said, cut>>

Field == {"llTime", "ucTMSI", "ucIMSI", "uiIP"}
Value == [llTime |-> Times, ucTMSI |-> Tmsis, ucIMSI |-> Imsis, uiIP |-> Ips]
Tuple == [llTime : Times \cup {Empty}, ucTMSI : Tmsis \cup {Empty},
          ucIMSI : Imsis \cup {Empty}, uiIP : Ips \cup {Empty}]

HashKeys == <<"uiIP", "ucTMSI", "ucIMSI">>
HashKey == {"uiIP", "ucTMSI", "ucIMSI"}
Done == 4
(* The field a key's table pairs it with.                                  *)
Paired == [uiIP |-> "ucIMSI", ucIMSI |-> "ucTMSI", ucTMSI |-> "llTime"]

Blank == [f \in Field |-> Empty]

Init ==
  /\ hash = [k \in HashKey |-> <<>>]
  /\ next = Done /\ cur = Blank
  /\ deaths = 0
  /\ said = [k \in HashKey |-> [v \in Value[k] |-> Empty]]
  /\ cut = {}

Found(h, c, k) == c[k] \in DOMAIN h[k]

(* The keys of a tuple that have a node.                                   *)
Named(h, c) == {<<k, c[k]>> : k \in {j \in HashKey : Found(h, c, j)}}

Put(h, k, v, c) ==
  [h EXCEPT ![k] = [u \in DOMAIN h[k] \cup {v} |-> IF u = v THEN c ELSE h[k][u]]]

-----------------------------------------------------------------------------
(* The fields of a table, the key and the one it is paired with, are taken *)
(* from its node; the key is the node's already.                           *)
Pull(h, c, k) ==
  IF Found(h, c, k)
  THEN [c EXCEPT ![k] = h[k][c[k]][k], ![Paired[k]] = h[k][c[k]][Paired[k]]]
  ELSE c

(* A round through the tables, for a key that is present.                  *)
Round(h, c, k) ==
  IF c[k] # Empty
  THEN Pull(h, Pull(h, Pull(h, c, "uiIP"), "ucTMSI"), "ucIMSI")
  ELSE c

(* Mutant: one round is taken to be enough.                                *)
Gather_Once(h, c) ==
  Pull(h, Pull(h, Pull(h, c, "uiIP"), "ucTMSI"), "ucIMSI")

(* One for each key: it may bring the key of the next.                     *)
Gather(h, c) == Round(h, Round(h, Round(h, c, "uiIP"), "ucTMSI"), "ucIMSI")

Said(k, v, w) == [Blank EXCEPT ![k] = v, ![Paired[k]] = w]

(* Mutant: a node that is there already keeps its copy.                    *)
HashTimer_Add_Keep(h, k, v, c) ==
  IF v \notin DOMAIN h[k] /\ Cardinality(DOMAIN h[k]) < TotCnt[k]
  THEN Put(h, k, v, c) ELSE h

(* The key's node, made if there is room, holds the message's fields alone.*)
HashTimer_Add(h, k, v, c) ==
  IF v \in DOMAIN h[k] \/ Cardinality(DOMAIN h[k]) < TotCnt[k]
  THEN Put(h, k, v, c) ELSE h

(* Proc_Corelation_Message, an ADD of key v of table k with value w of the *)
(* paired field, up to the copying.                                        *)
Add(k, v, w) ==
  /\ next = Done
  /\ hash' = HashTimer_Add(hash, k, v, Said(k, v, w))
  /\ cur' = Gather(hash', Said(k, v, w))
  /\ next' = 1
  /\ said' = [said EXCEPT ![k][v] = IF v \in DOMAIN hash'[k] THEN w ELSE Empty]
  /\ UNCHANGED <<deaths, cut>>

(* Mutant: it is not asked whether there is a node.                        *)
Copied_Unasked(h, c, k) == Put(h, k, c[k], c)

Copied(h, c, k) == IF Found(h, c, k) THEN Put(h, k, c[k], c) ELSE h

(* Mutant: the first table is taken to be up to date already.              *)
Copy_NotFirst ==
  /\ next # Done
  /\ hash' = IF next = 1 THEN hash ELSE Copied(hash, cur, HashKeys[next])
  /\ next' = next + 1
  /\ cur' = IF next' = Done THEN Blank ELSE cur
  /\ cut' = IF next' = Done THEN cut \ Named(hash, cur) ELSE cut
  /\ UNCHANGED <<deaths, said>>

(* Set_HashoData copies to the next table's node.                          *)
Copy ==
  /\ next # Done
  /\ hash' = Copied(hash, cur, HashKeys[next])
  /\ next' = next + 1
  /\ cur' = IF next' = Done THEN Blank ELSE cur
  /\ cut' = IF next' = Done THEN cut \ Named(hash, cur) ELSE cut
  /\ UNCHANGED <<deaths, said>>

(* A timer removes a node, see CoLog.                                      *)
invoke_del(k, v) ==
  /\ next = Done
  /\ v \in DOMAIN hash[k]
  /\ hash' = [hash EXCEPT ![k] = Restrict(hash[k], DOMAIN hash[k] \ {v})]
  /\ said' = [said EXCEPT ![k][v] = Empty]
  /\ cut' = cut \ {<<k, v>>}
  /\ UNCHANGED <<next, cur, deaths>>

(* The process dies, also in the middle of a message, and starts again     *)
(* with the tables as they are.                                            *)
Die ==
  /\ deaths < MaxDeaths
  /\ deaths' = deaths + 1
  /\ next' = Done /\ cur' = Blank
  /\ cut' = IF next = Done THEN cut ELSE cut \cup Named(hash, cur)
  /\ UNCHANGED <<hash, said>>

Next ==
  \/ \E k \in HashKey : \E v \in Value[k] :
       \/ \E w \in Value[Paired[k]] \cup {Empty} : Add(k, v, w)
       \/ invoke_del(k, v)
  \/ Copy
  \/ Die

Spec == Init /\ [][Next]_vars

-----------------------------------------------------------------------------
(* Which key of a log message is looked up: the first that is present.     *)
IsFirst(i, m) ==
  m[HashKeys[i]] # Empty /\ \A j \in 1 .. i - 1 : m[HashKeys[j]] = Empty

(* What a log message with the fields m goes on with to M_LOG: the copy of *)
(* the node of its first key, its own fields if that key has none.         *)
Get_HashoData(m) ==
  LET Looked == {HashKeys[i] : i \in {i \in 1 .. 3 : IsFirst(i, m)}} IN
    IF \E k \in Looked : Found(hash, m, k)
    THEN LET k == CHOOSE k \in Looked : TRUE IN hash[k][m[k]]
    ELSE m

-----------------------------------------------------------------------------
(* Properties                                                              *)

Only(k, v) == [Blank EXCEPT ![k] = v]

(* Every variable keeps its type.                                          *)
TypeOK ==
  /\ DOMAIN hash = HashKey
  /\ \A k \in HashKey :
       /\ DOMAIN hash[k] \in SUBSET Value[k]
       /\ \A v \in DOMAIN hash[k] : hash[k][v] \in Tuple /\ hash[k][v][k] = v
  /\ next \in 1 .. Done
  /\ cur \in Tuple
  /\ deaths \in 0 .. MaxDeaths
  /\ DOMAIN said = HashKey
  /\ \A k \in HashKey : said[k] \in [Value[k] -> Value[Paired[k]] \cup {Empty}]
  /\ cut \in SUBSET UNION {{k} \X Value[k] : k \in HashKey}

(* Two log messages of the same subscriber are filled alike: when what a   *)
(* message with one key gets names the other's key, and the other way      *)
(* about, they get the same.  Set_HashoData is there to make the tables    *)
(* agree (co_log_main.stc:889); only a death between its writes leaves two *)
(* that name each other and differ, until a message names them again.      *)
LogsAgree ==
  next = Done =>
    \A k, j \in HashKey : \A v \in Value[k], w \in Value[j] :
      LET a == Get_HashoData(Only(k, v))
          b == Get_HashoData(Only(j, w)) IN
        /\ a[j] = w /\ b[k] = v
        /\ <<k, v>> \notin cut /\ <<j, w>> \notin cut
        => a = b

(* A log message gets for its key what the last correlation message about  *)
(* that key said, whatever was copied to the node since, from whichever    *)
(* table, and wherever the process died.                                   *)
LatestSaid ==
  \A k \in HashKey : \A v \in DOMAIN hash[k] :
    Get_HashoData(Only(k, v))[Paired[k]] = said[k][v]

(* Two nodes that name each other are equal, of keys outside S.            *)
AlikeOutside(S) ==
  \A k, j \in HashKey : \A v \in DOMAIN hash[k], w \in DOMAIN hash[j] :
    /\ hash[k][v][j] = w /\ hash[j][w][k] = v
    /\ <<k, v>> \notin S /\ <<j, w>> \notin S
    => hash[k][v] = hash[j][w]

(* The inductive invariant: every node keeps what was said of its key, and *)
(* what is being copied says the same of each key it will be written to;   *)
(* the tables already written hold it; the nodes it does not name agree.   *)
IInv ==
  /\ TypeOK
  /\ next = Done => cur = Blank
  /\ \A k \in HashKey : \A v \in DOMAIN hash[k] :
       hash[k][v][Paired[k]] = said[k][v]
  /\ \A k \in HashKey : Found(hash, cur, k) => cur[Paired[k]] = said[k][cur[k]]
  /\ \A i \in 1 .. next - 1 :
       LET k == HashKeys[i] IN
         next # Done /\ Found(hash, cur, k) => hash[k][cur[k]] = cur
  /\ AlikeOutside(cut \cup Named(hash, cur))
=============================================================================
