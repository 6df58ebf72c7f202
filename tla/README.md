# A verification project for CGA_AGP's run-time libraries

CGA_AGP generates call-correlation programs (CO_LOG and its relatives) from
table templates. What runs on site is the generated main loop over a handful of
C libraries in `src/ref_lib`: pools of memory nodes in shared memory, hash
tables, a timer wheel, and message queues. Those libraries and that loop hold
the system's state and its concurrency; they are what this directory models in
TLA+, checks with TLC and proves with TLAPS. (More than nine tenths of the
repository's lines are ASN.1 codecs in `ref_lib/example`, generated by another
maker's compiler; nothing here is about them.)

## 1. Inventory

| Part | State | Operations | Used by |
|---|---|---|---|
| **mems** (`mems/mems.c`) | a segment of nodes with `ucIsFree` and `TimeSec` each, the scan position `offsetFreeList`, two counters, one SysV semaphore | `mems_init`, `mems_alloc` (under the semaphore), `mems_free` and `mems_garbage_collector` (not under it) | nifo, every process of the system |
| **nifo** (`nifo/nifo.c`) | messages: nodes of mems linked by offsets in two directions (continue and next), sent as offsets over SysV queues; in the nodes, TLVs that may run over from one into the next | `nifo_node_alloc`, `nifo_node_link_*`, `nifo_msg_write`, `nifo_msg_read`, `nifo_node_delete`; `nifo_tlv_alloc`, `nifo_copy_tlv_cont`, `nifo_read_tlv_cont`, `nifo_get_tlv_cont` | all messages between processes |
| **hashg** (`hashg/hash.c`) | buckets and doubly linked chains in malloc'ed memory | `hashg_add`, `hashg_find`, `hashg_del`, `hashg_link_node`, `hashg_unlink_node` | timerN |
| **hasho** (`hasho/hasho.c`) | the same by offsets, in shared memory that outlives the process | `hasho_add`, `hasho_find`, `hasho_del` | CO_LOG's session tables |
| **memg** (`memg/memg.c`) | the single-process pool under hasho: marks, a count, a scan position | `memg_init`, `memg_alloc`, `memg_free` | hasho |
| **timerN** (`timerN/timerN.c`) | a wheel of 86400 slots in a hashg, `uiCurrentTime`, `uiTimerNIdIndex`, `uiNodeCnt` | `timerN_add`, `timerN_del`, `timerN_update`, `timerN_invoke`; the first, third and fourth call the user back | CO_LOG's session time-outs and statistics |
| **CO_LOG** (`structg/co_log_main.stc`) | session tables in shared memory, one per key of a subscriber (IP, TMSI, IMSI), one timer per session in its own memory, copies of log messages in its heap | `HashTimer_Add`, `HashTimer_Del`, `Set_HashoData*`, `Get_HashoData`, `invoke_del`, `invoke_call_stat`, `TimerN_Reset`, the main loop | the running program |
| clisto, listo, hlisto | offset-linked lists | link, unlink, walk | nifo (its copy of clisto), tables |
| state diagrams (`structg/flow.stg`, `STATE_DIAGRAM.stc`) | per session a state `STS_*` and a node with the page's body | one step per log message, more by CONTINUE up to a loop limit | earlier versions of the generated flow code |
| dlinkUtil, abprotocol, structg.pl, a.pl, m.pl, r.pl | trees, decoder templates, text generators | build, print | at generation time |

How they interact. Processes share mems's segment and nothing else but the
queues; a message is passed by its offset, so *ownership* of nodes moves with a
`msgsnd`/`msgrcv` pair that the pool does not see. Inside CO_LOG the libraries
call back: `timerN_invoke` calls `invoke_del`, which deletes a session from a
hasho table; the session's node holds the handle of its timer, the timer's
argument the session's key, and each side trusts the other to be current.
The table outlives the process, the wheel does not. A correlation message
writes one table and then makes all the others it can reach agree with it; a
log message asks one of them for what it does not carry.

What is hard, and what makes each part correct:

* **mems** — interleaving of four kinds of steps by many processes, only one of
  them locked; processes that die anywhere, with the kernel's SEM_UNDO the only
  thing between a death and a deadlock; a collector that checks and then acts.
  Correct means: the semaphore survives every death; a node has one owner; NULL
  is returned only when there was no node; the collector frees only what is
  past the limit; what the dead leave behind comes back.
* **timerN** — re-entrancy: callbacks add, delete and update while their own
  chain is drained; a wheel where second *t* and *t* + 86400 share a slot; a
  notion of now one second ahead of the clock. Correct means: each timer fires
  once, in its own second, not before its time, and in the end; a handle finds
  its node; the count is the count.
* **CO_LOG, sessions** — two tables that must agree, one of which dies with the
  process; handles that change; a wheel that refuses. Correct means: a session
  has exactly one timer and a timer its session; every session ends; nothing of
  a dead heap is freed.
* **CO_LOG, correlation** — the same facts in several tables under different
  keys, each copy overwriting fields that came by another way, and a death
  between any two copies. Correct means: a log is filled with what was said
  last, and the same whichever key it is looked up by.
* **nifo, messages** — ownership across processes; the collector's limit against
  queueing delay; a message half built when a node cannot be had.
* **nifo, TLVs** — headers and values cut at the ends of nodes, the cuts found
  by writer and reader independently. Correct means: what is written is read,
  in order, once, and reading ends.
* **hasho, memg** — link and unlink at head, middle and tail; the chain, the
  marks and the count must tell the same story, also to a process that finds
  them as the last one left them.

`PROJECT.json` lists every component with its status, and under `hazards` every
place where such a thing can go wrong, with the property that watches it.

## 2. Plan

Done, in order of importance:

1. `PoolSpec`, `MemsPool`, `MemsPoolProofs`: the shared pool.
2. `TimerSpec`, `TimerN`, `TimerNProofs`: the wheel.
3. `CoLog` over `TimerN`, `CoLogProofs`: sessions, time-outs, restarts.
4. `MsgSpec`, `Nifo`, `NifoProofs`: messages of shared nodes.
5. `TableSpec`, `Hasho`, `HashoProofs`: the hash table and pool in shared memory.
6. `NifoTlv`, `NifoTlvProofs`: TLVs over the nodes of a message.
7. `Correlate`, `CorrelateProofs`: what CO_LOG knows of a subscriber.

Left, in the order we would take it:

8. `MemsInit`: create or attach of the segment. An attacher accepts the segment
   as soon as `uiSemKey` is stored (`mems.c:280`, `312`), before `iSemID` and
   the nodes' ids (`mems.c:313`, `329-337`).
9. `StatTimer`: the timer that deletes and re-adds itself from its callback.

## 3. Modules

**`PoolSpec`** is what a pool promises: a node is granted to nobody, to a
client, or lost with a dead one; only free nodes are granted, only the holder
gives back, only lost nodes are collected. One death in particular (section 5)
may ruin the pool (`overrun`): from then on it may also grant what lies behind
its nodes, which is never free again.

**`MemsPool`** is `mems.c` step by step. `pc[p]` is where a process is; an
action is what a process does between two points where another can be noticed:
`AllocLock` is `P` with SEM_UNDO. A turn of the loop at `mems.c:387-418` is
`Advance`, the store that moves `offsetFreeList` on; `Wrap`, the second store
that starts it over at the end of the pool (`mems.c:390-392`); and a look at the
place, `ScanHit`, `ScanMiss` or `ScanFault`. Then `Mark` is the store of
`ucIsFree`, `Count` the counter, `Unlock` `V` and the return. `mems_free` is
`FreeCheck`/`FreeRefuse`, `FreeClear`, and a read and a write for `delCnt++`;
its `P` and `V` are commented out in the code and so are absent.
`mems_garbage_collector` is `GcStart`, then `GcTake` or `GcSkip` per node, where
`GcTake` goes to the steps of `mems_free`. `Crash` may come at any step and adds
`semadj` to the semaphore as the kernel does. `TimeSec` is kept as the one fact
the code asks of it, `n \in stale`; `Age` lets timegap pass. `OwnersPrompt` says
that no live process holds a node longer than timegap; without it see section 5.
`owned` is what callers hold: it is not in the code, it is what the code is for.

A process that dies between the two stores leaves `offsetFreeList` at
`offsetNodeEnd`, where the `==` never meets it again, and the next scans walk on
behind the pool. So an offset is the number of a *place*: the nodes, `Past`
places behind them, and one offset for all that is further. The kernel maps
whole pages of zeros, so the first places behind the nodes look free and can be
granted; `mems_free` refuses them, as only nodes have a `MEMS_ID`; a process
that touches what is not mapped dies (`ScanFault`). We take a place that the
last page cuts for one that is not mapped, and assume that nothing else is
mapped behind the segment. `Overrun` is the state after such a death.

**`TimerSpec`** is what a timer service promises. **`TimerN`** is `timerN.c` over
`hash.c`. A node is its index, a handle the pair of index and time; a chain is
the set of nodes with that slot, and `Find` recomputes the slot from the time in
the handle as `hashg_find` does. `stack` holds the callbacks that have not
returned: while it is not empty the user runs inside the library and may take
any action of `Add`, `Del`, `Update` (`UserRuns`), except `timerN_invoke`
itself. `AddRefused` covers a time beyond the window, a full table and a
failing malloc, all of which return 0 after `uiTimerNIdIndex` was incremented.
`timerN_update` has three outcomes; `UpdateFar` is the one that changes the key
and leaves the node where it was (`FarUpdates` switches it on).

**`CoLog`** is one session table and its wheel. `Wheel` is an instance of
`TimerN` on CoLog's own variables, so a session's timer is a real node of a real
wheel and every action says which step of the wheel it takes. `Hang` is
`timerN_add` with the handle put into the session's node, `Rehang` is
`timerN_update` with the handle found there, whose result both callers drop.
`Poll` is the main loop's test and call (`co_log_main.stc:254`),
`Drain`/`NextSecond` the loop inside it, `invoke_del` the callback. `Restart`
is a new process: a fresh wheel, the old table, and `TimerN_Reset` with its
condition as written (`ResetTakes`). `orphans` is history, not code: the
sessions whose timer `timerN_add` refused, or whose timer was in the memory of
a process that is no more.

**`MsgSpec`** is what passing messages in shared memory promises: a node has one
holder, a process, a queue, nobody, or it is lost; messages change hands as a
whole. **`Nifo`** is `nifo.c` on top of the pool. `nont` and `cont` are the two
`clist_head`s of each node, the `clist_*` operators those of `clisto.stg` cell by
cell. `pc[p]` and `cur[p]` say where a process is in `nifo_msg_write`
(`WriteCheck`, `WriteSend`), `nifo_msg_read` (`ReadReceive`, `ReadCheck`) and
`nifo_node_delete` (`DeleteCall`, then `nifo_cont_delete` per node, which moves
on by `DeleteNext`). Here `mems_alloc` and `mems_free` are single steps, which
`ImplementsPool` justifies; the collector keeps its two. A failed check or free
is `exit(0)`, as in the code (`Exit`). `held` is what the callers have, and a
process that dies has nothing any more; its queue lives on. `Prompt` says that
nothing a live process or a queue has goes unstamped for timegap. `Ring` is what
a walk along one of the `clist_head`s visits, written as the least set that
holds the node and is closed under `offset_next`, so that it can be reasoned
about without induction over the walk.

**`NifoTlv`** is the inside of one message. `lastoffset`, `cnt` and `bytes` are
those fields of its nodes, from the head along the cont ring; a byte is a pair
of the TLV it belongs to and its place in it, so that a misplaced byte can be
told from the right one. `nifo_tlv_alloc` writes into the head alone;
`nifo_copy_tlv_cont` takes one of its three ways (`CopyWhole`, `CopyHeader`,
`CopySplit`) and then a step per turn of the loop over the value (`CopyPart`),
each of which may fail for want of a node. `CopiedFrom` is the argument of the
loop's `memcpy`. `place` is history: which byte of which TLV each written byte
is in the place of, the two being different only behind the first part of a
value in several. The readers share `ReadPart`, one turn of the loops at
`nifo.c:817-831` and `849-863` and of their twins in `nifo_get_tlv_cont`;
`ReadNext` computes `*nexttlv`. A header that is not one that was written sends
the reader to `lost`, from where there is no way on. The user of the model
deletes a message whose writing failed; it does not use nodes it linked itself
by `nifo_node_link_cont`, see section 5.

**`TableSpec`** is what a hash table in shared memory promises: calls take
effect at one instant, or not at all if the process dies; a refused add means
that the keys and the deaths together fill the table, or that a death has ruined
its pool, in which case an add may also kill the process. **`Hasho`** is
`hasho.c` over `memg.c`. One step is one store into the segment, or one turn of
a loop that only reads: `Walk`, `Found`, `Missed` are `hasho_find` for its three
callers, a turn of `memg_alloc`'s scan is `Advance`, `Wrap` and one of `Take`,
`Skip` and `Fault`, over places as in `MemsPool` (`memg.c:238-265`), `Count` its
counter, `LinkPrev`/`LinkHead` the two stores of `hasho_link_node` that others
can see (the fields of the new node are private until one of them),
`UnlinkNext`/`UnlinkPrev` those of `hasho_unlink_node`, `Free`/`Uncount` those
of `memg_free`. `Die` may come before any of them and the next process goes on
with the segment as it is, as `memg_init` and `hasho_init` do; only between the
two stores of one link or unlink it needs `Torn`. `chain` is history: what each
node's part of its chain must be.

**`Correlate`** is the data of CO_LOG's tables, which `CoLog` leaves out. The
tuple is `STG_HASHKEY` with the fields the template's own comments use; which
table pairs its key with which field (`Paired`) and in which order `ITERATE`
visits them (`HashKeys`) come from `structg.pl`. `Add` is the handler of a
correlation message: the node of its key is overwritten (`HashTimer_Add`), then
`Gather`, the doubly nested loop of `Set_HashoData`, pulls what the tables know,
and `Copy` writes the result to one table after the other, a step each, so that
the process can die between them. `Get_HashoData` is what a log message is
filled with. `said` and `cut` are history: what was last said of each key, and
the keys whose copies a death left half made.

## 4. Runs

| Run | Instance | Shows |
|---|---|---|
| `pool` | 2 clients, 1 collector, 3 nodes, 1 place behind them, prompt owners | `SemaphoreSafe`, `ExclusiveOwnership`, `LeavesByDeathOnly`, `NoSpuriousFailure`, `GcFreesOnlyExpired`, the inductive invariant (with the types), and that it all implements `PoolSpec` |
| `pool_live` | 2 clients, 1 collector, 1 node, 1 place behind it, owners may be late, fair | a waiter is served though holders die; leaked nodes come back |
| `wheel` | 3 slots, 3 timers (table full at 2), clock to 6, callbacks 2 deep | order, one firing each at the right second, the inductive invariant (with the count, and that a timer that is over is never linked again); implements `TimerSpec` |
| `wheel_live` | updates beyond the window, fair | every timer leaves the wheel |
| `nifo` | 2 processes, 3 nodes, queues of 1, prompt | `OneHolder`, `RingsSound`, `AcceptedIsValid`, the inductive invariant (with the types), and that it all implements `MsgSpec` |
| `sessions` | 2 keys, time-outs 3 and 2, a wheel of 5 s, lag 2, 2 runs, updates beyond the window, fair | a session has exactly one timer, and ends, unless it is forgotten in one of two ways; no timer outlives its session; nothing of an old heap is freed |
| `table` | 3 keys in 2 buckets, 3 nodes, 1 place behind them, 2 deaths, fair | the chains stay sound, the scan leaves its pool by one death only (`LeavesByDeathOnly`), calls end, hasho over memg implements `TableSpec`; the inductive invariant (with the types) |
| `tlv` | nodes of 5 bytes, headers of 2, values of 0 to 9, 3 TLVs, 6 nodes, fair | what is written is read, in order and whole, what `nifo_tlv_alloc` alone wrote is visited completely (`GetsAll`), and reading ends; the inductive invariant (with the types) |
| `logs` | 2 values of each key, room for 1 IP, 1 death | logs of one subscriber are filled alike, and with what was said last |
| `sessions_orphan` (violation) | 2 runs, fair | after a restart sessions stay for ever |
| `sessions_handle` (violation) | 1 run | the handle in a session's node goes stale at the first refresh |
| `tlv_copy` (violation) | as `tlv` | a value in several nodes is read back as repetitions of its beginning |

**Bounds.** *Pool*: a bad interleaving of allocation and free needs two
processes and one node; the third process is the collector; three nodes make the
scan wrap, pass occupied nodes and meet one freed behind it; one place behind
them can be granted, met occupied, and passed to where nothing is mapped.
`CntMod` = 1: the counters are printed and never read back, so their values
would only multiply states. *Wheel*: three slots with `OneMinute` = 1 make every
time share its slot with one three seconds later; six seconds are two turns; two
nested callbacks are a callback in a callback; three timers with two places fill
the table. *Messages*: three nodes make a head with a node in either ring or two
in one, and a message beside a message; two processes are a sender and a
receiver, or two of each; a queue of one is full at the second message. A
process can always die or act, and deadlock is checked. *Sessions*: messages end
at `LastMsg` so that every session has time to end before `MaxTime`; `MaxId`
bounds how many timers are ever made; `MaxLag` the seconds a poll may take. The
code's 100 s, 30 s and 86400 s become 3, 2 and 5 (12 in the violation runs),
keeping their order: with a window of 4 s and a lag of 2 the wheel falls behind
far enough to refuse a timer. Time stands still at `MaxTime`, so these runs do
not check deadlock. In the wheel runs the user can always act, and deadlock is
checked. *Table*: a chain of two has a head, an end and no middle; with the
third node in the other bucket an unlink can meet the wrong one; two deaths leak
two of three nodes, so an add is refused with one key in the table, or let the
scan out of the pool and then cost a node more. `pool` and `table` have 0.9 and
2.9 million states. *TLVs*: a node of 5 bytes holds two empty TLVs and a byte,
so every header can be cut or be followed by a cut value; a value of 9 takes
three nodes; the third TLV begins wherever the second left off. *Logs*: two
values of each key make a subscriber whose key changes hands; one place for IPs
makes the second get none; one death leaves one set of copies half made, and
every message after it may or may not repair them.

**Fairness.** In `MemsPool`: weak for steps of a process inside a call (a
process that runs keeps running, unless it dies); strong for `AllocLock`, as the
kernel keeps a FIFO of semaphore sleepers; weak for starting and restarting the
collector, which runs for ever in a process of its own, and for time. No
fairness for calling `mems_alloc` or `mems_free`. `LeakReclaimed` assumes the
collector is not killed again and again. In `TimerN`: time passes; the main
loop polls `timerN_invoke` again and again (strong, as callbacks come between);
the loop inside it proceeds; callbacks return however often they nest (strong,
per depth). In `CoLog`: time passes and the main loop, which takes one message
per turn at most, goes on to poll (`Invoke`). In `Hasho` and `NifoTlv`: a call
that has begun goes on, as there is nothing in it to wait for; none for making
calls.

**Mutants.** For each property `PROJECT.json` names an operator that changes one
mapped definition as a likely mistake would (an undo flag missing on one of P and V,
the age not tested, a slot count off by one, a node not relinked, a neighbour
not told, a round through the tables left out); the property fails under it.

## 5. What the code does that its words do not say

With a run that finds it violated:

* `sessions_orphan`: `TimerN_Reset` tests two pointers for NULL
  (`co_log_main.stc:1197`) that are an address plus an offset; it hangs no timer.
* `sessions_handle`: both callers of `timerN_update` drop the handle it returns.
* `tlv_copy`: the loop of `nifo_copy_tlv_cont` counts `oldLen` and copies from
  `value`, not from `value + oldLen` (`nifo.c:990`).

In the model as it is, told by what the properties leave open; no document
promises otherwise, and nothing repairs it:

* A process that dies in `mems_alloc` between `mems.c:390` and `392`, at the last
  node of the pool, leaves `offsetFreeList` behind it for all. From then on
  `mems_alloc` grants memory behind the last node as long as pages go, which
  neither `mems_free` nor the collector takes back; returns NULL though nodes are
  free; or kills the process. `LeavesByDeathOnly` says that nothing else takes
  the scan out, `NoSpuriousFailure` holds until it does, `PoolSpec` says what is
  left afterwards: what is handed out still has one owner.
* The same for `memg_alloc` (`memg.c:241-243`), which every later process
  inherits with the segment: adds are refused or kill the process, memory behind
  the pool is linked into chains and refused by `memg_free` when its key is
  deleted. What is in the table stays and is found.

`Nifo`, whose `mems_alloc` is one step, and the models above it assume a pool
that no such death has ruined.

Met while modelling, and seen by TLC when the named constant is changed:

* `OwnersPrompt = FALSE`: the collector looks (`mems.c:652-655`) and frees
  (`mems.c:663`) without the semaphore, and `mems_free` tests only `ucIsFree`;
  an owner's late free and a new allocation in between make it free a fresh
  node, against `ExclusiveOwnership` and `GcFreesOnlyExpired`.
* `Prompt = FALSE`: `nifo_node_check`, which is to judge whether the nodes are
  valid (`nifo.c:113`), only sees that they are allocated (`nifo.c:142`), not to
  whom, against `AcceptedIsValid`.
* `FarUpdates = TRUE`: `timerN_update` changes the key before it checks the
  window (`timerN.c:309`, `321`); no handle finds the node any more, and
  `timerN_del`, whose doc calls the deletion certain (`timerN.c:250`), does
  nothing, against `WheelOrdered`.
* `Torn = TRUE`: a process that dies between the two stores of a link or an
  unlink leaves a `prev` that names a node outside the chain, against
  `ChainsSound`; nothing repairs it.

Met while reading:

* `uiMaxNodeCnt` of `timerN_init` is stored and never read, though the doc calls
  it the maximum (`timerN.c:125`, `146`); `timerN_add` compares with
  `uiCurrentTime`, which is one second ahead of the clock after an invoke, and so
  calls back at once for the coming second (`timerN.c:197`, `544`).
* `HashTimer_Add` on a known key gives the session `STG_HASH_DEL_TIMEOUT`, not a
  new life, though its comment says that it is deleted and added
  (`co_log_main.stc:1231`, `1247`).
* `nifo_msg_write` returns the number of nodes where its doc promises 0
  (`nifo.c:1036`, `1080`): a caller that believes the doc keeps a message that
  was sent, which is the mutant `Handed_Keep`.
* `nifo_copy_tlv_cont` does not add to `cnt`, by which `nifo_get_tlv_cont` and
  `nifo_get_point_cont` count TLVs, so the former's doc, "finds all structures
  of the linked list" (`nifo.c:637`), is wrong of every message that
  `nifo_copy_tlv_cont` wrote or had a part in. `GetsAll` states it of the
  others; that exactly the counted ones are visited (`GetsCounted`) is a
  conjunct of the inductive invariant, as what the code does and not as what it
  should do. `nifo_copy_tlv_cont` also leaves a TLV cut short when no node is to
  be had. The reader takes a node that is not full for the last one, so a ring
  that `nifo_node_link_cont` made of nodes filled by `nifo_tlv_alloc` is only
  read to the first of them that has room left.
* `Get_HashoData` asks for the first key that is present only, in the order IP,
  TMSI, IMSI, returns even if that key has no node, and overwrites the fields
  the message had already; the comment at its call says it fetches those that
  are missing (`co_log_main.stc:827`, `871-878`). An ADD overwrites the node of
  its key with two fields (`co_log_main.stc:1246`): an association that only
  that node had is lost, and nodes of a former partner keep theirs.
* `DEF_ALL_DEL` passes `Get_HashoData` a tuple on the stack of which two fields
  are set and the others were never cleared (`co_log_main.stc:645-657`).
* `co_log_main.stc:343` calls `hasho_init` with one argument less than it has.

## 6. Proofs

`MemsPoolProofs`, for every number of clients and nodes:

* `TypeCorrect`, `SemaphoreCorrect`, `PoolKept`, `FailureIsReal` without any
  assumption on owners or on the number of collectors. `PoolKept` is
  `LeavesByDeathOnly`: step by step (`OverrunSteps`), `Advance` comes to
  `offsetNodeEnd` only together with the place in front of `Wrap`, and `Wrap` goes
  to the first node. The invariant is `CoreInv`:
  `SemaphoreSafe` is not inductive by itself, as `V` may only be executed by who
  did `P`; `SemInv` ties `semadj` to the place of each process, `PlaceInv` says
  what each place implies. `FailureIsReal` adds `ScanInv`: a node that was free
  when the semaphore was taken is still free and not among the last `iDebug`
  nodes behind `offsetFreeList`; after `TotCnt` turns every node is. It is the
  one part that holds only until a death lets the scan out of the pool; all else
  holds afterwards as well.
* `OwnershipCorrect`, `CollectorCorrect`, `PoolImplemented` under `Disciplined`
  (prompt owners, one collector), from `InvariantHolds`. `IInv` adds `GrantInv`
  (a node being granted is in nobody's hands), `FreeInv` (a node being freed is
  the client's own, or stale) and `OwnerInv`. It is `FreeInv` that fails without
  prompt owners. The refinement is proved step by step: `Mark` is `Grant`,
  `FreeClear` is `GiveBack` or `Collect`, `Crash` and `ScanFault` are `Die`,
  after which the pool may be ruined, and all else stutters.

`TimerNProofs`, for every size of wheel, table and bound, and every depth of
callbacks, if no update goes beyond the window (`~FarUpdates`):

* `InvariantHolds`, `TimerTypes`, `WheelCorrect`, `CountCorrect`, `OverIsOver`,
  `ClockFollowed`, `FiringCorrect` and `TimersImplemented`, from the one
  invariant `IInv`. The step that needs it whole is `NextSecond`: that an empty
  chain lets the wheel go on without passing a timer rests on `SlotUnique` (two
  seconds less than a turn apart in one slot are the same second), which in turn
  needs the upper bound in `WheelOrdered`.

`CoLogProofs`, for every set of keys, size of table and wheel, number of
restarts, with updates beyond the window or not:

* `Invariant`, `TypeCorrect`, `SessionsHaveTimers`, `OneTimer`, `FreesItsOwn`.
  The invariant `IInv` says that `arg` maps the timers whose callback is still
  to come one-to-one onto the sessions that are not in `orphans`. It does not
  speak of the wheel's order at all: where a timer is in the wheel does not
  matter for who has one, which is why updates beyond the window do no harm
  here. That a restart hangs no timer (`NothingHung`) is what keeps
  `FreesItsOwn` true: every session of an earlier run is an orphan.

`HashoProofs`, for every set of keys, hash function, number of nodes and number
of deaths, if none tears a link or an unlink (`~Torn`):

* `Invariant`, `TypeCorrect`, `PoolKept`, `ChainsAreSound`, `FoundIsInTable`,
  `Implements`. The chains are sound whether or not the scan has left its pool.
  That a chain leads to the end cannot be proved from its links alone without
  induction over the walk; the history variable `chain` keeps per node the set
  of nodes its chain still leads to, and `NextSound` says that each node's set
  is itself and the set of its next. `PrevSound` names the one node whose `prev`
  may be wrong, between the two stores. `WalkInv` says what a walk has not
  passed, `ScanInv` that the nodes passed by a scan are occupied, `CountInv`
  that marks and count exceed the table by one a death at most, while the scan is in
  its pool: together they make a refused add the abstract one (`Refused`).

`NifoProofs`, for every number of processes and nodes and every length of the
queues:

* `TypeCorrect` without any assumption, from the types and what each `pc` says
  of `cur` and `pNext` alone.
* `InvariantHolds`, `OneHolderHolds`, `RingsCorrect`, `AcceptedValid` and
  `MessagesImplemented` under `Prompt`, which `AcceptedIsValid` needs, see section
  5. `OneHolder` is not inductive: while a message is deleted its process has two,
  the node it is at and the rest. `IInv` therefore speaks of heads: `Heads` are
  those somebody has, in a hand, in a call or in a queue; two different ones have
  disjoint messages, and each message is `Whole`, its `cont` rings hanging on one
  `nont` ring. `CallInv` says what a place in a call implies (the node that
  `nifo_node_delete` is at is off the `nont` ring by then), `PoolInv` that what
  somebody has is ALLOCED and what the collector is after is nobody's, `SentInv`
  that a message on its way is what was sent. The lemmas on rings (`RingAdd`,
  `RingDel`, `RingFrame`) say what `clist_add` and `clist_del_init` make of a ring,
  and that a ring none of whose cells was stored to stays; `Split*` and `Join*` say
  the same of messages. For the refinement every step is one of a few kinds
  (`Moves`: a node granted or given back, a message sent or taken, a death, a node
  collected, or nothing that shows), each of which is a step of `MsgSpec` or a
  stutter.

`NifoTlvProofs`, for every size of node, head, header and value, every number of
TLVs and nodes, and every order of calls:

* `NodesAreFull`, `TypeCorrect`: from invariants on the writers' counters.
* `InvariantHolds`, and from it `ReadsInOrderHolds` and `GetsAllHolds`. That
  reading gives what was written is about sums of lengths over nodes, which would
  need induction. `IInv` says it by steps instead: `Here` is what stands at an
  offset of a node, the byte there, or the first of the next node, or what is to
  be written next (`End`); `InOrder` that any distance along a node is the same
  distance along the TLVs (`After`). The three ways of `nifo_copy_tlv_cont` and
  the turns of its loop only add at the end, where `End` said what was to come
  (`LayGrown`, `LayLinked`); that a node linked for the rest of a value may be
  empty only while more of that value is to come is the part of `LayoutInv` that
  makes it inductive. For the reader, `ReaderInv` says how much it has of the TLV
  it is at and that it stands at the byte after. If what it needs is beyond its
  node, the node is not the last (`AheadOver`), so it is full and its last byte is
  where `BODY_SIZE` says; if not, it is all there (`AheadHere`). `ReadNext` says
  "no more" only at `End`, where every TLV was read.

`CorrelateProofs`, for every set of values, size of the tables and number of
deaths:

* `Invariant`, `TypeCorrect`, `LogsGetWhatWasSaid`, `LogsOfOneAgree`. The heart
  is `GatherFact`: the rounds of `Set_HashoData` end in a tuple that says of each
  key it names what that key's node says, as an IP brings its IMSI's TMSI in the
  first round and the TMSI its time in the second; so copying changes no node's
  word on its own key, and a node the tuple does not name names none that it
  does.

Only model-checked: liveness (`WaiterServed`, `LeakReclaimed`, `TimerRuns`,
`SessionEnds`, `CallEnds`, `ReadEnds`), which is out of this prover's reach.
Every safety and action property and every refinement that a passing run checks
is stated by a theorem, under the assumptions named here.

## 7. Not modelled

* `mems_init` and `mems_sem_remove`, and `memg_init`'s making of the segment: run
  once, by an operator who starts one process before the others. An attacher that
  comes too early accepts a segment that is not finished (`mems.c:312`,
  `memg.c:131`).
* `nifo_get_point_cont` and the walks of the `*_all` functions over the next
  ring, a `READ_VAL_LIST` handed to `nifo_msg_read` (whose malloc, when it fails,
  loses the message), nifo's free list of structures.
* hashg's chains, which are hasho's with pointers; listo and hlisto, which
  nothing modelled calls; dlinkUtil, built once and only read.
* CO_LOG's statistics timer, what it accumulates and sends, and
  `Proc_Combination`.
* The state diagrams. The page tables (`flow.stg:1277-1483`, and those of 2006 in
  `aqua.pstg` and `online.pstg`) are written for the template before the change
  recorded in `HISTORY.TXT:551-558`, which moved the actions from the table of
  edges to the vertices. `flow.stc` of this commit iterates over
  `TAG_DEF_ALL_PAGE`, which those tables do not make, so no program of this
  commit runs them; what they call to send the page's log is not in the
  repository either.
* The generators (structg.pl but for the shape of CO_LOG's tables, a.pl, m.pl,
  r.pl) and the ASCII decoder templates: text transformers with no state that
  outlives a run. The ASN.1 examples: generated code of another tool.
* Print and dump functions change no state. The wheel and the hash libraries
  assume pointers of 32 bits (`U32 *` cells, casts to `S32`); the models assume
  the same.
