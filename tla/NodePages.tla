------------------------------ MODULE NodePages ------------------------------
(***************************************************************************)
(* Nodes are slots of pages (allocators/node_allocator.h), which come from *)
(* and go back to a pool of pages with a time stamp (vpage_allocator.h).   *)
(* A node's lock is a word of the node and outlives it in the slot, so a   *)
(* transaction that follows a stale pointer notices.  The walk of a dump   *)
(* over the nodes is in DumpReplay, the scan of the handles for the oldest *)
(* start in Reclaim and the counting around a list in PageAllocator; here  *)
(* each of them is one step.                                               *)
(***************************************************************************)
EXTENDS Integers, Sequences, FiniteSets, SequencesExt

CONSTANTS
  NodeWorkers,  (* transactions that create and delete nodes                *)
  VPages,       (* pages; finite, a bound of the model                      *)
  Slots,        (* nodes of a page                                          *)
  PoolLimit,    (* gc_threshold of the pool                                 *)
  MaxTime       (* bound on the clock                                       *)

Servant == "service"
Open    == "open"

ASSUME SlotsAssumption ==
  /\ IsFiniteSet(Slots) /\ Cardinality(Slots) > 1
  /\ MaxTime \in Nat
  /\ NodeWorkers \cap {Servant, Open} = {}

NoNode  == <<>>
NoFree  == [what |-> "none", time |-> 0]
NodePlaces == VPages \X Slots
Endless == MaxTime + 1   (* ~0, the oldest start when nothing runs          *)

VARIABLES
  clock,      (* db->time, in transactions                                  *)
  blocks,     (* A->blocks, the pages with nodes                            *)
  freeSlots,  (* block->free_nodes                                          *)
  used,       (* block->used                                                *)
  live,       (* nodes with an id                                           *)
  lockOf,     (* Open or the worker that holds the node's lock              *)
  lockVer,    (* the version of the node's lock                             *)
  pool,       (* A->free_pages, the last in first, with their time stamps   *)
  poolCount,  (* A->free_pages_count                                        *)
  slowRounds, (* history: collections that gave a page back to the pool     *)
  workAt, workStart, workNode, workFree,
              (* a worker: where it is, H->start_time, its node, and where
                 it goes on after freeing it                                *)
  doomed,     (* nodes deleted by commits, for the service thread           *)
  nodeGcTime, (* the time of a collection a thread runs, 0: none            *)
  readStart, readNode,
              (* a reading transaction and the node it has found            *)
  recycled,   (* history: its page was set up anew, or released             *)
  lastDeath,  (* history: the latest deletion a commit made on the page     *)
  early       (* history: a page was taken from the pool before its time, or
                 put there with a time before the last deletion on it       *)

workVars == <<workAt, workStart, workNode, workFree>>
readVars == <<readStart, readNode, recycled>>
poolVars == <<pool, poolCount, slowRounds, nodeGcTime, early>>
doomVars == <<doomed, lastDeath>>
slotVars == <<blocks, freeSlots, used>>
nodeVars == <<clock, slotVars, live, lockOf, lockVer, poolVars, workVars, doomed,
              lastDeath, readVars>>

NodeInit ==
  /\ clock = 1
  /\ blocks = <<>>
  /\ freeSlots = [p \in VPages |-> {}]
  /\ used = [p \in VPages |-> 0]
  /\ live = {}
  /\ lockOf = [n \in NodePlaces |-> Open]
  /\ lockVer = [n \in NodePlaces |-> 1]
  /\ pool = <<>>
  /\ poolCount = 0
  /\ slowRounds = 0
  /\ workAt = [w \in NodeWorkers |-> "idle"]
  /\ workStart = [w \in NodeWorkers |-> 0]
  /\ workNode = [w \in NodeWorkers |-> NoNode]
  /\ workFree = [w \in NodeWorkers \cup {Servant} |-> NoFree]
  /\ doomed = <<>>
  /\ nodeGcTime = [p \in NodeWorkers \cup {Servant} |-> 0]
  /\ readStart = 0
  /\ readNode = NoNode
  /\ recycled = FALSE
  /\ lastDeath = [p \in VPages |-> 0]
  /\ early = FALSE

Oldest == LET starts == {workStart[w] : w \in NodeWorkers} \cup {readStart}
          IN  CHOOSE t \in (starts \ {0}) \cup {Endless} :
                \A u \in (starts \ {0}) \cup {Endless} : t <= u

(* Pages nobody has: those of the system. *)
Unmapped == {p \in VPages : /\ p \notin ToSet(blocks)
                            /\ \A k \in DOMAIN pool : pool[k].page # p
                            /\ \A w \in NodeWorkers :
                                 workAt[w] = "link" => workNode[w][1] # p
                            /\ \A w \in NodeWorkers \cup {Servant} :
                                 workFree[w].what # "page" \/ workFree[w].page # p}

Moves(w, from, to) == workAt[w] = from /\ workAt' = [workAt EXCEPT ![w] = to]

Begin(w) ==
  /\ Moves(w, "idle", "run")
  /\ workStart' = [workStart EXCEPT ![w] = clock]
  /\ UNCHANGED <<clock, slotVars, live, lockOf, lockVer, poolVars, workNode,
                 workFree, doomVars, readVars>>

(* A page is in the list once. *)
Swapped(p, s) == <<p>> \o RemoveFirst(s, p)   (* list_add_begin *)
Queued(p, s)  == RemoveFirst(s, p) \o <<p>>   (* list_add_end   *)

(* node_allocator_alloc: a slot of the last page; a page without a free slot
   goes to the front. *)
TakeSlot(w) ==
  /\ Moves(w, "run", "lock")
  /\ blocks # <<>>
  /\ LET p == Last(blocks) IN
       \E k \in freeSlots[p] :
         /\ workNode' = [workNode EXCEPT ![w] = <<p, k>>]
         /\ freeSlots' = [freeSlots EXCEPT ![p] = @ \ {k}]
         /\ used' = [used EXCEPT ![p] = @ + 1]
         /\ blocks' = IF freeSlots'[p] = {} THEN Swapped(p, blocks) ELSE blocks
  /\ UNCHANGED <<clock, live, lockOf, lockVer, poolVars, workStart, workFree,
                 doomVars, readVars>>

NoSlot(w) ==
  /\ Moves(w, "run", "page")
  /\ blocks # <<>> => freeSlots[Last(blocks)] = {}
  /\ blocks' = IF blocks = <<>> THEN blocks ELSE Swapped(Last(blocks), blocks)
  /\ UNCHANGED <<clock, freeSlots, used, live, lockOf, lockVer, poolVars,
                 workStart, workNode, workFree, doomVars, readVars>>

(* _node_allocator_alloc_page: a page of the pool, whatever its time stamp, or
   of the system; all its slots are set up, with locks of version 1. *)
SetUp(w, p) ==
  /\ \E k \in Slots :
       /\ workNode' = [workNode EXCEPT ![w] = <<p, k>>]
       /\ freeSlots' = [freeSlots EXCEPT ![p] = Slots \ {k}]
  /\ used' = [used EXCEPT ![p] = 1]
  /\ lockVer' = [n \in NodePlaces |-> IF n[1] = p THEN 1 ELSE lockVer[n]]
  /\ lockOf' = [n \in NodePlaces |-> IF n[1] = p THEN Open ELSE lockOf[n]]
  /\ recycled' = (recycled \/ (readNode # NoNode /\ readNode[1] = p))

TakePage(w) ==
  /\ Moves(w, "page", "link")
  /\ \/ /\ pool # <<>>
        /\ SetUp(w, Last(pool).page)
        /\ pool' = Front(pool)
        /\ poolCount' = poolCount - 1
        /\ early' = (early \/ Last(pool).time > Oldest)
     \/ /\ pool = <<>>
        /\ \E p \in Unmapped : SetUp(w, p)
        /\ UNCHANGED <<pool, poolCount, early>>
  /\ UNCHANGED <<clock, blocks, live, slowRounds, workStart, workFree, doomVars,
                 nodeGcTime, readStart, readNode>>

LinkPage(w) ==
  /\ Moves(w, "link", "lock")
  /\ blocks' = Append(blocks, workNode[w][1])
  /\ UNCHANGED <<clock, freeSlots, used, live, lockOf, lockVer, poolVars,
                 workStart, workNode, workFree, doomVars, readVars>>

FreeOf(n, time) == [what |-> "slot", node |-> n, time |-> time]
Lockable(w, n)  == lockOf[n] = Open /\ lockVer[n] <= workStart[w]

(* tr_node_create locks the new node and gives it its id; if it cannot lock the
   node it frees it again and fails. *)
LockNew(w) ==
  /\ Moves(w, "lock", "made")
  /\ Lockable(w, workNode[w])
  /\ lockOf' = [lockOf EXCEPT ![workNode[w]] = w]
  /\ live' = live \cup {workNode[w]}
  /\ UNCHANGED <<clock, slotVars, lockVer, poolVars, workStart, workNode, workFree,
                 doomVars, readVars>>

RefuseNew(w) ==
  /\ Moves(w, "lock", "free")
  /\ ~Lockable(w, workNode[w])
  /\ workFree' = [workFree EXCEPT ![w] = FreeOf(workNode[w], clock)]
  /\ UNCHANGED <<clock, slotVars, live, lockOf, lockVer, poolVars, workStart,
                 workNode, doomVars, readVars>>

(* No pointer and no index leads to a node whose deletion is committed. *)
Reachable == live \ {d.node : d \in ToSet(doomed)}

(* tr_node_delete *)
LockOld(w, n) ==
  /\ Moves(w, "run", "delete")
  /\ n \in Reachable
  /\ Lockable(w, n)
  /\ lockOf' = [lockOf EXCEPT ![n] = w]
  /\ workNode' = [workNode EXCEPT ![w] = n]
  /\ UNCHANGED <<clock, slotVars, live, lockVer, poolVars, workStart, workFree,
                 doomVars, readVars>>

(* The transaction ends: the clock advances, the node is unlocked (l_unlock
   compares, so it leaves a lock alone that is no longer the worker's), and
   what a commit deleted is left to the service thread. *)
EndTransaction(w, from) ==
  /\ Moves(w, from, "idle")
  /\ clock < MaxTime
  /\ clock' = clock + 1
  /\ workStart' = [workStart EXCEPT ![w] = 0]
  /\ workNode' = [workNode EXCEPT ![w] = NoNode]
  /\ IF workNode[w] # NoNode /\ lockOf[workNode[w]] = w
     THEN /\ lockOf' = [lockOf EXCEPT ![workNode[w]] = Open]
          /\ lockVer' = [lockVer EXCEPT ![workNode[w]] = clock']
     ELSE UNCHANGED <<lockOf, lockVer>>

Commit(w) ==
  /\ \/ EndTransaction(w, "made") /\ UNCHANGED doomVars
     \/ /\ EndTransaction(w, "delete")
        /\ doomed' = Append(doomed, FreeOf(workNode[w], clock'))
        /\ lastDeath' = [lastDeath EXCEPT ![workNode[w][1]] = clock']
  /\ UNCHANGED <<slotVars, live, poolVars, workFree, readVars>>

(* An abort frees the node it created before it advances the clock. *)
AbortMade(w) ==
  /\ Moves(w, "made", "free")
  /\ workFree' = [workFree EXCEPT ![w] = FreeOf(workNode[w], clock)]
  /\ live' = live \ {workNode[w]}
  /\ UNCHANGED <<clock, slotVars, lockOf, lockVer, poolVars, workStart, workNode,
                 doomVars, readVars>>

AbortEnd(w) ==
  /\ \/ EndTransaction(w, "run")
     \/ EndTransaction(w, "delete")
     \/ workFree[w] = NoFree /\ nodeGcTime[w] = 0 /\ EndTransaction(w, "free")
  /\ UNCHANGED <<slotVars, live, poolVars, workFree, doomVars, readVars>>

-----------------------------------------------------------------------------
(* The service thread turns to the next node a commit deleted. *)
ServeDoomed ==
  /\ doomed # <<>>
  /\ workFree[Servant] = NoFree
  /\ nodeGcTime[Servant] = 0
  /\ workFree' = [workFree EXCEPT ![Servant] = Head(doomed)]
  /\ doomed' = Tail(doomed)
  /\ UNCHANGED lastDeath
  /\ live' = live \ {Head(doomed).node}
  /\ UNCHANGED <<clock, slotVars, lockOf, lockVer, poolVars, workAt, workStart,
                 workNode, readVars>>

(* Mutant: the page stays where it is in the list. *)
FreeSlotStays(t) ==
  /\ workFree[t].what = "slot"
  /\ LET n == workFree[t].node
         p == n[1]
     IN /\ used' = [used EXCEPT ![p] = @ - 1]
        /\ IF used[p] = 1
           THEN /\ blocks' = RemoveFirst(blocks, p)
                /\ workFree' = [workFree EXCEPT ![t] =
                                  [what |-> "page", page |-> p, time |-> @.time]]
                /\ UNCHANGED freeSlots
           ELSE /\ freeSlots' = [freeSlots EXCEPT ![p] = @ \cup {n[2]}]
                /\ workFree' = [workFree EXCEPT ![t] = NoFree]
                /\ UNCHANGED blocks
  /\ UNCHANGED <<clock, live, lockOf, lockVer, poolVars, workAt, workStart,
                 workNode, doomVars, readVars>>

(* node_allocator_free: the last node takes its page with it, the first free
   slot makes a page the next to allocate from. *)
FreeSlot(t) ==
  /\ workFree[t].what = "slot"
  /\ LET n == workFree[t].node
         p == n[1]
     IN /\ used' = [used EXCEPT ![p] = @ - 1]
        /\ IF used[p] = 1
           THEN /\ blocks' = RemoveFirst(blocks, p)
                /\ workFree' = [workFree EXCEPT ![t] =
                                  [what |-> "page", page |-> p, time |-> @.time]]
                /\ UNCHANGED freeSlots
           ELSE /\ blocks' = IF freeSlots[p] = {} THEN Queued(p, blocks) ELSE blocks
                /\ freeSlots' = [freeSlots EXCEPT ![p] = @ \cup {n[2]}]
                /\ workFree' = [workFree EXCEPT ![t] = NoFree]
  /\ UNCHANGED <<clock, live, lockOf, lockVer, poolVars, workAt, workStart,
                 workNode, doomVars, readVars>>

(* vpage_allocator_free; a counter below zero stands for one that wrapped. *)
PoolPage(t) ==
  /\ workFree[t].what = "page"
  /\ pool' = Append(pool, [page |-> workFree[t].page, time |-> workFree[t].time])
  /\ poolCount' = poolCount + 1
  /\ nodeGcTime' = IF poolCount' > PoolLimit \/ poolCount' < 0
                   THEN [nodeGcTime EXCEPT ![t] = Oldest] ELSE nodeGcTime
  /\ early' = (early \/ workFree[t].time < lastDeath[workFree[t].page])
  /\ workFree' = [workFree EXCEPT ![t] = NoFree]
  /\ UNCHANGED <<clock, slotVars, live, lockOf, lockVer, slowRounds, workAt, workStart,
                 workNode, doomVars, readVars>>

Gone(pages) == recycled' = (recycled \/ (readNode # NoNode /\ readNode[1] \in pages))

(* Mutant: the page on top goes back to the system however young it is. *)
PoolReleaseAny(t) ==
  /\ nodeGcTime[t] # 0
  /\ poolCount # 0 /\ pool # <<>>
  /\ pool' = Front(pool)
  /\ poolCount' = poolCount - 1
  /\ Gone({Last(pool).page})
  /\ UNCHANGED <<clock, slotVars, live, lockOf, lockVer, slowRounds, nodeGcTime,
                 early, workVars, doomVars, readStart, readNode>>

(* _vpage_allocator_gc: the page on top goes back to the system, ... *)
PoolRelease(t) ==
  /\ nodeGcTime[t] # 0
  /\ poolCount # 0 /\ pool # <<>>
  /\ Last(pool).time <= nodeGcTime[t]
  /\ pool' = Front(pool)
  /\ poolCount' = poolCount - 1
  /\ Gone({Last(pool).page})
  /\ UNCHANGED <<clock, slotVars, live, lockOf, lockVer, slowRounds, nodeGcTime,
                 early, workVars, doomVars, readStart, readNode>>

(* ... or it is too young, and is put back, in the place of all others, of which
   those that are too young follow, the last one first. *)
TooYoung(t) == {k \in 1 .. Len(pool) - 1 : pool[k].time > nodeGcTime[t]}
Sift(t) ==
  \E n \in 0 .. Len(pool) : \E pick \in [1 .. n -> TooYoung(t)] :
    /\ TooYoung(t) = {pick[i] : i \in 1 .. n}
    /\ \A i, j \in 1 .. n : i < j => pick[i] > pick[j]
    /\ pool' = <<Last(pool)>> \o [i \in 1 .. n |-> pool[pick[i]]]

(* Mutant: the page put back is counted, the released ones are not. *)
PoolSiftUncounted(t) ==
  /\ nodeGcTime[t] # 0
  /\ poolCount # 0 /\ pool # <<>>
  /\ Last(pool).time > nodeGcTime[t]
  /\ Sift(t)
  /\ poolCount' = poolCount - 1
  /\ slowRounds' = slowRounds + 1
  /\ Gone({e.page : e \in ToSet(pool) \ ToSet(pool')})
  /\ nodeGcTime' = [nodeGcTime EXCEPT ![t] = 0]
  /\ UNCHANGED <<clock, slotVars, live, lockOf, lockVer, early, workVars, doomVars,
                 readStart, readNode>>

PoolSift(t) ==
  /\ nodeGcTime[t] # 0
  /\ poolCount # 0 /\ pool # <<>>
  /\ Last(pool).time > nodeGcTime[t]
  /\ Sift(t)
  /\ poolCount' = poolCount - 1 - (Len(pool) - Len(pool'))
  /\ slowRounds' = slowRounds + 1
  /\ Gone({e.page : e \in ToSet(pool) \ ToSet(pool')})
  /\ nodeGcTime' = [nodeGcTime EXCEPT ![t] = 0]
  /\ UNCHANGED <<clock, slotVars, live, lockOf, lockVer, early, workVars, doomVars,
                 readStart, readNode>>

PoolDone(t) ==
  /\ nodeGcTime[t] # 0
  /\ poolCount = 0 \/ pool = <<>>
  /\ nodeGcTime' = [nodeGcTime EXCEPT ![t] = 0]
  /\ UNCHANGED <<clock, slotVars, live, lockOf, lockVer, pool, poolCount,
                 slowRounds, early, workVars, doomVars, readVars>>

-----------------------------------------------------------------------------
(* A transaction that reads: it finds a node, and can look at it until it ends. *)
Readable(n) == lockOf[n] = Open /\ lockVer[n] <= readStart

ReadBegin ==
  /\ readStart = 0
  /\ readStart' = clock
  /\ UNCHANGED <<clock, slotVars, live, lockOf, lockVer, poolVars, workVars, doomVars,
                 readNode, recycled>>

ReadFind ==
  /\ readStart # 0
  /\ readNode = NoNode
  /\ \E n \in Reachable : Readable(n) /\ readNode' = n
  /\ UNCHANGED <<clock, slotVars, live, lockOf, lockVer, poolVars, workVars, doomVars,
                 readStart, recycled>>

ReadEnd ==
  /\ readStart # 0
  /\ clock < MaxTime
  /\ clock' = clock + 1
  /\ readStart' = 0
  /\ readNode' = NoNode
  /\ recycled' = FALSE
  /\ UNCHANGED <<slotVars, live, lockOf, lockVer, poolVars, workVars, doomVars>>

WorkStep(w) ==
  \/ Begin(w) \/ TakeSlot(w) \/ NoSlot(w) \/ TakePage(w) \/ LinkPage(w)
  \/ LockNew(w) \/ RefuseNew(w) \/ \E n \in live : LockOld(w, n)
  \/ Commit(w) \/ AbortMade(w) \/ AbortEnd(w)

FreeStep(t) ==
  FreeSlot(t) \/ PoolPage(t) \/ PoolRelease(t) \/ PoolSift(t) \/ PoolDone(t)

NodeNext ==
  \/ \E w \in NodeWorkers : WorkStep(w)
  \/ \E t \in NodeWorkers \cup {Servant} : FreeStep(t)
  \/ ServeDoomed
  \/ ReadBegin \/ ReadFind \/ ReadEnd

NodeSpec == NodeInit /\ [][NodeNext]_nodeVars

-----------------------------------------------------------------------------
(* node_allocator_alloc looks at one page only, the last; it never maps another
   page while some page in the list has a free slot. *)
RoomIsLast ==
  (\E k \in DOMAIN blocks : freeSlots[blocks[k]] # {})
    => freeSlots[Last(blocks)] # {}

(* The pool's counter loses one page for each collection that puts a page back,
   and nothing else changes the difference. *)
PoolDrift == poolCount = Len(pool) - slowRounds

(* What a transaction read before a node was deleted fails its check ever after:
   the lock in the slot is newer, and the page stays where it is.  The header of
   vpage_allocator.h promises it: freeing is delayed. *)
StaleReadsFail ==
  readNode # NoNode /\ (recycled \/ readNode \notin live)
    => ~Readable(readNode) /\ ~recycled

(* The same, as far as the code keeps it: a page may be taken from the pool
   before its time, and an abort may put it there with a time that is too old. *)
StaleReadsFailUnlessEarly == early \/ StaleReadsFail
=============================================================================
