---------------------------- MODULE PageAllocator ----------------------------
(***************************************************************************)
(* The caches of pages (allocators/page_allocator.h) and of objects        *)
(* (simple_allocator.h).  Freed memory goes to a shared list, whose        *)
(* operations are atomic (SharedList), and is counted beside the list:     *)
(* before it is pushed and after it is popped.  Whoever finds the counter  *)
(* above a threshold gives memory back to the system.                      *)
(***************************************************************************)
EXTENDS Integers, FiniteSets

CONSTANTS
  PageThreads,     (* threads that allocate and free                        *)
  Pages,           (* pages, or objects; finite, a bound of the model       *)
  PageThreshold,   (* gc_threshold                                          *)
  CacheKinds       (* "page": PageAllocator, "simple": SimpleAllocator      *)

(* page_allocator_init raises the threshold to 2. *)
ASSUME ThresholdAssumption == PageThreshold \in Nat \ {0, 1}
ASSUME PagesAssumption == IsFiniteSet(Pages) /\ IsFiniteSet(PageThreads)

NoThread == "none"
NoPage   == "none"

ASSUME NoneAssumption == NoThread \notin PageThreads /\ NoPage \notin Pages

VARIABLES
  cacheKind,
  cached,    (* the free list                                               *)
  counter,   (* free_pages_counter, free_objs_count                         *)
  mapMutex,  (* the thread that maps a block of pages                       *)
  pageAt,    (* where a thread is                                           *)
  inUse,     (* pages a thread has allocated                                *)
  hand,      (* the page a thread is moving                                 *)
  extra,     (* pages of a new block the thread has not freed yet           *)
  floor      (* what the collection reduces the counter to                  *)

pageVars == <<cacheKind, cached, counter, mapMutex, pageAt, inUse, hand, extra,
              floor>>

PageInit ==
  /\ cacheKind \in CacheKinds
  /\ cached = {}
  /\ counter = 0
  /\ mapMutex = NoThread
  /\ pageAt = [t \in PageThreads |-> "idle"]
  /\ inUse = [t \in PageThreads |-> {}]
  /\ hand = [t \in PageThreads |-> NoPage]
  /\ extra = [t \in PageThreads |-> {}]
  /\ floor = [t \in PageThreads |-> 0]

AtSystem == Pages \ (cached \cup UNION {inUse[t] \cup extra[t] \cup {hand[t]} :
                                          t \in PageThreads})

Goto(t, from, to) == pageAt[t] = from /\ pageAt' = [pageAt EXCEPT ![t] = to]
Carry(t, p)       == hand' = [hand EXCEPT ![t] = p]

(* page_allocator_free, simple_allocator_free: atomic_inc ... *)
FreeCount(t, p) ==
  /\ Goto(t, "idle", "push")
  /\ p \in inUse[t]
  /\ counter' = counter + 1
  /\ inUse' = [inUse EXCEPT ![t] = @ \ {p}]
  /\ Carry(t, p)
  /\ UNCHANGED <<cacheKind, cached, mapMutex, extra, floor>>

(* ... slist_atomic_push ... *)
FreePush(t) ==
  /\ Goto(t, "push", "check")
  /\ cached' = cached \cup {hand[t]}
  /\ Carry(t, NoPage)
  /\ UNCHANGED <<cacheKind, counter, mapMutex, inUse, extra, floor>>

(* The page is free; who maps a block goes on with the rest of it. *)
Freed(t) == pageAt' = [pageAt EXCEPT ![t] = IF mapMutex = t THEN "block" ELSE "idle"]

(* Mutant: the page just freed is not counted. *)
FreeCheckLate(t) ==
  /\ pageAt[t] = "check"
  /\ IF counter - 1 > PageThreshold
     THEN /\ pageAt' = [pageAt EXCEPT ![t] = "gc"]
          /\ floor' = [floor EXCEPT ![t] = PageThreshold \div 2]
     ELSE Freed(t) /\ UNCHANGED floor
  /\ UNCHANGED <<cacheKind, cached, counter, mapMutex, inUse, hand, extra>>

(* ... and the comparison with the threshold. *)
FreeCheck(t) ==
  /\ pageAt[t] = "check"
  /\ IF counter > PageThreshold
     THEN /\ pageAt' = [pageAt EXCEPT ![t] = "gc"]
          /\ floor' = [floor EXCEPT ![t] = PageThreshold \div 2]
     ELSE Freed(t) /\ UNCHANGED floor
  /\ UNCHANGED <<cacheKind, cached, counter, mapMutex, inUse, hand, extra>>

(* page_allocator_collect_garbage, and the destructors. *)
Collect(t) ==
  /\ Goto(t, "idle", "gc")
  /\ floor' = [floor EXCEPT ![t] = 0]
  /\ UNCHANGED <<cacheKind, cached, counter, mapMutex, inUse, hand, extra>>

(* The loop of _page_allocator_collect_garbage, _simple_allocator_gc: its
   condition, the pop, and the decrement with which the page is given back. *)
GcLook(t) ==
  /\ pageAt[t] = "gc"
  /\ IF counter > floor[t]
     THEN pageAt' = [pageAt EXCEPT ![t] = "gcPop"]
     ELSE Freed(t)
  /\ UNCHANGED <<cacheKind, cached, counter, mapMutex, inUse, hand, extra, floor>>

GcPop(t) ==
  /\ pageAt[t] = "gcPop"
  /\ \/ /\ cached = {}
        /\ Freed(t)
        /\ UNCHANGED <<cached, hand>>
     \/ \E p \in cached :
          /\ cached' = cached \ {p}
          /\ Carry(t, p)
          /\ pageAt' = [pageAt EXCEPT ![t] = "gcCount"]
  /\ UNCHANGED <<cacheKind, counter, mapMutex, inUse, extra, floor>>

GcCount(t) ==
  /\ Goto(t, "gcCount", "gc")
  /\ counter' = counter - 1
  /\ Carry(t, NoPage)
  /\ UNCHANGED <<cacheKind, cached, mapMutex, inUse, extra, floor>>

(* page_allocator_alloc, simple_allocator_alloc: a page from the list, *)
AllocPop(t) ==
  /\ \E from \in {"idle", "repop"} : Goto(t, from, "count")
  /\ \E p \in cached : cached' = cached \ {p} /\ Carry(t, p)
  /\ UNCHANGED <<cacheKind, counter, mapMutex, inUse, extra, floor>>

(* Mutant: the page found under the mutex is not counted off. *)
AllocCountOnce(t) ==
  /\ Goto(t, "count", IF mapMutex = t THEN "unlock" ELSE "idle")
  /\ counter' = IF mapMutex = t THEN counter ELSE counter - 1
  /\ inUse' = [inUse EXCEPT ![t] = @ \cup {hand[t]}]
  /\ Carry(t, NoPage)
  /\ UNCHANGED <<cacheKind, cached, mapMutex, extra, floor>>

AllocCount(t) ==
  /\ Goto(t, "count", IF mapMutex = t THEN "unlock" ELSE "idle")
  /\ counter' = counter - 1
  /\ inUse' = [inUse EXCEPT ![t] = @ \cup {hand[t]}]
  /\ Carry(t, NoPage)
  /\ UNCHANGED <<cacheKind, cached, mapMutex, extra, floor>>

(* an object from malloc when there is none on the list, *)
AllocObject(t) ==
  /\ cacheKind = "simple"
  /\ pageAt[t] = "idle"
  /\ cached = {}
  /\ \E p \in AtSystem : inUse' = [inUse EXCEPT ![t] = @ \cup {p}]
  /\ UNCHANGED <<cacheKind, cached, counter, mapMutex, pageAt, hand, extra, floor>>

(* or a block of pages: one thread at a time maps one, if the list is still
   empty when its turn comes, and frees all pages of the block but one. *)
AllocWait(t) ==
  /\ cacheKind = "page"
  /\ cached = {}
  /\ Goto(t, "idle", "lock")
  /\ UNCHANGED <<cacheKind, cached, counter, mapMutex, inUse, hand, extra, floor>>

AllocLock(t) ==
  /\ Goto(t, "lock", "repop")
  /\ mapMutex = NoThread
  /\ mapMutex' = t
  /\ UNCHANGED <<cacheKind, cached, counter, inUse, hand, extra, floor>>

AllocMap(t) ==
  /\ Goto(t, "repop", "block")
  /\ cached = {}
  /\ \E p \in AtSystem : \E rest \in SUBSET (AtSystem \ {p}) :
       /\ Cardinality(rest) = PageThreshold \div 2 - 1
       /\ inUse' = [inUse EXCEPT ![t] = @ \cup {p}]
       /\ extra' = [extra EXCEPT ![t] = rest]
  /\ UNCHANGED <<cacheKind, cached, counter, mapMutex, hand, floor>>

BlockCount(t) ==
  /\ Goto(t, "block", "push")
  /\ \E p \in extra[t] :
       /\ extra' = [extra EXCEPT ![t] = @ \ {p}]
       /\ Carry(t, p)
  /\ counter' = counter + 1
  /\ UNCHANGED <<cacheKind, cached, mapMutex, inUse, floor>>

BlockDone(t) ==
  /\ Goto(t, "block", "unlock")
  /\ extra[t] = {}
  /\ UNCHANGED <<cacheKind, cached, counter, mapMutex, inUse, hand, extra, floor>>

AllocUnlock(t) ==
  /\ Goto(t, "unlock", "idle")
  /\ mapMutex' = NoThread
  /\ UNCHANGED <<cacheKind, cached, counter, inUse, hand, extra, floor>>

PageStep(t) ==
  \/ \E p \in Pages : FreeCount(t, p)
  \/ FreePush(t) \/ FreeCheck(t) \/ Collect(t)
  \/ GcLook(t) \/ GcPop(t) \/ GcCount(t)
  \/ AllocPop(t) \/ AllocCount(t) \/ AllocObject(t)
  \/ AllocWait(t) \/ AllocLock(t) \/ AllocMap(t)
  \/ BlockCount(t) \/ BlockDone(t) \/ AllocUnlock(t)

PageNext == \E t \in PageThreads : PageStep(t)
PageSpec == PageInit /\ [][PageNext]_pageVars

-----------------------------------------------------------------------------
(* Threads between the change of the list and that of the counter. *)
Moving == {t \in PageThreads : pageAt[t] \in {"push", "count", "gcCount"}}

(* The counter of a cache is off by exactly the pages on their way to or from
   the list, so it never wraps below zero, whatever the threads interleave. *)
CounterExact == counter = Cardinality(cached) + Cardinality(Moving)

(* Threads that still look at the counter before they are done. *)
Reducing == {t \in PageThreads : pageAt[t] \in {"push", "check", "gc", "gcPop", "gcCount"}}

(* A cache holds no more than its threshold when nobody is freeing: no thread
   relies on a collection another one gives up. *)
CacheBounded == Reducing = {} => Cardinality(cached) <= PageThreshold
=============================================================================
