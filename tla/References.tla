----------------------------- MODULE References -----------------------------
(***************************************************************************)
(* Attributes of the type Pointer and the reference counts of nodes        *)
(* (attributes/defs.h, database.include/node.c and inline.h).  A count is  *)
(* a part of the node pointed to, so writing a pointer takes the locks of  *)
(* up to three nodes and may fail at each; what has been done by then is   *)
(* in the log, and the transaction has to be aborted.                      *)
(*                                                                         *)
(* A node has one pointer or none.  The locks and the clock are HybridStm's*)
(* subject: here a node is too new for a handle if a transaction that had  *)
(* it locked has ended since the handle's start.  A commit ticks, unlocks  *)
(* and frees in one step, since what a handle has found it has from reads  *)
(* that were checked.  Places of nodes are not used twice (NodePages).     *)
(***************************************************************************)
EXTENDS Integers, Sequences, FiniteSets

CONSTANTS
  RefHandles,
  RefNodes,     (* places of nodes; finite, a bound of the model            *)
  WithPointer,  (* nodes whose type has an attribute Pointer                *)
  Null,
  MaxRefLog     (* bound: length of a log                                   *)

ASSUME RefAssumption ==
  /\ IsFiniteSet(RefNodes) /\ WithPointer \subseteq RefNodes
  /\ Null \notin RefNodes \cup RefHandles

VARIABLES
  usedNodes,   (* nodes that have been allocated at some time               *)
  nodesAlive,  (* nodes with an id; not yet freed, or not deleted           *)
  target,      (* attr->value of a node                                     *)
  refCount,    (* node->ref_count                                           *)
  lockedBy,    (* the handle that has the node locked, or Null              *)
  tooNew,      (* nodes whose lock is newer than H->start_time              *)
  found,       (* nodes that were there at some time since H->start_time    *)
  refStatus,   (* "idle", "run", "failed": an operation has returned false  *)
  undoLog,     (* H->log                                                    *)
  crashed      (* the program has used a null pointer                       *)

memVars == <<target, refCount>>
refVars == <<usedNodes, nodesAlive, memVars, lockedBy, tooNew, found, refStatus, undoLog, crashed>>

RefInit ==
  /\ usedNodes = {} /\ nodesAlive = {}
  /\ target = [n \in RefNodes |-> Null]
  /\ refCount = [n \in RefNodes |-> 0]
  /\ lockedBy = [n \in RefNodes |-> Null]
  /\ tooNew = [h \in RefHandles |-> {}]
  /\ found = [h \in RefHandles |-> {}]
  /\ refStatus = [h \in RefHandles |-> "idle"]
  /\ undoLog = [h \in RefHandles |-> <<>>]
  /\ crashed = FALSE

Raw(n)    == [what |-> "raw", node |-> n, old |-> refCount[n]]
Modify(n) == [what |-> "modify", node |-> n, old |-> target[n]]
Alloc(n)  == [what |-> "alloc", node |-> n, old |-> Null]
Delete(n) == [what |-> "delete", node |-> n, old |-> Null]

Deleting(h) == {undoLog[h][k].node : k \in {i \in DOMAIN undoLog[h] : undoLog[h][i].what = "delete"}}

(* Mutant: util_lock does not compare the version with H->start_time. *)
LocksAnyVersion(h, n) == lockedBy[n] \in {h, Null}

(* util_lock succeeds. *)
Locks(h, n) == lockedBy[n] = h \/ (lockedBy[n] = Null /\ n \notin tooNew[h])

Running(h)    == ~crashed /\ refStatus[h] = "run"
Logged(h, s)  == undoLog' = [undoLog EXCEPT ![h] = @ \o s]
Taken(h, ns)  == lockedBy' = [n \in RefNodes |-> IF n \in ns THEN h ELSE lockedBy[n]]
Fails(h)      == refStatus' = [refStatus EXCEPT ![h] = "failed"]

RefBegin(h) ==
  /\ ~crashed /\ refStatus[h] = "idle"
  /\ refStatus' = [refStatus EXCEPT ![h] = "run"]
  /\ tooNew' = [tooNew EXCEPT ![h] = {}]
  /\ found' = [found EXCEPT ![h] = nodesAlive]
  /\ UNCHANGED <<usedNodes, nodesAlive, memVars, lockedBy, undoLog, crashed>>

(* tr_node_create *)
CreateNode(h, n) ==
  /\ Running(h) /\ n \notin usedNodes
  /\ Len(undoLog[h]) < MaxRefLog
  /\ usedNodes' = usedNodes \cup {n}
  /\ nodesAlive' = nodesAlive \cup {n}
  /\ found' = [k \in RefHandles |-> IF refStatus[k] = "idle" THEN {} ELSE found[k] \cup {n}]
  /\ Taken(h, {n})
  /\ Logged(h, <<Alloc(n)>>)
  /\ UNCHANGED <<memVars, tooNew, refStatus, crashed>>

(* What the transaction may name: nodes it has found and not deleted itself.  In
   the meantime another may have deleted them, and committed that: only the lock
   of such a node says so. *)
Known(h) == found[h] \ Deleting(h)

(* _node_ref_count_decrease of the old target *)
OldTarget(n)   == {target[n]} \ {Null}
Decreased(n)   == [m \in RefNodes |-> IF m \in OldTarget(n) THEN refCount[m] - 1 ELSE refCount[m]]
DecreaseLog(n) == IF target[n] = Null THEN <<>> ELSE <<Raw(target[n])>>
Releases(h, n) == \A m \in OldTarget(n) : Locks(h, m)

(* tr_node_write of the value m: the node is locked, the old target and m, ... *)
WritePointer(h, n, m) ==
  /\ Running(h) /\ {n, m} \subseteq Known(h) /\ n \in WithPointer
  /\ Len(undoLog[h]) + 3 <= MaxRefLog
  /\ Locks(h, n) /\ Releases(h, n) /\ Locks(h, m)
  /\ Taken(h, {n, m} \cup OldTarget(n))
  /\ refCount' = [Decreased(n) EXCEPT ![m] = @ + 1]
  /\ target' = [target EXCEPT ![n] = m]
  /\ Logged(h, DecreaseLog(n) \o <<[Raw(m) EXCEPT !.old = Decreased(n)[m]], Modify(n)>>)
  /\ UNCHANGED <<usedNodes, nodesAlive, tooNew, found, refStatus, crashed>>

(* ... or one of the three locks is not to be had. *)
WritePointerFails(h, n, m) ==
  /\ Running(h) /\ {n, m} \subseteq Known(h) /\ n \in WithPointer
  /\ Len(undoLog[h]) + 3 <= MaxRefLog
  /\ Fails(h)
  /\ \/ ~Locks(h, n) /\ UNCHANGED <<lockedBy, refCount, undoLog>>
     \/ /\ Locks(h, n) /\ ~Releases(h, n)
        /\ Taken(h, {n})
        /\ UNCHANGED <<refCount, undoLog>>
     \/ /\ Locks(h, n) /\ Releases(h, n) /\ ~Locks(h, m)
        /\ Taken(h, {n} \cup OldTarget(n))
        /\ refCount' = Decreased(n)
        /\ Logged(h, DecreaseLog(n))
  /\ UNCHANGED <<usedNodes, nodesAlive, target, tooNew, found, crashed>>

(* Write of Pointer tests the address of the value for null, not the value, and
   increases the reference count of the node at address 0. *)
WriteNull(h, n) ==
  /\ Running(h) /\ n \in Known(h) \cap WithPointer
  /\ Locks(h, n) /\ Releases(h, n)
  /\ crashed' = TRUE
  /\ UNCHANGED <<usedNodes, nodesAlive, memVars, lockedBy, tooNew, found, refStatus, undoLog>>

(* tr_node_delete: without effect if the node cannot be locked, ... *)
DeleteRefused(h, n) ==
  /\ Running(h) /\ n \in Known(h)
  /\ Locks(h, n) /\ refCount[n] # 0
  /\ Taken(h, {n})
  /\ UNCHANGED <<usedNodes, nodesAlive, memVars, tooNew, found, refStatus, undoLog, crashed>>

(* ... and destroy_pointers writes null, which crashes (WriteNull), unless the
   lock of the target is not to be had: that it says so is ignored. *)
DeleteNode(h, n) ==
  /\ Running(h) /\ n \in Known(h)
  /\ Len(undoLog[h]) < MaxRefLog
  /\ Locks(h, n) /\ refCount[n] = 0
  /\ Taken(h, {n})
  /\ IF n \in WithPointer /\ Releases(h, n)
     THEN crashed' = TRUE /\ UNCHANGED undoLog
     ELSE Logged(h, <<Delete(n)>>) /\ UNCHANGED crashed
  /\ UNCHANGED <<usedNodes, nodesAlive, memVars, tooNew, found, refStatus>>

(* All locks of h are given back with a new version. *)
Held(h) == {n \in RefNodes : lockedBy[n] = h}
EndsRefs(h) ==
  /\ refStatus' = [refStatus EXCEPT ![h] = "idle"]
  /\ lockedBy' = [n \in RefNodes |-> IF n \in Held(h) THEN Null ELSE lockedBy[n]]
  /\ tooNew' = [k \in RefHandles |-> IF k = h \/ refStatus[k] = "idle"
                                       THEN {} ELSE tooNew[k] \cup Held(h)]
  /\ found' = [found EXCEPT ![h] = {}]
  /\ undoLog' = [undoLog EXCEPT ![h] = <<>>]
  /\ UNCHANGED <<usedNodes, crashed>>

CommitRefs(h) ==
  /\ Running(h)
  /\ nodesAlive' = nodesAlive \ Deleting(h)
  /\ EndsRefs(h)
  /\ UNCHANGED memVars

(* The log is undone from its end: of the entries for one place the first one
   counts.  A node that was created is destroyed, with its pointer. *)
Entries(h, what, n) == {k \in DOMAIN undoLog[h] : undoLog[h][k].what = what /\ undoLog[h][k].node = n}
Undone(h, what, n, current) ==
  LET ks == Entries(h, what, n)
  IN  IF ks = {} THEN current ELSE undoLog[h][CHOOSE k \in ks : \A j \in ks : k <= j].old

(* Mutant: the log is undone from its beginning. *)
AbortRefsForward(h) ==
  LET Redone(what, n, current) ==
        LET ks == Entries(h, what, n)
        IN  IF ks = {} THEN current ELSE undoLog[h][CHOOSE k \in ks : \A j \in ks : k >= j].old
  IN  /\ ~crashed /\ refStatus[h] # "idle"
      /\ refCount' = [n \in RefNodes |-> Redone("raw", n, refCount[n])]
      /\ target' = [n \in RefNodes |-> IF Entries(h, "alloc", n) # {} THEN Null
                                       ELSE Redone("modify", n, target[n])]
      /\ nodesAlive' = {n \in nodesAlive : Entries(h, "alloc", n) = {}}
      /\ EndsRefs(h)

AbortRefs(h) ==
  /\ ~crashed /\ refStatus[h] # "idle"
  /\ refCount' = [n \in RefNodes |-> Undone(h, "raw", n, refCount[n])]
  /\ target' = [n \in RefNodes |-> IF Entries(h, "alloc", n) # {} THEN Null
                                   ELSE Undone(h, "modify", n, target[n])]
  /\ nodesAlive' = {n \in nodesAlive : Entries(h, "alloc", n) = {}}
  /\ EndsRefs(h)

RefNext == \E h \in RefHandles :
  \/ RefBegin(h) \/ CommitRefs(h) \/ AbortRefs(h)
  \/ \E n \in RefNodes : \/ CreateNode(h, n) \/ WriteNull(h, n)
                         \/ DeleteRefused(h, n) \/ DeleteNode(h, n)
                         \/ \E m \in RefNodes : WritePointer(h, n, m) \/ WritePointerFails(h, n, m)

RefSpec == RefInit /\ [][RefNext]_refVars

-----------------------------------------------------------------------------
(* The count of a node nobody has locked is the number of nodes that point to
   it, those among them that were deleted without clearing their pointer; so
   also after operations that failed half way. *)
CountsAreExact ==
  \A m \in nodesAlive : lockedBy[m] = Null =>
    refCount[m] = Cardinality({n \in RefNodes : target[n] = m})

(* No node points to one that is deleted, or that a running transaction is
   deleting (database.include/node.c:63), although a pointer may be set to any
   node found before its deletion was committed. *)
NoDanglingPointer ==
  LET gone == RefNodes \ (nodesAlive \ UNION {Deleting(h) : h \in RefHandles})
  IN  \A n \in RefNodes \ gone : target[n] \notin gone

(* A node can be deleted although it has a pointer: destroy_pointers "changes all
   pointers in node to 0, required for deleting node"
   (database.types/node_type.h:56). *)
PointersCanBeCleared == ~crashed
=============================================================================
