------------------------------- MODULE MCMemory -------------------------------
(* Small instances of the modules about memory for TLC.  They share no state, and
   one run explores them side by side: what an initial state calls part is the
   machine that runs from it, and the others stand still. *)
EXTENDS SharedList, PageAllocator, Reclaim, NodePages, References, NumDictionary,
        Stacks, TLC

CONSTANT Parts    \* of "list", "pages", "reclaim", "nodes", "references",
                 \* "dictionary", "stacks", "array"
CONSTANT FirstObject

VARIABLE part

SomeCapacities == <<0, 3, 5, 7, 0>>

MemoryInit ==
  /\ part \in Parts
  /\ part = "list" \/ owned = [t \in Threads |-> {}]
  /\ part = "pages" \/ cacheKind = CHOOSE k \in CacheKinds : TRUE
  /\ ListInit /\ PageInit /\ ReclaimInit /\ NodeInit /\ RefInit /\ DictInit
  /\ StacksInit
  /\ part = "reclaim" \/ pointer = FirstObject

(* Everything but the variables of one machine *)
ButList    == <<part, pageVars, reclaimVars, nodeVars, refVars, dictVars, stackVars>>
ButPages   == <<part, listVars, reclaimVars, nodeVars, refVars, dictVars, stackVars>>
ButReclaim == <<part, listVars, pageVars, nodeVars, refVars, dictVars, stackVars>>
ButNodes   == <<part, listVars, pageVars, reclaimVars, refVars, dictVars, stackVars>>
ButRefs    == <<part, listVars, pageVars, reclaimVars, nodeVars, dictVars, stackVars>>
ButDict    == <<part, listVars, pageVars, reclaimVars, nodeVars, refVars, stackVars>>
ButStacks  == <<part, listVars, pageVars, reclaimVars, nodeVars, refVars, dictVars>>

MemoryNext ==
  \/ part = "list" /\ ListNext /\ UNCHANGED ButList
  \/ part = "pages" /\ PageNext /\ UNCHANGED ButPages
  \/ part = "reclaim" /\ ReclaimNext /\ UNCHANGED ButReclaim
  \/ part = "nodes" /\ NodeNext /\ UNCHANGED ButNodes
  \/ part = "references" /\ RefNext /\ UNCHANGED ButRefs
  \/ part = "dictionary" /\ DictNext /\ UNCHANGED ButDict
  \/ part = "stacks" /\ FastNext /\ UNCHANGED ButStacks
  \/ part = "array" /\ ArrayNext /\ UNCHANGED ButStacks

MemorySpec == MemoryInit /\ [][MemoryNext]_<<ButList, listVars>>

(* Threads, handles and clients share their names, so do things there are two of. *)
Symmetry == Permutations(Threads) \cup Permutations(VPages)
=============================================================================
