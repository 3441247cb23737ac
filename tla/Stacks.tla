-------------------------------- MODULE Stacks --------------------------------
(***************************************************************************)
(* The log of a handle and the log of its output list are FastStacks       *)
(* (utils/fast_stack.h): pages of items on a doubly linked list            *)
(* (utils/list.h), and pointers into the last page.  A commit swaps the    *)
(* two, a failed one swaps them back, and a nested transaction remembers   *)
(* the address of the item on top.  The pages come from PageAllocator.     *)
(* Beside them a Stack of utils/stack.h, an array that is reallocated.     *)
(***************************************************************************)
EXTENDS Integers, Sequences, FiniteSets, SequencesExt

CONSTANTS
  StackNames,   (* FastStacks, which are the heads of their lists as well   *)
  BlockPages,   (* pages; finite, a bound of the model                      *)
  BlockSize,    (* fstack_block_size                                        *)
  StackItems,   (* what is pushed                                           *)
  MinSize,      (* STACK_MIN_SIZE                                           *)
  MaxDepth,     (* bound: items on a stack                                  *)
  MaxMarks      (* bound: depth of nested transactions                      *)

ASSUME StacksAssumption ==
  /\ BlockSize \in Nat \ {0} /\ MinSize \in Nat \ {0}
  /\ IsFiniteSet(BlockPages)
  /\ StackNames \cap BlockPages = {}

VARIABLES
  nextOf, prevOf,  (* struct List, of the heads and of the pages            *)
  cellOf,          (* the items in the pages                                *)
  blockCount,
  base,            (* the head or page begin and end point into             *)
  top,             (* ptr - begin                                           *)
  marks,           (* positions of nested transactions: the place of the
                      item on top, and history, how many there were         *)
  pushed,          (* history: the items of a stack                         *)
  array, arrayTop, (* begin .. end of the Stack, and ptr - begin            *)
  arrayItems       (* history: the items of the Stack                       *)

arrayVars == <<array, arrayTop, arrayItems>>
fastVars  == <<nextOf, prevOf, cellOf, blockCount, base, top, marks, pushed>>
stackVars == <<fastVars, arrayVars>>

(* What is in a page that is new from the allocator, or has gone back to it. *)
NoItem == "junk"
Given(pages) == cellOf' = [p \in BlockPages |->
  IF p \in pages THEN [i \in 1 .. BlockSize |-> NoItem] ELSE cellOf[p]]

StacksInit ==
  /\ nextOf = [n \in StackNames \cup BlockPages |-> n] /\ prevOf = nextOf
  /\ cellOf = [p \in BlockPages |-> [i \in 1 .. BlockSize |-> NoItem]]
  /\ blockCount = [s \in StackNames |-> 0]
  /\ base = [s \in StackNames |-> s]
  /\ top = [s \in StackNames |-> BlockSize]
  /\ marks = <<>>
  /\ pushed = [s \in StackNames |-> <<>>]
  /\ array = <<>> /\ arrayTop = 0 /\ arrayItems = <<>>

(* What follows the head of a list. *)
Blocks(h) ==
  LET walk[k \in 0 .. Cardinality(BlockPages)] ==
        IF k = 0 THEN nextOf[h] ELSE nextOf[walk[k - 1]]
      n == Cardinality({k \in DOMAIN walk : \A j \in 0 .. k : walk[j] \in BlockPages})
  IN  [k \in 1 .. n |-> walk[k - 1]]

UsedPages == UNION {ToSet(Blocks(s)) : s \in StackNames}

(* list_add_end, list_remove: two pairs are joined, and one. *)
ListAddEnd(h, p) ==
  /\ nextOf' = [nextOf EXCEPT ![prevOf[h]] = p, ![p] = h]
  /\ prevOf' = [prevOf EXCEPT ![p] = prevOf[h], ![h] = p]

ListRemove(p) ==
  /\ nextOf' = [nextOf EXCEPT ![prevOf[p]] = nextOf[p]]
  /\ prevOf' = [prevOf EXCEPT ![nextOf[p]] = prevOf[p]]

(* fstack_push; _fstack_expand uses the page that was kept, if there is one. *)
StackPush(s, x) ==
  /\ Len(pushed[s]) < MaxDepth
  /\ IF top[s] < BlockSize
     THEN /\ top' = [top EXCEPT ![s] = @ + 1]
          /\ UNCHANGED <<nextOf, prevOf, blockCount, base>>
     ELSE /\ blockCount' = [blockCount EXCEPT ![s] = @ + 1]
          /\ top' = [top EXCEPT ![s] = 1]
          /\ IF blockCount[s] = 0 /\ nextOf[s] # s
             THEN UNCHANGED <<nextOf, prevOf>>
             ELSE \E p \in BlockPages \ UsedPages : ListAddEnd(s, p)
          /\ base' = [base EXCEPT ![s] = prevOf'[s]]
  /\ cellOf' = [cellOf EXCEPT ![base'[s]][top'[s]] = x]
  /\ pushed' = [pushed EXCEPT ![s] = Append(@, x)]
  /\ UNCHANGED <<marks, arrayVars>>

(* Mutant: the pointers are set before the page is taken off the list. *)
ShrinkStale(s) ==
  /\ blockCount' = [blockCount EXCEPT ![s] = @ - 1]
  /\ IF blockCount[s] > 1
     THEN ListRemove(prevOf[s]) /\ Given({prevOf[s]})
     ELSE UNCHANGED <<nextOf, prevOf, cellOf>>
  /\ base' = [base EXCEPT ![s] = prevOf[s]]
  /\ top' = [top EXCEPT ![s] = BlockSize]

(* _fstack_shrink: the last page is given back, unless it is the only one. *)
Shrink(s) ==
  /\ blockCount' = [blockCount EXCEPT ![s] = @ - 1]
  /\ IF blockCount[s] > 1
     THEN ListRemove(prevOf[s]) /\ Given({prevOf[s]})
     ELSE UNCHANGED <<nextOf, prevOf, cellOf>>
  /\ base' = [base EXCEPT ![s] = prevOf'[s]]
  /\ top' = [top EXCEPT ![s] = BlockSize]

(* fstack_pop; the log of a handle never gets shorter than its last nested
   transaction has found it. *)
Depth(s) == IF marks # <<>> /\ Last(marks).stack = s THEN Last(marks).depth ELSE 0

StackPop(s) ==
  /\ Len(pushed[s]) > Depth(s)
  /\ IF top[s] = 1 THEN Shrink(s)
     ELSE /\ top' = [top EXCEPT ![s] = @ - 1]
          /\ UNCHANGED <<nextOf, prevOf, cellOf, blockCount, base>>
  /\ pushed' = [pushed EXCEPT ![s] = Front(@)]
  /\ UNCHANGED <<marks, arrayVars>>

(* Where fstack_top is; a nested transaction starts with it, 0 if there is no
   item, and ends. *)
TopPlace(s) == IF blockCount[s] = 0 THEN <<>> ELSE <<base[s], top[s]>>

Mark(s) ==
  /\ Len(marks) < MaxMarks
  /\ \A k \in DOMAIN marks : marks[k].stack = s
  /\ marks' = Append(marks, [stack |-> s, place |-> TopPlace(s), depth |-> Len(pushed[s])])
  /\ UNCHANGED <<nextOf, prevOf, cellOf, blockCount, base, top, pushed, arrayVars>>

Unmark ==
  /\ marks # <<>>
  /\ marks' = Front(marks)
  /\ UNCHANGED <<nextOf, prevOf, cellOf, blockCount, base, top, pushed, arrayVars>>

(* fstack_erase, and _tr_handle_rollback of the whole log: one page stays. *)
StackErase(s) ==
  /\ pushed[s] # <<>>
  /\ marks = <<>>
  /\ LET bs == Blocks(s)
     IN  /\ nextOf' = [nextOf EXCEPT ![bs[1]] = s]
         /\ prevOf' = [prevOf EXCEPT ![s] = bs[1]]
         /\ Given(ToSet(bs) \ {bs[1]})
         /\ base' = [base EXCEPT ![s] = bs[1]]
  /\ blockCount' = [blockCount EXCEPT ![s] = 0]
  /\ top' = [top EXCEPT ![s] = BlockSize]
  /\ pushed' = [pushed EXCEPT ![s] = <<>>]
  /\ UNCHANGED <<marks, arrayVars>>

(* fstack_destroy *)
StackDestroy(s) ==
  /\ marks = <<>>
  /\ nextOf' = [nextOf EXCEPT ![s] = s] /\ prevOf' = [prevOf EXCEPT ![s] = s]
  /\ Given(ToSet(Blocks(s)))
  /\ blockCount' = [blockCount EXCEPT ![s] = 0]
  /\ base' = [base EXCEPT ![s] = s]
  /\ top' = [top EXCEPT ![s] = BlockSize]
  /\ pushed' = [pushed EXCEPT ![s] = <<>>]
  /\ UNCHANGED <<marks, arrayVars>>

Exchanged(f, s, t) == [f EXCEPT ![s] = f[t], ![t] = f[s]]

(* The end of fstack_swap and list_swap: the first and the last page of each
   list are made to know the new head; an empty list points to itself. *)
Relinked(s, t, f, g) ==
  LET First(h, other) == IF f[h] # other THEN f[h] ELSE h
      Final(h, other) == IF f[h] # other THEN g[h] ELSE h
  IN  /\ nextOf' = [f EXCEPT ![s] = First(s, t), ![Final(s, t)] = s,
                             ![t] = First(t, s), ![Final(t, s)] = t]
      /\ prevOf' = [g EXCEPT ![s] = Final(s, t), ![First(s, t)] = s,
                             ![t] = Final(t, s), ![First(t, s)] = t]

(* fstack_swap *)
StackSwap(s, t) ==
  /\ marks = <<>>
  /\ Relinked(s, t, Exchanged(nextOf, s, t), Exchanged(prevOf, s, t))
  /\ blockCount' = Exchanged(blockCount, s, t)
  /\ base' = Exchanged(base, s, t)
  /\ top' = Exchanged(top, s, t)
  /\ pushed' = Exchanged(pushed, s, t)
  /\ UNCHANGED <<cellOf, marks, arrayVars>>

-----------------------------------------------------------------------------
(* stack_push, _stack_expand: xrealloc keeps what fits. *)
Realloc(n) == [i \in 1 .. n |-> IF i <= Len(array) THEN array[i] ELSE NoItem]

ArrayPush(x) ==
  /\ arrayTop < MaxDepth
  /\ LET room == IF arrayTop = Len(array) THEN Realloc(2 * Len(array) + MinSize) ELSE array
     IN  array' = [room EXCEPT ![arrayTop + 1] = x]
  /\ arrayTop' = arrayTop + 1
  /\ arrayItems' = Append(arrayItems, x)
  /\ UNCHANGED fastVars

(* stack_pop, _stack_shrink *)
Shrunk(n) == (n + 1) \div 2

ArrayPop ==
  /\ arrayTop > 0
  /\ array' = IF Len(array) > 2 * arrayTop /\ Len(array) > 2 * MinSize
              THEN Realloc(Shrunk(Len(array))) ELSE array
  /\ arrayTop' = arrayTop - 1
  /\ arrayItems' = Front(arrayItems)
  /\ UNCHANGED fastVars

(* stack_erase *)
ArrayErase ==
  /\ arrayTop > 0
  /\ arrayTop' = 0
  /\ arrayItems' = <<>>
  /\ UNCHANGED <<array, fastVars>>

FastNext ==
  \/ \E s \in StackNames :
       \/ StackPop(s) \/ Mark(s) \/ StackErase(s) \/ StackDestroy(s)
       \/ \E x \in StackItems : StackPush(s, x)
       \/ \E t \in StackNames \ {s} : StackSwap(s, t)
  \/ Unmark

ArrayNext == (\E x \in StackItems : ArrayPush(x)) \/ ArrayPop \/ ArrayErase

StacksSpec == StacksInit /\ [][FastNext \/ ArrayNext]_stackVars

-----------------------------------------------------------------------------
(* The items of a stack from the bottom, as fstack_for_each meets them. *)
StackContent(s) ==
  IF blockCount[s] = 0 THEN <<>>
  ELSE LET bs == Blocks(s)
       IN  FlattenSeq([k \in 1 .. Len(bs) |->
             IF k = Len(bs) THEN SubSeq(cellOf[bs[k]], 1, top[s]) ELSE cellOf[bs[k]]])

(* Each stack holds what was pushed on it or came to it in a swap, and no page
   is on the lists of two stacks; the size it computes, also of no item, is
   right.  A rollback finds the position of a nested transaction, and does not
   stop before it: it is the address of the item on top again if and only if as
   many are left as there were. *)
StacksHold ==
  /\ \A s \in StackNames :
       /\ StackContent(s) = pushed[s]
       /\ (blockCount[s] - 1) * BlockSize + top[s] = Len(pushed[s])
       /\ \A t \in StackNames \ {s} : ToSet(Blocks(s)) \cap ToSet(Blocks(t)) = {}
  /\ \A k \in DOMAIN marks :
       LET m == marks[k]
       IN  Len(pushed[m.stack]) = m.depth <=> TopPlace(m.stack) = m.place
  /\ SubSeq(array, 1, arrayTop) = arrayItems
=============================================================================
