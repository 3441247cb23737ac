----------------------------- MODULE SharedList -----------------------------
(***************************************************************************)
(* The shared free lists of the allocators (utils/slist.h).  Whoever wants *)
(* to change a list swaps -1 into its head, which makes all others spin,   *)
(* and publishes the new head with a second swap.  The link of an item is  *)
(* its first word, which belongs to the user as soon as the item is off    *)
(* the list.                                                               *)
(***************************************************************************)
EXTENDS Integers, Sequences

CONSTANTS
  Threads,   (* threads that use the list                                   *)
  Items      (* items that can be on it                                     *)

Nil  == "nil"
Busy == "busy"    (* (void* )-1                                              *)
Junk == "junk"    (* whatever the user of an item writes into its first word *)

ASSUME ItemAssumption == Items \cap {Nil, Busy, Junk} = {}

VARIABLES
  head,      (* the head word of the shared list                            *)
  link,      (* first word of each item                                     *)
  doing,     (* the operation a thread is in the middle of                  *)
  first,     (* what it got from the head when it began the operation       *)
  arg,       (* the item it pushes, or swaps in                             *)
  private,   (* head of the list a thread swapped out                       *)
  owned,     (* items in the hands of each thread                           *)
  contents,  (* history: the items behind head, the first one last          *)
  taken      (* history: the items behind private                           *)

listVars == <<head, link, doing, first, arg, private, owned, contents, taken>>

ListInit ==
  /\ head = Nil
  /\ link = [i \in Items |-> Junk]
  /\ doing = [t \in Threads |-> "idle"]
  /\ first = [t \in Threads |-> Nil]
  /\ arg = [t \in Threads |-> Nil]
  /\ private = [t \in Threads |-> Nil]
  /\ owned \in [Threads -> SUBSET Items]
  /\ \A t, u \in Threads : t # u => owned[t] \cap owned[u] = {}
  /\ contents = <<>>
  /\ taken = [t \in Threads |-> <<>>]

(* Mutant: the head is read, not taken. *)
GetFirstReads(t) ==
  /\ head # Busy
  /\ first' = [first EXCEPT ![t] = head]
  /\ UNCHANGED head

(* slistGetFirst, the round that succeeds. *)
GetFirst(t) ==
  /\ head # Busy
  /\ first' = [first EXCEPT ![t] = head]
  /\ head' = Busy

Starts(t, op) == doing[t] = "idle" /\ doing' = [doing EXCEPT ![t] = op]
Ends(t, op)   == doing[t] = op /\ doing' = [doing EXCEPT ![t] = "idle"]

(* slist_atomic_push: the old first item goes behind the new one ... *)
PushBegin(t, i) ==
  /\ Starts(t, "push")
  /\ i \in owned[t]
  /\ GetFirst(t)
  /\ arg' = [arg EXCEPT ![t] = i]
  /\ link' = [link EXCEPT ![i] = head]
  /\ UNCHANGED <<private, owned, contents, taken>>

(* ... and the new one is published. *)
PushEnd(t) ==
  /\ Ends(t, "push")
  /\ head' = arg[t]
  /\ owned' = [owned EXCEPT ![t] = @ \ {arg[t]}]
  /\ contents' = Append(contents, arg[t])
  /\ UNCHANGED <<link, first, arg, private, taken>>

(* slist_atomic_pop *)
PopBegin(t) ==
  /\ Starts(t, "pop")
  /\ GetFirst(t)
  /\ UNCHANGED <<link, arg, private, owned, contents, taken>>

PopEnd(t) ==
  /\ Ends(t, "pop")
  /\ IF first[t] = Nil
     THEN /\ head' = Nil
          /\ UNCHANGED <<link, owned, contents>>
     ELSE /\ head' = link[first[t]]
          /\ link' = [link EXCEPT ![first[t]] = Junk]
          /\ owned' = [owned EXCEPT ![t] = @ \cup {first[t]}]
          /\ contents' = SubSeq(contents, 1, Len(contents) - 1)
  /\ UNCHANGED <<first, arg, private, taken>>

(* slist_atomic_swap with a private list that is empty, or into which
   slist_push has put one item. *)
SwapBegin(t, i) ==
  /\ Starts(t, "swap")
  /\ private[t] = Nil
  /\ i = Nil \/ i \in owned[t]
  /\ GetFirst(t)
  /\ arg' = [arg EXCEPT ![t] = i]
  /\ link' = IF i = Nil THEN link ELSE [link EXCEPT ![i] = Nil]
  /\ UNCHANGED <<private, owned, contents, taken>>

SwapEnd(t) ==
  /\ Ends(t, "swap")
  /\ head' = arg[t]
  /\ private' = [private EXCEPT ![t] = first[t]]
  /\ owned' = [owned EXCEPT ![t] = @ \ {arg[t]}]
  /\ taken' = [taken EXCEPT ![t] = contents]
  /\ contents' = IF arg[t] = Nil THEN <<>> ELSE <<arg[t]>>
  /\ UNCHANGED <<link, first, arg>>

(* slist_pop of the private list. *)
PrivatePop(t) ==
  /\ doing[t] = "idle"
  /\ private[t] # Nil
  /\ private' = [private EXCEPT ![t] = link[private[t]]]
  /\ link' = [link EXCEPT ![private[t]] = Junk]
  /\ owned' = [owned EXCEPT ![t] = @ \cup {private[t]}]
  /\ taken' = [taken EXCEPT ![t] = SubSeq(@, 1, Len(@) - 1)]
  /\ UNCHANGED <<head, doing, first, arg, contents>>

ListStep(t) ==
  \/ \E i \in Items : PushBegin(t, i)
  \/ PushEnd(t)
  \/ PopBegin(t)
  \/ PopEnd(t)
  \/ \E i \in Items \cup {Nil} : SwapBegin(t, i)
  \/ SwapEnd(t)
  \/ PrivatePop(t)

ListNext == \E t \in Threads : ListStep(t)
ListSpec == ListInit /\ [][ListNext]_listVars

-----------------------------------------------------------------------------
(* The items of s, last to first, are those one gets from start by following
   the links l. *)
Chain(l, start, s) ==
  /\ start = IF s = <<>> THEN Nil ELSE s[Len(s)]
  /\ \A k \in 1..Len(s) : l[s[k]] = IF k = 1 THEN Nil ELSE s[k - 1]

(* A list that several threads change with two swaps of its head behaves like
   one that each operation changes in a single step; the items that come off
   it are those that were put on it, the last one first, and each of them is
   in one place at a time. *)
Stack == INSTANCE AtomicList
ListImplements == Stack!Spec
=============================================================================
