----------------------------- MODULE AtomicList -----------------------------
(***************************************************************************)
(* What utils/slist.h promises to the allocators: a stack of items that    *)
(* several threads share, each operation one step.                         *)
(***************************************************************************)
EXTENDS Integers, Sequences

CONSTANTS
  Threads,   (* threads that use the list                                   *)
  Items      (* items that can be on it                                     *)

VARIABLES
  contents,  (* the shared list, its first element last                     *)
  taken,     (* what each thread took off with a swap, in the same order    *)
  owned      (* items in the hands of each thread                           *)

listed == <<contents, taken, owned>>

Last(s)  == s[Len(s)]
Upto(s)  == SubSeq(s, 1, Len(s) - 1)

Init ==
  /\ contents = <<>>
  /\ taken = [t \in Threads |-> <<>>]
  /\ owned \in [Threads -> SUBSET Items]
  /\ \A t, u \in Threads : t # u => owned[t] \cap owned[u] = {}

Push(t, i) ==
  /\ i \in owned[t]
  /\ contents' = Append(contents, i)
  /\ owned' = [owned EXCEPT ![t] = @ \ {i}]
  /\ UNCHANGED taken

Pop(t) ==
  /\ contents # <<>>
  /\ owned' = [owned EXCEPT ![t] = @ \cup {Last(contents)}]
  /\ contents' = Upto(contents)
  /\ UNCHANGED taken

(* Exchange the whole list for a private one with nothing or one item. *)
Swap(t, new) ==
  /\ taken[t] = <<>>
  /\ \/ new = <<>> /\ UNCHANGED owned
     \/ \E i \in owned[t] : /\ new = <<i>>
                            /\ owned' = [owned EXCEPT ![t] = @ \ {i}]
  /\ taken' = [taken EXCEPT ![t] = contents]
  /\ contents' = new

(* Go through what was taken off. *)
TakeOne(t) ==
  /\ taken[t] # <<>>
  /\ owned' = [owned EXCEPT ![t] = @ \cup {Last(taken[t])}]
  /\ taken' = [taken EXCEPT ![t] = Upto(@)]
  /\ UNCHANGED contents

Next ==
  \E t \in Threads :
    \/ \E i \in Items : Push(t, i)
    \/ Pop(t)
    \/ Swap(t, <<>>)
    \/ \E i \in Items : Swap(t, <<i>>)
    \/ TakeOne(t)

Spec == Init /\ [][Next]_listed
=============================================================================
