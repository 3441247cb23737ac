---------------------------- MODULE AtomicStore ----------------------------
(***************************************************************************)
(* What the transactions of HybridDatabases promise about the objects they *)
(* write, with no lock, no version, no log and no in-place store in sight: *)
(* every transaction collects its writes in a buffer of its own, a commit  *)
(* moves the whole buffer into the store in one step, an abort throws it   *)
(* away, and a nested transaction can be taken back on its own.            *)
(*                                                                         *)
(* HybridStm implements this module (HybridStm!Abstract).  The order that  *)
(* the reads of different transactions agree on is not stated here, but by *)
(* the invariants SnapshotReads and SerialClock of HybridStm.              *)
(***************************************************************************)
EXTENDS Naturals, Sequences

CONSTANTS Handles, Nodes, Values, InitValue

VARIABLES
  store,   (* the committed value of every object                           *)
  writes,  (* what each handle's transaction has written: a partial store   *)
  reads,   (* the values trRead has returned to it, except its own          *)
  saved    (* a copy of both for every nested transaction it is inside      *)

vars == <<store, writes, reads, saved>>

NoWrites == [n \in {} |-> InitValue]

Init ==
  /\ store = [n \in Nodes |-> InitValue]
  /\ writes = [h \in Handles |-> NoWrites]
  /\ reads = [h \in Handles |-> {}]
  /\ saved = [h \in Handles |-> <<>>]

(* A transaction reads the committed value of an object, if not its own. *)
Read(h, n) ==
  /\ n \notin DOMAIN writes[h]
  /\ reads' = [reads EXCEPT ![h] = @ \cup {[node |-> n, value |-> store[n]]}]
  /\ UNCHANGED <<store, writes, saved>>

(* Two transactions that write the same object are never open together. *)
Write(h, n, v) ==
  /\ \A other \in Handles \ {h} : n \notin DOMAIN writes[other]
  /\ writes' = [writes EXCEPT ![h] =
       [m \in DOMAIN @ \cup {n} |-> IF m = n THEN v ELSE @[m]]]
  /\ UNCHANGED <<store, reads, saved>>

Save(h) ==
  /\ saved' = [saved EXCEPT ![h] =
                 Append(@, [writes |-> writes[h], reads |-> reads[h]])]
  /\ UNCHANGED <<store, writes, reads>>

(* The enclosing transaction takes over what the nested one did ... *)
Keep(h) ==
  /\ saved[h] # <<>>
  /\ saved' = [saved EXCEPT ![h] = SubSeq(@, 1, Len(@) - 1)]
  /\ UNCHANGED <<store, writes, reads>>

(* ... or is back where it was. *)
Revert(h) ==
  /\ saved[h] # <<>>
  /\ LET s == saved[h][Len(saved[h])] IN
       /\ writes' = [writes EXCEPT ![h] = s.writes]
       /\ reads' = [reads EXCEPT ![h] = s.reads]
  /\ saved' = [saved EXCEPT ![h] = SubSeq(@, 1, Len(@) - 1)]
  /\ UNCHANGED store

Forget(h) ==
  /\ writes' = [writes EXCEPT ![h] = NoWrites]
  /\ reads' = [reads EXCEPT ![h] = {}]
  /\ saved' = [saved EXCEPT ![h] = <<>>]

(* All writes of a main transaction at once, or none of them. *)
Commit(h) ==
  /\ saved[h] = <<>>
  /\ store' = [n \in Nodes |-> IF n \in DOMAIN writes[h] THEN writes[h][n]
                               ELSE store[n]]
  /\ Forget(h)

Abort(h) == Forget(h) /\ UNCHANGED store

Next ==
  \E h \in Handles :
    \/ Save(h) \/ Keep(h) \/ Revert(h)
    \/ Commit(h) \/ Abort(h)
    \/ \E n \in Nodes : Read(h, n) \/ \E v \in Values : Write(h, n, v)

Spec == Init /\ [][Next]_vars
=============================================================================
