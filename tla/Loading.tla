------------------------------- MODULE Loading -------------------------------
(***************************************************************************)
(* What the library makes of a data file: load_file                        *)
(* (database.include/database_create.c) and the functions of               *)
(* database.include/read.c, as operators.                                  *)
(*                                                                         *)
(* A file has a header, if it was written, with a magic number, and a      *)
(* sequence of records, its root elements.                                 *)
(* A node is its id and one value that stands for its attributes.  What    *)
(* has been loaded is a record with                                        *)
(*   nodes    the dictionary id -> node (IdToNode)                         *)
(*   ghosts   ids of nodes the allocator has handed out a second time: they *)
(*            are in the database but not in the dictionary                *)
(*   magic    the magic number the next file has to carry, or 0            *)
(*   dumpOn   inside a dump                                                *)
(*   status   "READING", or how load_file has ended                        *)
(* A transaction record without operations stands for one that has changed *)
(* memory of the database (indexes) only.                                  *)
(***************************************************************************)
EXTENDS Naturals, Sequences

CONSTANT InitValue   \* the value type->init gives a node

Created(i) == [op |-> "CREATED", id |-> i]
Modified(i, v) == [op |-> "MODIFIED", id |-> i, value |-> v]
Deleted(i) == [op |-> "DELETED", id |-> i]

Transaction(ops) == [kind |-> "transaction", ops |-> ops]
Dumped(i, v) == [kind |-> "dumped", id |-> i, value |-> v]
DumpBegin == [kind |-> "DUMP BEGIN"]
DumpEnd == [kind |-> "DUMP END"]
EndOfFile(m) == [kind |-> "END OF FILE", magic |-> m]
Torn == [kind |-> "torn"]   \* a record that was not written to its end

Nothing == [nodes |-> <<>>, ghosts |-> {}, magic |-> 0,
            dumpOn |-> FALSE, status |-> "READING"]

Put(nodes, i, v) ==
  [j \in DOMAIN nodes \cup {i} |-> IF j = i THEN v ELSE nodes[j]]

Known(d, i) == i \in DOMAIN d.nodes

Corrupted(d) == [d EXCEPT !.status = "CORRUPTED"]

(* read_node_prepare allocates a node and only then looks whether the id is
   known; if it is, the new node stays behind with that id. *)
ReadCreate(d, i) ==
  IF Known(d, i) THEN [d EXCEPT !.ghosts = @ \cup {i}]
                 ELSE [d EXCEPT !.nodes = Put(@, i, InitValue)]

(* Mutant: a value for an unknown node makes the node known. *)
ReadModifyAdds(d, i, v) == [d EXCEPT !.nodes = Put(@, i, v)]

(* A value for a node that is not known is skipped. *)
ReadModify(d, i, v) ==
  IF Known(d, i) THEN [d EXCEPT !.nodes = Put(@, i, v)] ELSE d

ReadDelete(d, i) ==
  [d EXCEPT !.nodes = [j \in DOMAIN @ \ {i} |-> @[j]]]

(* One operation of a transaction. *)
ReadOperation(d, o) ==
  CASE o.op = "CREATED" -> ReadCreate(d, o.id)
    [] o.op = "MODIFIED" -> ReadModify(d, o.id, o.value)
    [] o.op = "DELETED" -> ReadDelete(d, o.id)

(* load_file looks at the first element of the array to tell transactions from
   dumps; in an empty array there is none. *)
ReadTransaction(d, ops) ==
  LET after[k \in 0 .. Len(ops)] ==
        IF k = 0 THEN d ELSE ReadOperation(after[k - 1], ops[k])
  IN  IF ops = <<>> THEN Corrupted(d) ELSE after[Len(ops)]

(* Mutant: dumps of later files are not skipped. *)
ReadDumpedAlways(d, r, first) ==
  IF ~d.dumpOn \/ Known(d, r.id) THEN Corrupted(d)
  ELSE [d EXCEPT !.nodes = Put(@, r.id, r.value)]

(* A dumped node must not be known yet; its second copy stays behind, too.
   Dumps of later files are skipped. *)
ReadDumped(d, r, first) ==
  CASE ~d.dumpOn -> Corrupted(d)
    [] d.dumpOn /\ ~first -> d
    [] d.dumpOn /\ first /\ Known(d, r.id) ->
         Corrupted([d EXCEPT !.ghosts = @ \cup {r.id}])
    [] d.dumpOn /\ first /\ ~Known(d, r.id) ->
         [d EXCEPT !.nodes = Put(@, r.id, r.value)]

(* The body of load_file's loop.  Nothing is read any more after the end mark
   or an error; what has been loaded stays. *)
ReadRecord(d, r, first) ==
  IF d.status # "READING" THEN d
  ELSE CASE r.kind = "transaction" -> ReadTransaction(d, r.ops)
         [] r.kind = "dumped" -> ReadDumped(d, r, first)
         [] r.kind = "DUMP BEGIN" ->
              IF d.dumpOn THEN Corrupted(d) ELSE [d EXCEPT !.dumpOn = TRUE]
         [] r.kind = "DUMP END" ->
              IF d.dumpOn THEN [d EXCEPT !.dumpOn = FALSE] ELSE Corrupted(d)
         [] r.kind = "END OF FILE" ->
              [d EXCEPT !.status = "SUCCESS", !.magic = r.magic]
         [] r.kind = "torn" -> Corrupted(d)

HeaderFits(d, file) == file.header /\ d.magic \in {0, file.magic}

BeginsWithDump(file) ==
  file.records # <<>> /\ Head(file.records) = DumpBegin

(* The records of a file, the first n of them. *)
ReadRecords(d, records, n, first) ==
  LET after[k \in 0 .. n] ==
        IF k = 0 THEN d ELSE ReadRecord(after[k - 1], records[k], first)
  IN  after[n]

(* load_file: LOAD_SUCCESS for a closed file, LOAD_UNFINISHED_FILE if there is
   no end mark, LOAD_CORRUPTED_FILE. *)
LoadFile(d, file, first) ==
  LET start == [d EXCEPT !.dumpOn = FALSE, !.status = "READING"]
      end == ReadRecords(start, file.records, Len(file.records), first)
  IN  IF ~HeaderFits(d, file) \/ (first /\ ~BeginsWithDump(file))
        THEN Corrupted(start)
        ELSE IF end.status = "READING" THEN [end EXCEPT !.status = "UNFINISHED"]
                                       ELSE end
=============================================================================
