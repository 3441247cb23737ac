----------------------------- MODULE DumpReplay -----------------------------
(***************************************************************************)
(* Writing the whole database to a new file while transactions go on:      *)
(* do_dump and service_thread (database.include/threads.c), the walk over  *)
(* the nodes (allocators/node_allocator.include.c), creation and deletion  *)
(* of nodes (database.include/node.c), and what the file is worth when it  *)
(* is loaded (Loading).                                                    *)
(*                                                                         *)
(* The service thread writes nodes past the queue: a node is read from     *)
(* memory, where it may be newer than the last job written.  The walk goes *)
(* by the place of nodes in memory, so nodes created meanwhile may still   *)
(* be met.                                                                 *)
(*                                                                         *)
(* A transaction that reaches its commit has exclusive locks on what it    *)
(* has changed; how it gets there is HybridStm's subject.  Here it changes *)
(* nodes, enters the queue, gives the locks back, and fills its job.       *)
(***************************************************************************)
EXTENDS Naturals, Sequences, FiniteSets

CONSTANTS
  Handles,         \* threads with a handle
  NoOwner,         \* owner of a lock nobody holds
  Slots,           \* 1 .. the number of places for nodes in memory
  Values,          \* values of a node
  InitValue,       \* the value of a new node
  StartNodes,      \* nodes that exist at the beginning, in the first slots
  NodesPerBatch,   \* DUMP__NODES_PER_TRANSACTION
  MaxId,           \* bound: ids given out
  MaxOps,          \* bound: operations of a transaction
  MaxCommits,      \* bound: jobs of transactions
  MaxDumps         \* bound: dumps asked for

ASSUME DumpAssumption ==
  /\ NoOwner \notin Handles
  /\ IsFiniteSet(Slots) /\ Slots = 1 .. Cardinality(Slots)
  /\ InitValue \in Values
  /\ StartNodes \in Nat /\ StartNodes <= Cardinality(Slots)
  /\ NodesPerBatch \in Nat \ {0}
  /\ {MaxId, MaxOps, MaxCommits, MaxDumps} \subseteq Nat
  /\ StartNodes <= MaxId

VARIABLES
  id,         \* id[s]: node->id, 0 if the slot is free
  value,      \* value[s]: the node's attributes, when id[s] # 0
  owner,      \* owner[s]: the handle that has the node's lock, or NoOwner
  counter,    \* D->node_id_counter
  place,      \* place[h]: the place of h's transaction in the queue, or 0
  log,        \* log[h]: H->log
  queue,      \* all jobs ever linked to D->head .. D->tail
  taken,      \* the job the service thread works on, or has done last
  svc,        \* where the service thread is
  cursor,     \* allocator->dump_ptr, 0 if there is no node left
  tries,      \* nodes tried in the present round of do_dump
  dumping,    \* the service thread's dump_running
  file,       \* records of the present file
  began,      \* jobs written before this file: history
  overtaken   \* jobs linked when the last dump ended: history

memory == <<id, value, owner, counter>>
disk == <<file, began, overtaken>>
service == <<taken, svc, cursor, tries, dumping>>
vars == <<memory, place, log, queue, service, disk>>

L == INSTANCE Loading

-----------------------------------------------------------------------------
(* Memory *)

Live(s) == id[s] # 0

SmallestOf(S) == CHOOSE s \in S : \A t \in S : s <= t

(* _node_allocator_dump_next_nolock, with ids: the next slot with a node, in
   memory order, or 0. *)
NextNode(ids, s) ==
  LET later == {t \in Slots : t > s /\ ids[t] # 0}
  IN  IF later = {} THEN 0 ELSE SmallestOf(later)

(* node_allocator_free of all nodes in S; the dump moves on if it was about to
   write one of them. *)
Free(S) ==
  /\ id' = [s \in Slots |-> IF s \in S THEN 0 ELSE id[s]]
  /\ cursor' = IF cursor \in S THEN NextNode(id', cursor) ELSE cursor

-----------------------------------------------------------------------------
(* Transactions *)

(* Jobs the service thread is done with. *)
Written == IF svc = "job" THEN taken - 1 ELSE taken

(* A node somebody has committed to delete is not reached any more, although
   it is freed only by the service thread. *)
Doomed(s) ==
  \/ \E k \in DOMAIN queue : k > Written /\ s \in queue[k].garbage
  \/ \E h \in Handles : \E i \in DOMAIN log[h] :
       log[h][i].slot = s /\ log[h][i].op.op = "DELETED"

Owns(h) == {s \in Slots : owner[s] = h}

(* A lock is granted if nobody else has it, or the call fails and the caller
   aborts. *)
Lockable(h, s) == owner[s] \in {h, NoOwner}

Running(h) == place[h] = 0 /\ log[h] # <<>>
Queued(h) == place[h] # 0

(* The number of transactions linked, and of dumps asked for. *)
Commits == Cardinality({k \in DOMAIN queue : queue[k].type = "COMMIT"})
DumpsAsked == Len(queue) - Commits

Logged(h, s, o) ==
  /\ place[h] = 0
  /\ Len(log[h]) < MaxOps
  /\ Commits + Cardinality({g \in Handles \ {h} : Running(g)}) < MaxCommits
  /\ log' = [log EXCEPT ![h] = Append(@, [slot |-> s, op |-> o, old |-> value[s]])]
  /\ UNCHANGED <<place, queue, service, disk>>

(* tr_node_create: a free slot is locked, gets an id and its initial value. *)
NodeCreate(h, s) ==
  /\ ~Live(s) /\ owner[s] = NoOwner
  /\ counter < MaxId
  /\ counter' = counter + 1
  /\ id' = [id EXCEPT ![s] = counter + 1]
  /\ owner' = [owner EXCEPT ![s] = h]
  /\ value' = [value EXCEPT ![s] = InitValue]
  /\ Logged(h, s, L!Created(counter + 1))

(* trWrite of a node *)
NodeModify(h, s, v) ==
  /\ Live(s) /\ Lockable(h, s) /\ ~Doomed(s)
  /\ owner' = [owner EXCEPT ![s] = h]
  /\ value' = [value EXCEPT ![s] = v]
  /\ Logged(h, s, L!Modified(id[s], v))
  /\ UNCHANGED <<id, counter>>

(* tr_node_delete: the node stays where it is until the job is written. *)
NodeDelete(h, s) ==
  /\ Live(s) /\ Lockable(h, s) /\ ~Doomed(s)
  /\ owner' = [owner EXCEPT ![s] = h]
  /\ Logged(h, s, L!Deleted(id[s]))
  /\ UNCHANGED <<id, value, counter>>

Ops(items) == [i \in DOMAIN items |-> items[i].op]
SlotsOf(items, what) ==
  {items[i].slot : i \in {i \in DOMAIN items : items[i].op.op = what}}

Job(t) == [type |-> t, ops |-> <<>>, garbage |-> {}, ready |-> FALSE]

(* output_queue_push: the transaction has its place, and its locks. *)
Push(h) ==
  /\ Running(h)
  /\ queue' = Append(queue, Job("COMMIT"))
  /\ place' = [place EXCEPT ![h] = Len(queue')]
  /\ UNCHANGED <<memory, log, service, disk>>

Released(h) == [s \in Slots |-> IF owner[s] = h THEN NoOwner ELSE owner[s]]

(* Validation has succeeded: _tr_unlock.  The values are everybody's now. *)
Unlock(h) ==
  /\ Queued(h)
  /\ Owns(h) # {}
  /\ owner' = Released(h)
  /\ UNCHANGED <<id, value, counter, place, log, queue, service, disk>>

(* process_transaction_log, sem_post(&O->ready), handle_cleanup *)
Fill(h) ==
  /\ Queued(h)
  /\ Owns(h) = {}
  /\ queue' = [queue EXCEPT ![place[h]] =
       [@ EXCEPT !.ops = Ops(log[h]),
                 !.garbage = SlotsOf(log[h], "DELETED"),
                 !.ready = TRUE]]
  /\ log' = [log EXCEPT ![h] = <<>>]
  /\ place' = [place EXCEPT ![h] = 0]
  /\ UNCHANGED <<memory, service, disk>>

(* The value of s before h changed it first. *)
OldValue(h, s) ==
  log[h][SmallestOf({i \in DOMAIN log[h] : log[h][i].slot = s})].old

(* _tr_abort_main: all is put back, new nodes are freed.  Whether the locks are
   released one by one makes no difference to the dump. *)
Rollback(h) ==
  /\ value' = [s \in Slots |-> IF owner[s] = h THEN OldValue(h, s) ELSE value[s]]
  /\ Free(SlotsOf(log[h], "CREATED"))
  /\ owner' = Released(h)
  /\ log' = [log EXCEPT ![h] = <<>>]
  /\ place' = [place EXCEPT ![h] = 0]
  /\ UNCHANGED <<counter, taken, svc, tries, dumping, disk>>

Abort(h) ==
  /\ Running(h)
  /\ Rollback(h)
  /\ UNCHANGED queue

(* Validation fails after the job has been linked (FAST_COMMIT): it is left
   empty, and marked ready. *)
Invalid(h) ==
  /\ Queued(h)
  /\ Owns(h) # {}
  /\ queue' = [queue EXCEPT ![place[h]].ready = TRUE]
  /\ Rollback(h)

(* database_dump *)
AskForDump ==
  /\ DumpsAsked < MaxDumps
  /\ queue' = Append(queue, [Job("START_DUMP") EXCEPT !.ready = TRUE])
  /\ UNCHANGED <<memory, place, log, service, disk>>

-----------------------------------------------------------------------------
(* The service thread *)

(* It takes the next job when it has nothing else to do, or after a round of
   do_dump if sem_trywait succeeds. *)
SvcTake ==
  /\ svc = "wait" \/ (svc = "dump" /\ tries = NodesPerBatch)
  /\ taken < Len(queue)
  /\ taken' = taken + 1
  /\ svc' = "job"
  /\ UNCHANGED <<memory, place, log, queue, cursor, tries, dumping, disk>>

AfterJob == IF dumping' THEN "dump" ELSE "wait"

(* The job's records, which a failed transaction has none of, then the garbage
   of a transaction: deleted nodes are freed only now. *)
SvcCommit ==
  /\ svc = "job"
  /\ queue[taken].type = "COMMIT" /\ queue[taken].ready
  /\ file' = IF queue[taken].ops = <<>> THEN file
             ELSE Append(file, L!Transaction(queue[taken].ops))
  /\ Free(queue[taken].garbage)
  /\ dumping' = dumping
  /\ svc' = AfterJob
  /\ tries' = 0
  /\ UNCHANGED <<value, owner, counter, place, log, queue, taken, began, overtaken>>

(* _database_new_file(D, true, ..) begins a file with DUMP BEGIN, the cursor is
   put on the first node; a second request while a dump runs is refused. *)
SvcStartDump ==
  /\ svc = "job"
  /\ queue[taken].type = "START_DUMP"
  /\ IF dumping THEN UNCHANGED <<cursor, dumping, file, began>>
     ELSE /\ file' = <<L!DumpBegin>>
          /\ began' = Written
          /\ cursor' = NextNode(id, 0)
          /\ dumping' = TRUE
  /\ svc' = AfterJob
  /\ tries' = 0
  /\ UNCHANGED <<memory, place, log, queue, taken, overtaken>>

(* Mutant: a node is written whoever has its lock. *)
SvcDumpNodeDirty ==
  /\ svc = "dump" /\ tries < NodesPerBatch /\ cursor # 0
  /\ file' = Append(file, L!Dumped(id[cursor], value[cursor]))
  /\ cursor' = NextNode(id, cursor)
  /\ tries' = tries + 1
  /\ UNCHANGED <<memory, place, log, queue, taken, svc, dumping, began,
                 overtaken>>

(* The body of do_dump's loop: the node under the cursor is locked, written
   and unlocked, and the cursor moves on; or somebody has the lock, and the
   node is tried again. *)
SvcDumpNode ==
  /\ svc = "dump" /\ tries < NodesPerBatch /\ cursor # 0
  /\ tries' = tries + 1
  /\ IF owner[cursor] = NoOwner
       THEN /\ file' = Append(file, L!Dumped(id[cursor], value[cursor]))
            /\ cursor' = NextNode(id, cursor)
       ELSE UNCHANGED <<file, cursor>>
  /\ UNCHANGED <<memory, place, log, queue, taken, svc, dumping, began,
                 overtaken>>

(* sem_trywait has failed: the next round. *)
SvcDumpOn ==
  /\ svc = "dump" /\ tries = NodesPerBatch
  /\ tries' = 0
  /\ UNCHANGED <<memory, place, log, queue, taken, svc, cursor, dumping, disk>>

(* dump_finish: the end mark, on the disk. *)
SvcDumpEnd ==
  /\ svc = "dump" /\ tries < NodesPerBatch /\ cursor = 0
  /\ file' = Append(file, L!DumpEnd)
  /\ overtaken' = Len(queue)
  /\ dumping' = FALSE
  /\ svc' = "wait"
  /\ UNCHANGED <<memory, place, log, queue, taken, cursor, tries, began>>

-----------------------------------------------------------------------------
Init ==
  /\ id = [s \in Slots |-> IF s <= StartNodes THEN s ELSE 0]
  /\ value = [s \in Slots |-> InitValue]
  /\ owner = [s \in Slots |-> NoOwner]
  /\ counter = StartNodes
  /\ place = [h \in Handles |-> 0]
  /\ log = [h \in Handles |-> <<>>]
  /\ queue = <<>>
  /\ taken = 0
  /\ svc = "wait"
  /\ cursor = 0
  /\ tries = 0
  /\ dumping = FALSE
  /\ file = <<>>
  /\ began = 0
  /\ overtaken = 0

Transact(h) ==
  \/ \E s \in Slots : NodeCreate(h, s) \/ NodeDelete(h, s)
  \/ \E s \in Slots, v \in Values : NodeModify(h, s, v)
  \/ Push(h) \/ Unlock(h) \/ Fill(h) \/ Abort(h) \/ Invalid(h)

Serve == SvcTake \/ SvcCommit \/ SvcStartDump
         \/ SvcDumpNode \/ SvcDumpOn \/ SvcDumpEnd

(* All is written and nobody asks for more. *)
Idle ==
  /\ \A h \in Handles : log[h] = <<>>
  /\ svc = "wait" /\ taken = Len(queue)
  /\ UNCHANGED vars

Next == AskForDump \/ Serve \/ Idle \/ \E h \in Handles : Transact(h)

Spec == Init /\ [][Next]_vars
-----------------------------------------------------------------------------
(* What the files are worth *)

Ids == 1 .. MaxId

(* Places of operations on node i in the first k jobs. *)
Touching(k, i) ==
  {p \in (1 .. k) \X (1 .. MaxOps) :
     p[2] \in DOMAIN queue[p[1]].ops /\ queue[p[1]].ops[p[2]].id = i}

(* The last of them, if there is any. *)
Latest(P) ==
  CHOOSE p \in P : \A q \in P : q[1] < p[1] \/ (q[1] = p[1] /\ q[2] <= p[2])

(* The nodes and their values as the first k transactions leave them, and the
   value of one of these nodes: what the last operation on it says. *)
Existing(k) ==
  {i \in Ids : LET P == Touching(k, i)
               IN  IF P = {} THEN i <= StartNodes
                   ELSE queue[Latest(P)[1]].ops[Latest(P)[2]].op # "DELETED"}

ValueOf(k, i) ==
  LET P == Touching(k, i)
      o == queue[Latest(P)[1]].ops[Latest(P)[2]]
  IN  IF P = {} \/ o.op = "CREATED" THEN InitValue ELSE o.value

Committed(k) == [i \in Existing(k) |-> ValueOf(k, i)]

(* The present file loaded on top of all files before it, and on its own. *)
OnDisk == [header |-> TRUE, magic |-> 1, records |-> file]
AsLast ==
  L!LoadFile([L!Nothing EXCEPT !.nodes = Committed(began)], OnDisk, FALSE)
AsFirst == L!LoadFile(L!Nothing, OnDisk, TRUE)

DumpComplete == overtaken > 0 /\ ~dumping

(* The records that create node i, and those that dump it. *)
Creations(i) ==
  {k \in DOMAIN file : file[k].kind = "transaction"
     /\ \E x \in DOMAIN file[k].ops : file[k].ops[x] = L!Created(i)}
Dumps(i) == {k \in DOMAIN file : file[k].kind = "dumped" /\ file[k].id = i}

-----------------------------------------------------------------------------
(* Loaded after the older files, the present file gives the state its last job
   committed, whatever a dump has mixed into it. *)
ChainLoads ==
  /\ AsLast.status = "UNFINISHED"
  /\ AsLast.ghosts = {}
  /\ AsLast.nodes = Committed(Written)

(* Once the jobs a dump has overtaken are written, the file alone gives the
   same state, if it can be loaded at all: the dump has left out no node, has
   kept no value of a transaction that failed, and nothing it has read too
   early or too late stays. *)
DumpIsState ==
  DumpComplete /\ Written >= overtaken /\ AsFirst.status = "UNFINISHED"
    => AsFirst.nodes = Committed(Written)

(* A file with a dump is refused for one reason only: a node created while the
   dump ran was met by the dump after the record of its creation. *)
RefusedOnlyForEarlyCreation ==
  DumpComplete =>
    (AsFirst.status = "CORRUPTED" <=>
       \E i \in Ids : \E k \in Creations(i), d \in Dumps(i) : k < d)

(* When the dump is complete older files can be deleted without losing data
   (database.h:89-90): the file can be loaded on its own. *)
DumpLoads == DumpComplete => AsFirst.status = "UNFINISHED"

(* And what it gives is the state after some number of whole transactions
   (text/kap1.tex:15-17).  This does not hold: a crash can leave a complete dump
   without the jobs it has overtaken. *)
DumpAtomic ==
  DumpComplete /\ AsFirst.status = "UNFINISHED" =>
    \E k \in 0 .. Len(queue) : AsFirst.nodes = Committed(k)

(* A request to create a node that exists is ignored (text/kap3.tex:300-301).
   This does not hold: read_node_prepare has allocated a node by then. *)
NoGhosts == DumpComplete => AsFirst.ghosts = {}
=============================================================================
