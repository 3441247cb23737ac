----------------------------- MODULE HybridStm -----------------------------
(***************************************************************************)
(* The software transactional memory of HybridDatabases: in-place writes   *)
(* with an undo log, one versioned lock per object, a global clock.        *)
(*                                                                         *)
(* Every handle runs one main transaction at a time, with nested ones      *)
(* inside it.  One action stands for one access to state another thread    *)
(* can see (a lock word, an object, the clock, the output queue); private  *)
(* work of a handle joins the access it precedes.  The service thread is   *)
(* the subject of CommitPipeline; here the output queue only grows, so     *)
(* that it is also the redo stream the data files receive.                 *)
(***************************************************************************)
EXTENDS Integers, Sequences, FiniteSets

CONSTANTS
  Handles,     (* handles of the database, each used by one thread          *)
  Nodes,       (* objects guarded by a lock of their own                    *)
  Values,      (* attribute values                                          *)
  InitValue,   (* the value every object holds when the database is opened  *)
  Builds,      (* bound: values of the compile-time switch FAST_COMMIT      *)
  CommitTypes, (* commit types the callers pass to tr_commit                *)
  Calls,       (* bound: the access functions the transactions use          *)
  MaxBegins,   (* bound: main transactions started, over all handles        *)
  MaxLog,      (* bound: writes logged by one main transaction              *)
  MaxNest      (* bound: depth of nested transactions                       *)

(* A lock word is odd when it is a version and even when it is a pointer to
   a handle: no handle can be mistaken for a version. *)
ASSUME ConstAssumption ==
  /\ Handles \cap Nat = {}
  /\ InitValue \in Values
  /\ Builds \subseteq BOOLEAN
  /\ CommitTypes \subseteq {"SYNC", "ASYNC", "FORCE_ASYNC"}
  /\ Calls \subseteq {"trRead", "trUncheckedRead", "trWrite", "tr_node_write"}
  /\ MaxBegins \in Nat
  /\ MaxLog \in Nat
  /\ MaxNest \in Nat

VARIABLES
  fastCommit,  (* the build that runs: FAST_COMMIT or not                   *)
  time,        (* D->time, odd                                              *)
  lock,        (* lock word of each object: a version, or the owning handle *)
  mem,         (* value stored in each object                               *)
  queue,       (* every job ever pushed to the output queue, in order       *)
  mutex,       (* holder of D->mutex across several steps, or "free"        *)
  begun,       (* main transactions started so far                          *)
  pc,          (* where each handle is inside the calls it makes            *)
  start,       (* H->start_time, 0 when no transaction runs                 *)
  readSet,     (* H->read_set                                               *)
  acquired,    (* H->acquired_locks                                         *)
  log,         (* H->log: the writes, oldest first                          *)
  nested,      (* H->transactions: a savepoint per nested transaction       *)
  commitType,  (* H->commit_type                                            *)
  access,      (* the access a handle is in the middle of                   *)
  toCheck,     (* read set entries tr_validate has still to check           *)
  endTime,     (* end_time of the commit or abort in progress               *)
  want,        (* effective commit type of the commit in progress           *)
  job,         (* index in queue of the job of the commit in progress       *)
  seen,        (* history: reads the current transaction rests on           *)
  synced       (* history: a nested transaction of the innermost open one
                  has been committed, and was synchronous                   *)

shared  == <<fastCommit, time, lock, mem, queue, mutex, begun>>
private == <<pc, start, readSet, acquired, log, nested, commitType, access,
             toCheck, endTime, want, job, seen, synced>>
vars    == <<shared, private>>

Free    == "free"
NoEntry == [node |-> "none"]

(* A mutex that is free belongs to nobody. *)
ASSUME FreeAssumption == Free \notin Handles

LogItem == [node : Nodes, old : Values, new : Values]
Access  == [node : Nodes, value : Values, old : Values]
Read    == [node : Nodes, value : Values, checked : BOOLEAN]
Kinds   == {"COMMIT", "SYNC_COMMIT", "SYNC_ME"}
Job     == [handle : Handles, kind : Kinds, end : Nat, ready : BOOLEAN,
            state : {"pending", "failed", "committed", "none"},
            redo : Seq(LogItem), reads : SUBSET Read]
Savepoint == [readSet : SUBSET Nodes, pos : Nat,
              commitType : {"SYNC", "ASYNC"}, seen : SUBSET Read,
              synced : BOOLEAN,
              view : UNION {[S -> Values] : S \in SUBSET Nodes}]

-----------------------------------------------------------------------------
(* Lock words *)

IsVersion(n) == lock[n] \notin Handles

(* Mutant: l_lock takes any free lock, however new its version. *)
LLockAnyVersion(h, n) == IsVersion(n) \/ lock[n] = h

(* l_lock succeeds: the word is a version not above ours, or our pointer.
   The compare-and-swap loop makes the test and the store one step. *)
LLock(h, n) == IF IsVersion(n) THEN lock[n] <= start[h] ELSE lock[n] = h

(* Mutant: l_check only asks whether somebody else holds the lock. *)
LCheckAnyVersion(h, n) == IsVersion(n) \/ lock[n] = h

(* l_check: what was read under this lock may be used. *)
LCheck(h, n) == IF IsVersion(n) THEN lock[n] <= start[h] ELSE lock[n] = h

(* Nodes the current transaction has written. *)
WrittenBy(h) == {log[h][i].node : i \in DOMAIN log[h]}

Front(s) == SubSeq(s, 1, Len(s) - 1)
Top(s)   == s[Len(s)]

Goto(h, from, to) == pc[h] = from /\ pc' = [pc EXCEPT ![h] = to]

-----------------------------------------------------------------------------
Init ==
  /\ fastCommit \in Builds
  /\ time = 1
  /\ lock = [n \in Nodes |-> 1]
  /\ mem = [n \in Nodes |-> InitValue]
  /\ queue = <<>>
  /\ mutex = Free
  /\ begun = 0
  /\ pc = [h \in Handles |-> "idle"]
  /\ start = [h \in Handles |-> 0]
  /\ readSet = [h \in Handles |-> {}]
  /\ acquired = [h \in Handles |-> {}]
  /\ log = [h \in Handles |-> <<>>]
  /\ nested = [h \in Handles |-> <<>>]
  /\ commitType = [h \in Handles |-> "ASYNC"]
  /\ access = [h \in Handles |-> NoEntry]
  /\ toCheck = [h \in Handles |-> {}]
  /\ endTime = [h \in Handles |-> 0]
  /\ want = [h \in Handles |-> "ASYNC"]
  /\ job = [h \in Handles |-> 0]
  /\ seen = [h \in Handles |-> {}]
  /\ synced = [h \in Handles |-> FALSE]

-----------------------------------------------------------------------------
(* Beginning *)

(* tr_begin of a main transaction. *)
Begin(h) ==
  /\ begun < MaxBegins
  /\ Goto(h, "idle", "run")
  /\ begun' = begun + 1
  /\ start' = [start EXCEPT ![h] = time]
  /\ UNCHANGED <<fastCommit, time, lock, mem, queue, mutex, readSet, acquired,
                 log, nested, commitType, access, toCheck, endTime, want, job,
                 seen, synced>>

(* tr_begin inside a transaction: remember where to roll back to. *)
BeginNested(h) ==
  /\ pc[h] = "run"
  /\ Len(nested[h]) < MaxNest
  /\ nested' = [nested EXCEPT ![h] =
       Append(@, [readSet |-> readSet[h], pos |-> Len(log[h]),
                  commitType |-> commitType[h], seen |-> seen[h],
                  synced |-> synced[h],
                  view |-> [n \in acquired[h] |-> mem[n]]])]
  /\ synced' = [synced EXCEPT ![h] = FALSE]
  /\ UNCHANGED <<shared, pc, start, readSet, acquired, log, commitType, access,
                 toCheck, endTime, want, job, seen>>

-----------------------------------------------------------------------------
(* Reading *)

(* The first half of trRead and tr_node_read: enter the node in the read set
   and load the value. *)
Load(h, n) ==
  /\ "trRead" \in Calls
  /\ Goto(h, "run", "check")
  /\ readSet' = [readSet EXCEPT ![h] = @ \cup {n}]
  /\ access' = [access EXCEPT ![h] =
                  [node |-> n, value |-> mem[n], old |-> mem[n]]]
  /\ UNCHANGED <<shared, start, acquired, log, nested, commitType, toCheck,
                 endTime, want, job, seen, synced>>

(* A value read by the transaction from somebody else's writes. *)
Noted(h, n, v, checked) ==
  IF n \in WrittenBy(h) THEN seen[h]
  ELSE seen[h] \cup {[node |-> n, value |-> v, checked |-> checked]}

(* The second half: the value is returned only if the lock still allows it. *)
Check(h) ==
  /\ pc[h] = "check"
  /\ LET n == access[h].node IN
       \/ /\ LCheck(h, n)
          /\ pc' = [pc EXCEPT ![h] = "run"]
          /\ seen' = [seen EXCEPT ![h] = Noted(h, n, access[h].value, TRUE)]
       \/ /\ ~LCheck(h, n)
          /\ pc' = [pc EXCEPT ![h] = "failed"]
          /\ UNCHANGED seen
  /\ access' = [access EXCEPT ![h] = NoEntry]
  /\ UNCHANGED <<shared, start, readSet, acquired, log, nested, commitType,
                 toCheck, endTime, want, job, synced>>

(* trUncheckedRead: in the read set, but nobody looks at the lock. *)
UncheckedRead(h, n) ==
  /\ "trUncheckedRead" \in Calls
  /\ pc[h] = "run"
  /\ readSet' = [readSet EXCEPT ![h] = @ \cup {n}]
  /\ seen' = [seen EXCEPT ![h] = Noted(h, n, mem[n], FALSE)]
  /\ UNCHANGED <<shared, pc, start, acquired, log, nested, commitType, access,
                 toCheck, endTime, want, job, synced>>

-----------------------------------------------------------------------------
(* Writing *)

(* Mutant: the lock is not remembered for _tr_unlock. *)
UtilLockForgets(h, n, next) ==
  \/ /\ LLock(h, n)
     /\ lock' = [lock EXCEPT ![n] = h]
     /\ pc' = [pc EXCEPT ![h] = next]
     /\ UNCHANGED acquired
  \/ /\ ~LLock(h, n)
     /\ pc' = [pc EXCEPT ![h] = "failed"]
     /\ UNCHANGED <<lock, acquired>>

(* util_lock: take the lock and remember to release it, or fail.  A lock the
   handle owns already is not entered a second time. *)
UtilLock(h, n, next) ==
  \/ /\ LLock(h, n)
     /\ lock' = [lock EXCEPT ![n] = h]
     /\ acquired' = [acquired EXCEPT ![h] = @ \cup {n}]
     /\ pc' = [pc EXCEPT ![h] = next]
  \/ /\ ~LLock(h, n)
     /\ pc' = [pc EXCEPT ![h] = "failed"]
     /\ UNCHANGED <<lock, acquired>>

(* trWrite: lock first ... *)
LockForWrite(h, n, v) ==
  /\ "trWrite" \in Calls
  /\ pc[h] = "run"
  /\ Len(log[h]) < MaxLog
  /\ UtilLock(h, n, "store")
  /\ access' = [access EXCEPT ![h] = [node |-> n, value |-> v, old |-> v]]
  /\ UNCHANGED <<time, mem, queue, mutex, begun, fastCommit, start, readSet,
                 log, nested, commitType, toCheck, endTime, want, job, seen,
                 synced>>

(* Mutant: the value is overwritten before the log item copies it. *)
StoreLoggedLate(h, old) ==
  LET a == access[h] IN
    /\ mem' = [mem EXCEPT ![a.node] = a.value]
    /\ log' = [log EXCEPT ![h] =
                 Append(@, [node |-> a.node, old |-> a.value, new |-> a.value])]

(* Log the old value and overwrite it in place. *)
StoreLogged(h, old) ==
  LET a == access[h] IN
    /\ mem' = [mem EXCEPT ![a.node] = a.value]
    /\ log' = [log EXCEPT ![h] =
                 Append(@, [node |-> a.node, old |-> old, new |-> a.value])]

(* ... then trInternalWrite under the lock. *)
Store(h) ==
  /\ Goto(h, "store", "run")
  /\ StoreLogged(h, mem[access[h].node])
  /\ access' = [access EXCEPT ![h] = NoEntry]
  /\ UNCHANGED <<time, lock, queue, mutex, begun, fastCommit, start, readSet,
                 acquired, nested, commitType, toCheck, endTime, want, job,
                 seen, synced>>

(* tr_node_write copies the old value before it tries the lock ... *)
CopyOld(h, n, v) ==
  /\ "tr_node_write" \in Calls
  /\ Len(log[h]) < MaxLog
  /\ Goto(h, "run", "copied")
  /\ access' = [access EXCEPT ![h] = [node |-> n, value |-> v, old |-> mem[n]]]
  /\ UNCHANGED <<shared, start, readSet, acquired, log, nested, commitType,
                 toCheck, endTime, want, job, seen, synced>>

LockCopied(h) ==
  /\ pc[h] = "copied"
  /\ UtilLock(h, access[h].node, "storeCopied")
  /\ UNCHANGED <<time, mem, queue, mutex, begun, fastCommit, start, readSet,
                 log, nested, commitType, access, toCheck, endTime, want, job,
                 seen, synced>>

(* ... and logs that early copy. *)
StoreCopied(h) ==
  /\ Goto(h, "storeCopied", "run")
  /\ StoreLogged(h, access[h].old)
  /\ access' = [access EXCEPT ![h] = NoEntry]
  /\ UNCHANGED <<time, lock, queue, mutex, begun, fastCommit, start, readSet,
                 acquired, nested, commitType, toCheck, endTime, want, job,
                 seen, synced>>

-----------------------------------------------------------------------------
(* Commit *)

(* tr_commit of a nested transaction: its writes and reads stay, its wish for
   a synchronous commit is handed on. *)
CommitNested(h, ct) ==
  /\ pc[h] = "run"
  /\ nested[h] # <<>>
  /\ nested' = [nested EXCEPT ![h] = Front(@)]
  /\ commitType' = [commitType EXCEPT ![h] =
       CASE ct = "SYNC" -> "SYNC"
         [] ct = "FORCE_ASYNC" -> "ASYNC"
         [] ct = "ASYNC" -> @]
  /\ synced' = [synced EXCEPT ![h] = \/ Top(nested[h]).synced
                                     \/ ct = "SYNC"
                                     \/ ct = "ASYNC" /\ synced[h]]
  /\ UNCHANGED <<shared, pc, start, readSet, acquired, log, access, toCheck,
                 endTime, want, job, seen>>

Effective(h, ct) == IF ct = "ASYNC" THEN commitType[h] ELSE ct

(* atomic_add_and_fetch(&D->time, 2) *)
Tick(h) ==
  /\ time' = time + 2
  /\ endTime' = [endTime EXCEPT ![h] = time + 2]

(* _tr_commit_main with an empty log: nothing to validate, nothing to write. *)
CommitReadOnly(h, ct) ==
  /\ nested[h] = <<>>
  /\ log[h] = <<>>
  /\ Goto(h, "run", "unlockReadOnly")
  /\ want' = [want EXCEPT ![h] = Effective(h, ct)]
  /\ Tick(h)
  /\ UNCHANGED <<lock, mem, queue, mutex, begun, fastCommit, start, readSet,
                 acquired, log, nested, commitType, access, toCheck, job, seen,
                 synced>>

(* FAST_COMMIT: take the end time before anything is validated ... *)
CommitFast(h, ct) ==
  /\ fastCommit
  /\ nested[h] = <<>>
  /\ log[h] # <<>>
  /\ Goto(h, "run", "push")
  /\ want' = [want EXCEPT ![h] = Effective(h, ct)]
  /\ Tick(h)
  /\ UNCHANGED <<lock, mem, queue, mutex, begun, fastCommit, start, readSet,
                 acquired, log, nested, commitType, access, toCheck, job, seen,
                 synced>>

(* Mutant: the commit type is cast to a job kind. *)
JobOfCast(h, end, ready) ==
  [handle |-> h, end |-> end, ready |-> ready, state |-> "pending",
   kind |-> want[h], redo |-> <<>>, reads |-> {}]

JobOf(h, end, ready) ==
  [handle |-> h, end |-> end, ready |-> ready, state |-> "pending",
   kind |-> IF want[h] = "SYNC" THEN "SYNC_COMMIT" ELSE "COMMIT",
   redo |-> <<>>, reads |-> {}]

(* ... then enter the output queue ... *)
Push(h) ==
  /\ Goto(h, "push", "validate")
  /\ mutex = Free
  /\ queue' = Append(queue, JobOf(h, endTime[h], FALSE))
  /\ job' = [job EXCEPT ![h] = Len(queue) + 1]
  /\ toCheck' = [toCheck EXCEPT ![h] = readSet[h]]
  /\ UNCHANGED <<time, lock, mem, mutex, begun, fastCommit, start, readSet,
                 acquired, log, nested, commitType, access, endTime, want,
                 seen, synced>>

(* Without FAST_COMMIT: validation happens inside D->mutex, before the end
   time is taken. *)
CommitLocked(h, ct) ==
  /\ ~fastCommit
  /\ nested[h] = <<>>
  /\ log[h] # <<>>
  /\ mutex = Free
  /\ mutex' = h
  /\ Goto(h, "run", "validate")
  /\ want' = [want EXCEPT ![h] = Effective(h, ct)]
  /\ toCheck' = [toCheck EXCEPT ![h] = readSet[h]]
  /\ UNCHANGED <<time, lock, mem, queue, begun, fastCommit, start, readSet,
                 acquired, log, nested, commitType, access, endTime, job, seen,
                 synced>>

(* tr_validate, one lock at a time. *)
ValidateOne(h, n) ==
  /\ pc[h] = "validate"
  /\ n \in toCheck[h]
  /\ LCheck(h, n)
  /\ toCheck' = [toCheck EXCEPT ![h] = @ \ {n}]
  /\ UNCHANGED <<shared, pc, start, readSet, acquired, log, nested, commitType,
                 access, endTime, want, job, seen, synced>>

(* Mutant: a failed FAST_COMMIT leaves its job in the queue as it is. *)
ValidateFailedSilent(h, n) ==
  /\ Goto(h, "validate", "undo")
  /\ n \in toCheck[h]
  /\ ~LCheck(h, n)
  /\ IF fastCommit THEN UNCHANGED mutex ELSE mutex' = Free
  /\ toCheck' = [toCheck EXCEPT ![h] = {}]
  /\ readSet' = [readSet EXCEPT ![h] = {}]
  /\ seen' = [seen EXCEPT ![h] = {}]
  /\ UNCHANGED <<time, lock, mem, queue, begun, fastCommit, start, acquired,
                 log, nested, commitType, access, endTime, want, job, synced>>

(* tr_validate fails.  With FAST_COMMIT the job is in the queue already and
   is declared ready, empty; otherwise it is thrown away and D->mutex left. *)
ValidateFailed(h, n) ==
  /\ Goto(h, "validate", "undo")
  /\ n \in toCheck[h]
  /\ ~LCheck(h, n)
  /\ IF fastCommit
     THEN /\ queue' = [queue EXCEPT ![job[h]].ready = TRUE,
                                    ![job[h]].state = "failed"]
          /\ UNCHANGED mutex
     ELSE /\ mutex' = Free
          /\ UNCHANGED queue
  /\ toCheck' = [toCheck EXCEPT ![h] = {}]
  /\ readSet' = [readSet EXCEPT ![h] = {}]
  /\ seen' = [seen EXCEPT ![h] = {}]
  /\ UNCHANGED <<time, lock, mem, begun, fastCommit, start, acquired, log,
                 nested, commitType, access, endTime, want, job, synced>>

(* The read set held: the transaction is committed.  The slow path takes its
   end time and its place in the queue now and leaves D->mutex. *)
Validated(h) ==
  /\ Goto(h, "validate", "unlockCommit")
  /\ toCheck[h] = {}
  /\ IF fastCommit
     THEN /\ queue' = [queue EXCEPT ![job[h]].state = "committed",
                                    ![job[h]].reads = seen[h]]
          /\ UNCHANGED <<time, endTime, job, mutex>>
     ELSE /\ Tick(h)
          /\ queue' = Append(queue, [JobOf(h, time + 2, FALSE) EXCEPT
                                       !.state = "committed", !.reads = seen[h]])
          /\ job' = [job EXCEPT ![h] = Len(queue) + 1]
          /\ mutex' = Free
  /\ UNCHANGED <<lock, mem, begun, fastCommit, start, readSet, acquired, log,
                 nested, commitType, access, toCheck, want, seen, synced>>

-----------------------------------------------------------------------------
(* Abort *)

(* tr_hard_abort: give up the main transaction whatever the nesting.  The
   rollback record is zeroed, so the read set is cut to nothing. *)
HardAbort(h) ==
  /\ pc[h] \in {"run", "failed"}
  /\ pc' = [pc EXCEPT ![h] = "undo"]
  /\ readSet' = [readSet EXCEPT ![h] = {}]
  /\ access' = [access EXCEPT ![h] = NoEntry]
  /\ seen' = [seen EXCEPT ![h] = {}]
  /\ UNCHANGED <<shared, start, acquired, log, nested, commitType, toCheck,
                 endTime, want, job, synced>>

(* tr_abort, or a failed access, inside a nested transaction: the read set is
   cut back to the savepoint; locks taken since then stay taken. *)
AbortNested(h) ==
  /\ pc[h] \in {"run", "failed"}
  /\ nested[h] # <<>>
  /\ pc' = [pc EXCEPT ![h] = "undoNested"]
  /\ readSet' = [readSet EXCEPT ![h] = Top(nested[h]).readSet]
  /\ access' = [access EXCEPT ![h] = NoEntry]
  /\ seen' = [seen EXCEPT ![h] = Top(nested[h]).seen]
  /\ synced' = [synced EXCEPT ![h] = Top(nested[h]).synced]
  /\ UNCHANGED <<shared, start, acquired, log, nested, commitType, toCheck,
                 endTime, want, job>>

(* Mutant: the item undone stays in the log. *)
UndoItemKeeps(h) ==
  LET i == Top(log[h]) IN
    /\ mem' = [mem EXCEPT ![i.node] = i.old]
    /\ log' = log

(* log_undo_item on the newest item. *)
UndoItem(h) ==
  LET i == Top(log[h]) IN
    /\ mem' = [mem EXCEPT ![i.node] = i.old]
    /\ log' = [log EXCEPT ![h] = Front(@)]

Undo(h) ==
  /\ \/ /\ pc[h] = "undo"
        /\ log[h] # <<>>
     \/ /\ pc[h] = "undoNested"
        /\ Len(log[h]) > Top(nested[h]).pos
  /\ UndoItem(h)
  /\ UNCHANGED <<time, lock, queue, mutex, begun, fastCommit, pc, start,
                 readSet, acquired, nested, commitType, access, toCheck,
                 endTime, want, job, seen, synced>>

(* Mutant: the wish is cleaned up as at the end of a main transaction. *)
NestedUndoneNoWish(h) ==
  /\ Goto(h, "undoNested", "run")
  /\ Len(log[h]) = Top(nested[h]).pos
  /\ commitType' = [commitType EXCEPT ![h] = "ASYNC"]
  /\ nested' = [nested EXCEPT ![h] = Front(@)]
  /\ UNCHANGED <<shared, start, readSet, acquired, log, access, toCheck,
                 endTime, want, job, seen, synced>>

(* The nested transaction is gone; the enclosing one goes on. *)
NestedUndone(h) ==
  /\ Goto(h, "undoNested", "run")
  /\ Len(log[h]) = Top(nested[h]).pos
  /\ commitType' = [commitType EXCEPT ![h] = Top(nested[h]).commitType]
  /\ nested' = [nested EXCEPT ![h] = Front(@)]
  /\ UNCHANGED <<shared, start, readSet, acquired, log, access, toCheck,
                 endTime, want, job, seen, synced>>

(* Mutant: the locks are released at the present time. *)
AbortTickSame(h) ==
  /\ log[h] = <<>>
  /\ Goto(h, "undo", "unlockAbort")
  /\ endTime' = [endTime EXCEPT ![h] = time]
  /\ commitType' = [commitType EXCEPT ![h] = "ASYNC"]
  /\ UNCHANGED <<time, lock, mem, queue, mutex, begun, fastCommit, start,
                 readSet, acquired, log, nested, access, toCheck, want, job,
                 seen, synced>>

(* Mutant: the locks are released before the rollback is over. *)
AbortTickEarly(h) ==
  /\ Goto(h, "undo", "unlockAbort")
  /\ Tick(h)
  /\ commitType' = [commitType EXCEPT ![h] = "ASYNC"]
  /\ UNCHANGED <<lock, mem, queue, mutex, begun, fastCommit, start, readSet,
                 acquired, log, nested, access, toCheck, want, job, seen,
                 synced>>

(* _tr_abort_main after the rollback: the clock moves, so that a reader that
   saw a dirty value finds a version above its start time. *)
AbortTick(h) ==
  /\ log[h] = <<>>
  /\ Goto(h, "undo", "unlockAbort")
  /\ Tick(h)
  /\ commitType' = [commitType EXCEPT ![h] = "ASYNC"]
  /\ UNCHANGED <<lock, mem, queue, mutex, begun, fastCommit, start, readSet,
                 acquired, log, nested, access, toCheck, want, job, seen,
                 synced>>

-----------------------------------------------------------------------------
(* End of a main transaction *)

(* _tr_unlock, one lock at a time. *)
Unlock(h, n) ==
  /\ pc[h] \in {"unlockCommit", "unlockAbort", "unlockReadOnly"}
  /\ n \in acquired[h]
  /\ acquired' = [acquired EXCEPT ![h] = @ \ {n}]
  /\ lock' = [lock EXCEPT ![n] = IF @ = h THEN endTime[h] ELSE @]
  /\ UNCHANGED <<time, mem, queue, mutex, begun, fastCommit, pc, start,
                 readSet, log, nested, commitType, access, toCheck, endTime,
                 want, job, seen, synced>>

(* handle_cleanup *)
Cleanup(h) ==
  /\ start' = [start EXCEPT ![h] = 0]
  /\ readSet' = [readSet EXCEPT ![h] = {}]
  /\ acquired' = [acquired EXCEPT ![h] = {}]
  /\ nested' = [nested EXCEPT ![h] = <<>>]
  /\ log' = [log EXCEPT ![h] = <<>>]
  /\ commitType' = [commitType EXCEPT ![h] = "ASYNC"]
  /\ endTime' = [endTime EXCEPT ![h] = 0]
  /\ want' = [want EXCEPT ![h] = "ASYNC"]
  /\ job' = [job EXCEPT ![h] = 0]
  /\ seen' = [seen EXCEPT ![h] = {}]
  /\ synced' = [synced EXCEPT ![h] = FALSE]

(* process_transaction_log fills the job's buffer from the log, sem_post says
   it is ready, the handle is clean again. *)
FinishCommit(h) ==
  /\ acquired[h] = {}
  /\ Goto(h, "unlockCommit", "idle")
  /\ queue' = [queue EXCEPT ![job[h]].redo = log[h], ![job[h]].ready = TRUE]
  /\ Cleanup(h)
  /\ UNCHANGED <<time, lock, mem, mutex, begun, fastCommit, access, toCheck>>

(* A transaction that only read asks for a flush if it commits with CT_SYNC. *)
FinishReadOnly(h) ==
  /\ acquired[h] = {}
  /\ mutex = Free
  /\ Goto(h, "unlockReadOnly", "idle")
  /\ queue' = IF want[h] = "SYNC"
              THEN Append(queue, [JobOf(h, 0, TRUE) EXCEPT
                                  !.kind = "SYNC_ME", !.state = "none"])
              ELSE queue
  /\ Cleanup(h)
  /\ UNCHANGED <<time, lock, mem, mutex, begun, fastCommit, access, toCheck>>

FinishAbort(h) ==
  /\ acquired[h] = {}
  /\ Goto(h, "unlockAbort", "idle")
  /\ Cleanup(h)
  /\ UNCHANGED <<shared, access, toCheck>>

-----------------------------------------------------------------------------
(* What the code of a transaction may call next; nobody is obliged to. *)
UserStep(h) ==
  \/ Begin(h)
  \/ BeginNested(h)
  \/ \E n \in Nodes : Load(h, n)
  \/ \E n \in Nodes : UncheckedRead(h, n)
  \/ \E n \in Nodes, v \in Values : LockForWrite(h, n, v)
  \/ \E n \in Nodes, v \in Values : CopyOld(h, n, v)
  \/ \E ct \in CommitTypes : CommitNested(h, ct)
  \/ \E ct \in CommitTypes : CommitReadOnly(h, ct)
  \/ \E ct \in CommitTypes : CommitFast(h, ct)
  \/ \E ct \in CommitTypes : CommitLocked(h, ct)

(* What a call already made goes on to do. *)
CallStep(h) ==
  \/ Check(h)
  \/ Store(h)
  \/ LockCopied(h)
  \/ StoreCopied(h)
  \/ Push(h)
  \/ \E n \in Nodes : ValidateOne(h, n)
  \/ \E n \in Nodes : ValidateFailed(h, n)
  \/ Validated(h)
  \/ Undo(h)
  \/ NestedUndone(h)
  \/ AbortTick(h)
  \/ \E n \in Nodes : Unlock(h, n)
  \/ FinishCommit(h)
  \/ FinishReadOnly(h)
  \/ FinishAbort(h)

(* A transaction is given up on purpose, or because an access failed. *)
AbortStep(h) == HardAbort(h) \/ AbortNested(h)

(* All handles are idle and no further transaction is asked for. *)
Quiescent ==
  /\ \A h \in Handles : pc[h] = "idle"
  /\ UNCHANGED vars

Next ==
  \/ \E h \in Handles : UserStep(h) \/ CallStep(h) \/ AbortStep(h)
  \/ Quiescent

Spec == Init /\ [][Next]_vars

Fairness == \A h \in Handles : WF_vars(CallStep(h)) /\ WF_vars(AbortStep(h))
FairSpec == Spec /\ Fairness
-----------------------------------------------------------------------------
(* What the queue says the database holds *)

(* The items a job stands for: its buffer, or, until the committing handle
   has filled it, the handle's log. *)
Redo(j) == IF j.ready THEN j.redo ELSE log[j.handle]

(* The value a sequence of log items leaves in node n, given v before it. *)
Outcome(items, n, v) ==
  LET writes == {i \in DOMAIN items : items[i].node = n}
  IN  IF writes = {} THEN v
      ELSE items[CHOOSE i \in writes : \A k \in writes : k <= i].new

(* The database after the committed jobs among the first k, in queue order:
   what recovery rebuilds from a data file that ends there. *)
ReplayOf(k) ==
  LET store[i \in 0..k] ==
        IF i = 0 THEN [n \in Nodes |-> InitValue]
        ELSE IF queue[i].state # "committed" THEN store[i - 1]
        ELSE LET items == Redo(queue[i])
             IN  [n \in Nodes |-> Outcome(items, n, store[i - 1][n])]
  IN  store[k]

Committed == ReplayOf(Len(queue))

(* Jobs of committed transactions that wrote n. *)
WritersOf(n) ==
  {i \in DOMAIN queue : /\ queue[i].state = "committed"
                        /\ \E x \in DOMAIN Redo(queue[i]) :
                             Redo(queue[i])[x].node = n}

(* The value of n committed last among the versions not above t. *)
ValueAt(n, t) ==
  LET old == {i \in WritersOf(n) : queue[i].end <= t}
  IN  IF old = {} THEN InitValue
      ELSE LET i == CHOOSE i \in old : \A k \in old : queue[k].end <= queue[i].end
           IN  Outcome(Redo(queue[i]), n, InitValue)

(* Node n as it will be after the newest items of h's log are undone, down to
   the first p. *)
RolledBack(h, p, n) ==
  LET later == {i \in DOMAIN log[h] : i > p /\ log[h][i].node = n}
  IN  IF later = {} THEN mem[n]
      ELSE log[h][CHOOSE i \in later : \A k \in later : i <= k].old

(* The handle's transaction may still be undone. *)
Undoable(h) == pc[h] # "unlockCommit"

Locations == {"idle", "run", "check", "store", "copied", "storeCopied",
              "failed", "push", "validate", "undo", "undoNested",
              "unlockCommit", "unlockAbort", "unlockReadOnly"}

-----------------------------------------------------------------------------
(* Every variable holds a value of its type. *)
TypeOK ==
  /\ time \in Nat
  /\ lock \in [Nodes -> Nat \cup Handles]
  /\ mem \in [Nodes -> Values]
  /\ queue \in Seq(Job)
  /\ mutex \in Handles \cup {Free}
  /\ begun \in Nat
  /\ pc \in [Handles -> Locations]
  /\ start \in [Handles -> Nat]
  /\ readSet \in [Handles -> SUBSET Nodes]
  /\ acquired \in [Handles -> SUBSET Nodes]
  /\ log \in [Handles -> Seq(LogItem)]
  /\ nested \in [Handles -> Seq(Savepoint)]
  /\ commitType \in [Handles -> {"SYNC", "ASYNC"}]
  /\ access \in [Handles -> Access \cup {NoEntry}]
  /\ toCheck \in [Handles -> SUBSET Nodes]
  /\ endTime \in [Handles -> Nat]
  /\ want \in [Handles -> {"SYNC", "ASYNC", "FORCE_ASYNC"}]
  /\ job \in [Handles -> Nat]
  /\ seen \in [Handles -> SUBSET Read]
  /\ synced \in [Handles -> BOOLEAN]

(* A lock word names a handle exactly while the handle's acquired_locks lists
   the lock, so no lock is leaked, none is released twice and none has two
   owners; whatever a handle still has to undo lies under its own locks; and
   no free lock carries a version from the future. *)
LockDiscipline ==
  /\ \A h \in Handles, n \in Nodes : lock[n] = h <=> n \in acquired[h]
  /\ \A h \in Handles : Undoable(h) => WrittenBy(h) \subseteq acquired[h]
  /\ \A n \in Nodes : IsVersion(n) => lock[n] <= time

(* Memory under a free lock is the committed value: no dirty, half undone or
   half committed value is ever published by an unlock. *)
CleanMemory == \A n \in Nodes : IsVersion(n) => mem[n] = Committed[n]

(* At any moment of a transaction that is not yet committed, undoing its log
   would put the committed value back into everything it has locked, even when
   the old value was copied before the lock was taken (tr_node_write). *)
UndoRestores ==
  \A h \in Handles : Undoable(h) =>
    \A n \in acquired[h] : RolledBack(h, 0, n) = Committed[n]

(* Rolling back to a savepoint gives back what the enclosing transaction had
   written when the nested one began; a rollback of the main transaction makes
   the savepoints void. *)
SavepointIntact ==
  \A h \in Handles : pc[h] \notin {"undo", "unlockAbort"} =>
    \A k \in DOMAIN nested[h] :
      \A n \in DOMAIN nested[h][k].view :
        RolledBack(h, nested[h][k].pos, n) = nested[h][k].view[n]

(* Opacity: every value trRead has returned to a transaction, committed later
   or not, is the one committed last at its start time: all its reads are of
   one snapshot although the lock is checked once, after the load. *)
SnapshotReads ==
  \A h \in Handles : \A r \in seen[h] :
    r.checked => r.value = ValueAt(r.node, start[h])

(* Serialisability in the order of the clock: every committed transaction has
   read what the committed transactions with smaller end times had left, and
   so has a transaction whose unchecked reads only tr_validate ever looked at. *)
SerialClock ==
  \A i \in DOMAIN queue : queue[i].state = "committed" =>
    \A r \in queue[i].reads : r.value = ValueAt(r.node, queue[i].end - 1)

(* Reads of queue[i] that the committed jobs before it do not account for. *)
UnexplainedReads(i) ==
  LET before == ReplayOf(i - 1)
  IN  {r \in queue[i].reads : r.value # before[r.node]}

(* Serialisability in the order of the output queue: each prefix of the redo
   stream, all a crash may leave, is the result of a serial run, so that
   recovery from any prefix is consistent (text/kap1.tex:16-18,
   text/kap3.tex:18-22).  With FAST_COMMIT this is for values that were read
   with trRead: the end time is taken before the place in the queue, and an
   unchecked read may rest on a job that is queued later. *)
SerialQueue ==
  \A i \in DOMAIN queue : queue[i].state = "committed" =>
    \A r \in UnexplainedReads(i) : fastCommit /\ ~r.checked

(* Within a transaction H->commit_type tells whether a synchronous nested
   transaction has been committed and not been taken back since, at any depth:
   aborting a nested transaction forgets its own wishes and no others.  This
   is for callers who never use CT_FORCE_ASYNC. *)
WishKept ==
  \A h \in Handles : pc[h] = "run" =>
    (commitType[h] = "SYNC" <=>
       synced[h] \/ \E k \in DOMAIN nested[h] : nested[h][k].synced)

(* A job the service thread may write has the end of its transaction decided,
   and a job nobody will ever fill is ready, so the writer is not stuck on it. *)
ReadyIsDecided ==
  \A i \in DOMAIN queue :
    IF queue[i].ready THEN queue[i].state # "pending"
    ELSE \E h \in Handles : /\ job[h] = i
                            /\ pc[h] \in {"validate", "unlockCommit"}

(* A handle that has decided to commit or to abort becomes idle and gives its
   locks back, whatever the other handles do: nobody waits for a lock. *)
Ending(h) == pc[h] \in {"push", "validate", "undo", "unlockCommit",
                        "unlockAbort", "unlockReadOnly"}
EndingEnds ==
  \A h \in Handles : Ending(h) ~> (pc[h] = "idle" /\ acquired[h] = {})
-----------------------------------------------------------------------------
(* What the transactions promise: AtomicStore *)

(* Undoing is a private matter: the writes are gone when it begins. *)
Open(h) == pc[h] \notin {"undo", "unlockAbort", "unlockCommit", "unlockReadOnly"}

(* The effect of the first p items of h's log. *)
Buffer(h, p) ==
  [n \in {log[h][i].node : i \in 1..p} |->
     Outcome(SubSeq(log[h], 1, p), n, InitValue)]

(* The number of log items that count: those of a nested transaction that is
   being rolled back do not. *)
Kept(h) == IF ~Open(h) THEN 0
           ELSE IF pc[h] = "undoNested" THEN Top(nested[h]).pos
           ELSE Len(log[h])

CheckedOnly(reads) ==
  {[node |-> r.node, value |-> r.value] : r \in {r \in reads : r.checked}}

(* The savepoints that count. *)
Savepoints(h) == IF ~Open(h) THEN <<>>
                 ELSE IF pc[h] = "undoNested" THEN Front(nested[h])
                 ELSE nested[h]

(* The committed value of n as it can be told from memory and the logs: what
   is stored there, or what its owner would put back. *)
Stored(n) ==
  LET owners == {h \in Handles : n \in WrittenBy(h) /\ Undoable(h)}
  IN  IF owners = {} THEN mem[n]
      ELSE RolledBack(CHOOSE h \in owners : TRUE, 0, n)

Abstract == INSTANCE AtomicStore WITH
  store  <- [n \in Nodes |-> Stored(n)],
  writes <- [h \in Handles |-> Buffer(h, Kept(h))],
  reads  <- [h \in Handles |-> IF Open(h) THEN CheckedOnly(seen[h]) ELSE {}],
  saved  <- [h \in Handles |->
              [k \in DOMAIN Savepoints(h) |->
                 [writes |-> Buffer(h, Savepoints(h)[k].pos),
                  reads |-> CheckedOnly(Savepoints(h)[k].seen)]]]

(* In-place writes, undo log and versioned locks implement atomic transactions:
   a commit changes the committed values in one step, by exactly the writes of
   its transaction; an abort, a nested abort or a failed validation changes
   none; every value trRead returns is the committed one at that moment. *)
ImplementsAtomicStore == Abstract!Spec
=============================================================================
