--------------------------- MODULE CommitPipeline ---------------------------
(***************************************************************************)
(* The path of a committed transaction to the disk: the output queue, the  *)
(* semaphores around it and the service thread that empties it, together   *)
(* with the requests the database functions send through the same queue,   *)
(* the periodic flush, the destruction of handles and database_close.      *)
(*                                                                         *)
(* What a transaction does before its commit is the subject of HybridStm;  *)
(* here a commit starts with a decided or a still open validation, whose   *)
(* outcome is a choice.  What the records and the dumped nodes contain is  *)
(* the subject of DumpReplay.                                              *)
(***************************************************************************)
EXTENDS Integers, Sequences, FiniteSets

CONSTANTS
  Handles,     (* handles                                                   *)
  Admins,      (* threads that call the database_* functions                *)
  Builds,      (* bound: values of the compile-time switch FAST_COMMIT      *)
  MaxPending,  (* BD_MAX_PENDING_TRANSACTIONS_PER_HANDLER                   *)
  Requests,    (* bound: database functions the admins call                 *)
  MaxCommits,  (* bound: calls of tr_commit                                 *)
  MaxRequests, (* bound: calls of database functions                        *)
  MaxTimer,    (* bound: rounds of the periodic flush                       *)
  Batches      (* batches of nodes a dump takes                             *)

ASSUME ConstAssumption ==
  /\ Builds \subseteq BOOLEAN
  /\ MaxPending \in Nat \ {0}
  /\ Requests \subseteq {"START_DUMP", "CREATE_NEW_FILE", "COLLECT_GARBAGE",
                         "PAUSE", "WAIT_FOR_DUMP"}
  /\ {MaxCommits, MaxRequests, MaxTimer, Batches} \subseteq Nat

VARIABLES
  fastCommit, (* the build that runs: FAST_COMMIT or not                   *)
  queue,     (* all jobs ever linked, in list order                         *)
  counter,   (* D->counter                                                  *)
  mutex,     (* holder of D->mutex                                          *)
  sem,       (* the semaphores jobs point to                                *)
  dumpMutex, (* holder of D->dump_running                                   *)
  hpc,       (* where each handle is                                        *)
  mine,      (* index in queue of the job of the handle's current call      *)
  mode,      (* commit type of the handle's current call                    *)
  reaped,    (* tokens db_handle_destroy has collected                      *)
  registry,  (* D->handles                                                  *)
  apc,       (* where each admin is                                         *)
  answer,    (* what the service thread answered to its last request        *)
  tpc,       (* where the sync_thread is                                    *)
  closer,    (* how far database_close is                                   *)
  closeAt,   (* position of its loop over D->handles                        *)
  svc,       (* where the service thread is                                 *)
  cur,       (* index of the job it works on                                *)
  dumping,   (* its dump_running                                            *)
  left,      (* batches its dump still has to write                         *)
  dumpOf,    (* history: the admin whose dump is under way, or Free         *)
  stream,    (* jobs whose records are in the file or its write buffer      *)
  durable,   (* length of the prefix of stream that fsync has put on disk   *)
  file,      (* D->file_desc: "open", or "closed" after a failed open       *)
  alive,     (* FALSE once utilDie has aborted the program                  *)
  calls,     (* bounds: calls made so far                                   *)
  failures   (* history: commits of each handle that failed validation      *)

queueVars == <<queue, counter, mutex>>
handleVars == <<hpc, mine, mode, reaped, registry, failures>>
adminVars == <<apc, answer>>
closeVars == <<closer, closeAt>>
svcVars == <<fastCommit, svc, cur, dumping, left, dumpOf, stream, durable, file,
             alive>>
vars == <<queueVars, sem, dumpMutex, handleVars, adminVars, tpc, closeVars,
          svcVars, calls>>

Free == "free"
Service == "service"

ASSUME ActorAssumption ==
  /\ IsFiniteSet(Handles) /\ IsFiniteSet(Admins)
  /\ {Free, Service} \cap Admins = {}

Written(h) == <<"write_finished", h>>
Pending(h) == <<"pending_transactions", h>>
Signal(a)  == <<"signal", a>>
PauseSem   == <<"service_thread_pause", Service>>
NoSem      == <<"none", Service>>

Semaphores ==
  {Written(h) : h \in Handles} \cup {Pending(h) : h \in Handles}
    \cup {Signal(a) : a \in Admins} \cup {PauseSem}

Commits == {"COMMIT", "SYNC_COMMIT"}

Init ==
  /\ fastCommit \in Builds
  /\ queue = <<>> /\ counter = 0 /\ mutex = Free
  /\ sem = [s \in Semaphores |-> IF s[1] = "pending_transactions"
                                 THEN MaxPending ELSE 0]
  /\ dumpMutex = Free
  /\ hpc = [h \in Handles |-> "none"]
  /\ mine = [h \in Handles |-> 0]
  /\ mode = [h \in Handles |-> "ASYNC"]
  /\ reaped = [h \in Handles |-> 0]
  /\ registry = <<>>
  /\ apc = [a \in Admins |-> "idle"]
  /\ answer = [a \in Admins |-> "none"]
  /\ tpc = "off"
  /\ closer = "open" /\ closeAt = 0
  /\ svc = "sleep" /\ cur = 0 /\ dumping = FALSE /\ left = 0 /\ dumpOf = Free
  /\ stream = <<>> /\ durable = 0 /\ file = "open" /\ alive = TRUE
  /\ calls = [commits |-> 0, requests |-> 0, timer |-> 0]
  /\ failures = [h \in Handles |-> 0]

Post(s) == sem' = [sem EXCEPT ![s] = @ + 1]
Take(s) == sem[s] > 0 /\ sem' = [sem EXCEPT ![s] = @ - 1]

(* A job as its sender links it: full says that it will carry records. *)
JobWith(by, kind, lock, ready) ==
  [by |-> by, kind |-> kind, lock |-> lock, ready |-> ready, full |-> FALSE]

(* output_queue_push up to the unlock of D->mutex; the sender posts
   D->counter in a step of its own. *)
Link(j) == mutex = Free /\ queue' = Append(queue, j)

PostCounter == counter' = counter + 1

HGoto(h, from, to) == hpc[h] = from /\ hpc' = [hpc EXCEPT ![h] = to]
AGoto(a, from, to) == apc[a] = from /\ apc' = [apc EXCEPT ![a] = to]

-----------------------------------------------------------------------------
(* Handles *)

HandleInit(h) ==
  /\ closer = "open"
  /\ HGoto(h, "none", "idle")
  /\ registry' = Append(registry, h)
  /\ UNCHANGED <<queueVars, sem, dumpMutex, mine, mode, reaped, failures,
                 adminVars, tpc, closeVars, svcVars, calls>>

(* Nobody calls tr_commit once database_close has been called. *)
CountCommit == /\ closer = "open"
               /\ calls.commits < MaxCommits
               /\ calls' = [calls EXCEPT !.commits = @ + 1]

(* _tr_commit_main with a log: FAST_COMMIT enters the queue before it knows
   whether the read set holds. *)
CommitFast(h, m) ==
  /\ fastCommit
  /\ CountCommit
  /\ HGoto(h, "idle", "postFast")
  /\ Link(JobWith(h, IF m = "SYNC" THEN "SYNC_COMMIT" ELSE "COMMIT",
                  IF m = "SYNC" THEN Written(h) ELSE Pending(h), FALSE))
  /\ mine' = [mine EXCEPT ![h] = Len(queue) + 1]
  /\ mode' = [mode EXCEPT ![h] = m]
  /\ UNCHANGED <<counter, mutex, sem, dumpMutex, reaped, registry, failures,
                 adminVars, tpc, closeVars, svcVars>>

PostFast(h) ==
  /\ HGoto(h, "postFast", "validate")
  /\ PostCounter
  /\ UNCHANGED <<queue, mutex, sem, dumpMutex, mine, mode, reaped, registry,
                 failures, adminVars, tpc, closeVars, svcVars, calls>>

(* The slow path validates under D->mutex; a failure leaves no trace. *)
CommitLocked(h, m) ==
  /\ ~fastCommit
  /\ CountCommit
  /\ mutex = Free
  /\ mutex' = h
  /\ HGoto(h, "idle", "validate")
  /\ mode' = [mode EXCEPT ![h] = m]
  /\ UNCHANGED <<queue, counter, sem, dumpMutex, mine, reaped, registry,
                 failures, adminVars, tpc, closeVars, svcVars>>

(* tr_validate holds.  The slow path links its job and posts the counter
   before it leaves D->mutex. *)
Valid(h) ==
  /\ HGoto(h, "validate", "fill")
  /\ IF fastCommit
     THEN UNCHANGED <<queue, counter, mutex, mine>>
     ELSE /\ queue' = Append(queue,
                JobWith(h, IF mode[h] = "SYNC" THEN "SYNC_COMMIT" ELSE "COMMIT",
                        IF mode[h] = "SYNC" THEN Written(h) ELSE Pending(h),
                        FALSE))
          /\ mine' = [mine EXCEPT ![h] = Len(queue) + 1]
          /\ PostCounter
          /\ mutex' = Free
  /\ UNCHANGED <<sem, dumpMutex, mode, reaped, registry, failures, adminVars,
                 tpc, closeVars, svcVars, calls>>

(* tr_validate fails: with FAST_COMMIT the queued job is declared ready with
   an empty buffer; tr_commit returns false without waiting for anything. *)
Invalid(h) ==
  /\ HGoto(h, "validate", "idle")
  /\ IF fastCommit
     THEN /\ queue' = [queue EXCEPT ![mine[h]].ready = TRUE]
          /\ UNCHANGED mutex
     ELSE /\ mutex' = Free
          /\ UNCHANGED queue
  /\ failures' = [failures EXCEPT ![h] = @ + 1]
  /\ mine' = [mine EXCEPT ![h] = 0]
  /\ UNCHANGED <<counter, sem, dumpMutex, mode, reaped, registry, adminVars,
                 tpc, closeVars, svcVars, calls>>

(* process_transaction_log, then sem_post(&O->ready). *)
Fill(h) ==
  /\ HGoto(h, "fill", "wait")
  /\ queue' = [queue EXCEPT ![mine[h]].ready = TRUE, ![mine[h]].full = TRUE]
  /\ UNCHANGED <<counter, mutex, sem, dumpMutex, mine, mode, reaped, registry,
                 failures, adminVars, tpc, closeVars, svcVars, calls>>

(* A transaction that only read, with CT_SYNC: a flush is asked for. *)
CommitReadOnly(h) ==
  /\ CountCommit
  /\ HGoto(h, "idle", "postReadOnly")
  /\ Link(JobWith(h, "SYNC_ME", Written(h), TRUE))
  /\ mode' = [mode EXCEPT ![h] = "SYNC"]
  /\ UNCHANGED <<counter, mutex, sem, dumpMutex, mine, reaped, registry,
                 failures, adminVars, tpc, closeVars, svcVars>>

PostReadOnly(h) ==
  /\ HGoto(h, "postReadOnly", "wait")
  /\ PostCounter
  /\ UNCHANGED <<queue, mutex, sem, dumpMutex, mine, mode, reaped, registry,
                 failures, adminVars, tpc, closeVars, svcVars, calls>>

(* Mutant: an asynchronous commit does not wait for a place. *)
ReturnAtOnce(h) ==
  /\ HGoto(h, "wait", "idle")
  /\ IF mode[h] = "SYNC" THEN Take(Written(h)) ELSE UNCHANGED sem
  /\ mine' = [mine EXCEPT ![h] = 0]
  /\ mode' = [mode EXCEPT ![h] = "ASYNC"]
  /\ UNCHANGED <<queueVars, dumpMutex, reaped, registry, failures, adminVars,
                 tpc, closeVars, svcVars, calls>>

(* The last line of _tr_commit_main: a synchronous commit waits for the disk,
   an asynchronous one only for a free place among its pending jobs. *)
Return(h) ==
  /\ HGoto(h, "wait", "idle")
  /\ Take(IF mode[h] = "SYNC" THEN Written(h) ELSE Pending(h))
  /\ mine' = [mine EXCEPT ![h] = 0]
  /\ mode' = [mode EXCEPT ![h] = "ASYNC"]
  /\ UNCHANGED <<queueVars, dumpMutex, reaped, registry, failures, adminVars,
                 tpc, closeVars, svcVars, calls>>

(* D->handles without its entry at i: the top entry takes the place. *)
Without(i) ==
  SubSeq([registry EXCEPT ![i] = registry[Len(registry)]], 1, Len(registry) - 1)

(* db_handle_destroy: leave the registry ... *)
Unregister(h, to) ==
  /\ HGoto(h, "idle", to)
  /\ \E i \in DOMAIN registry : registry[i] = h /\ registry' = Without(i)
  /\ UNCHANGED <<queueVars, sem, dumpMutex, mine, mode, reaped, failures,
                 adminVars, tpc, svcVars, calls>>

HandleDestroy(h) ==
  /\ closer = "open"
  /\ Unregister(h, "reap")
  /\ UNCHANGED closeVars

(* ... and collect every token of pending_transactions. *)
Reap(h) ==
  /\ hpc[h] = "reap"
  /\ reaped[h] < MaxPending
  /\ Take(Pending(h))
  /\ reaped' = [reaped EXCEPT ![h] = @ + 1]
  /\ UNCHANGED <<queueVars, dumpMutex, hpc, mine, mode, registry, failures,
                 adminVars, tpc, closeVars, svcVars, calls>>

(* Mutant: the semaphores are destroyed without waiting for their jobs. *)
DestroyedEarly(h) ==
  /\ HGoto(h, "reap", "gone")
  /\ UNCHANGED <<queueVars, sem, dumpMutex, mine, mode, reaped, registry,
                 failures, adminVars, tpc, closeVars, svcVars, calls>>

(* Both semaphores are destroyed. *)
Destroyed(h) ==
  /\ reaped[h] = MaxPending
  /\ HGoto(h, "reap", "gone")
  /\ UNCHANGED <<queueVars, sem, dumpMutex, mine, mode, reaped, registry,
                 failures, adminVars, tpc, closeVars, svcVars, calls>>

-----------------------------------------------------------------------------
(* Requests *)

Asks(a, kind) ==
  /\ kind \in Requests
  /\ closer = "open"
  /\ apc[a] = "idle"
  /\ calls.requests < MaxRequests
  /\ calls' = [calls EXCEPT !.requests = @ + 1]

(* database_dump and database_create_new_file wait for the service thread's
   answer, database_collect_garbage does not, and who paused the service
   thread resumes it. *)
Request(a, kind) ==
  /\ Asks(a, kind)
  /\ kind # "WAIT_FOR_DUMP"
  /\ Link(JobWith(a, kind,
                  CASE kind = "PAUSE" -> PauseSem
                    [] kind = "COLLECT_GARBAGE" -> NoSem
                    [] OTHER -> Signal(a), TRUE))
  /\ apc' = [apc EXCEPT ![a] =
               CASE kind = "PAUSE" -> "postPause"
                 [] kind = "COLLECT_GARBAGE" -> "postOnly"
                 [] OTHER -> "post"]
  /\ answer' = [answer EXCEPT ![a] = "none"]
  /\ UNCHANGED <<counter, mutex, sem, dumpMutex, handleVars, tpc, closeVars,
                 svcVars>>

PostRequest(a) ==
  /\ \/ AGoto(a, "post", "answer")
     \/ AGoto(a, "postOnly", "idle")
     \/ AGoto(a, "postPause", "paused")
  /\ PostCounter
  /\ UNCHANGED <<queue, mutex, sem, dumpMutex, handleVars, answer, tpc,
                 closeVars, svcVars, calls>>

Answered(a) ==
  /\ AGoto(a, "answer", "idle")
  /\ Take(Signal(a))
  /\ UNCHANGED <<queueVars, dumpMutex, handleVars, answer, tpc, closeVars,
                 svcVars, calls>>

(* database_resume_service_thread *)
Resume(a) ==
  /\ AGoto(a, "paused", "idle")
  /\ Post(PauseSem)
  /\ UNCHANGED <<queueVars, dumpMutex, handleVars, answer, tpc, closeVars,
                 svcVars, calls>>

(* database_wait_for_dump: lock and unlock D->dump_running. *)
WaitForDump(a) ==
  /\ Asks(a, "WAIT_FOR_DUMP")
  /\ apc' = [apc EXCEPT ![a] = "waitDump"]
  /\ UNCHANGED <<queueVars, sem, dumpMutex, handleVars, answer, tpc, closeVars,
                 svcVars>>

EnterDumpMutex(a) ==
  /\ dumpMutex = Free
  /\ dumpMutex' = a
  /\ AGoto(a, "waitDump", "inDumpMutex")
  /\ UNCHANGED <<queueVars, sem, handleVars, answer, tpc, closeVars, svcVars,
                 calls>>

LeaveDumpMutex(a) ==
  /\ AGoto(a, "inDumpMutex", "idle")
  /\ dumpMutex' = Free
  /\ UNCHANGED <<queueVars, sem, handleVars, answer, tpc, closeVars, svcVars,
                 calls>>

-----------------------------------------------------------------------------
(* The timer thread *)

(* sync_thread sends a flush request nobody waits for, then sleeps.  A thread
   that runs goes on until database_close has it stopped. *)
TimerPush ==
  /\ \/ tpc = "off" /\ closer = "open"
     \/ tpc = "asleep" /\ closer \in {"open", "handles"}
  /\ calls.timer < MaxTimer
  /\ calls' = [calls EXCEPT !.timer = @ + 1]
  /\ Link(JobWith(Service, "SYNC_ME", NoSem, TRUE))
  /\ tpc' = "post"
  /\ UNCHANGED <<counter, mutex, sem, dumpMutex, handleVars, adminVars,
                 closeVars, svcVars>>

TimerPost ==
  /\ tpc = "post"
  /\ tpc' = "asleep"
  /\ PostCounter
  /\ UNCHANGED <<queue, mutex, sem, dumpMutex, handleVars, adminVars, closeVars,
                 svcVars, calls>>

(* database_set_sync_period with a shorter period or none: cancel and join the
   thread, which dies in its sleep only; a new one starts with TimerPush. *)
TimerCancel ==
  /\ closer = "open"
  /\ tpc = "asleep"
  /\ tpc' = "off"
  /\ UNCHANGED <<queueVars, sem, dumpMutex, handleVars, adminVars, closeVars,
                 svcVars, calls>>

-----------------------------------------------------------------------------
(* database_close *)

(* Its caller makes sure that no other thread uses the database. *)
Close ==
  /\ closer = "open"
  /\ \A h \in Handles : hpc[h] \in {"none", "idle", "gone"}
  /\ \A a \in Admins : apc[a] = "idle"
  /\ closer' = "handles"
  /\ closeAt' = 1
  /\ UNCHANGED <<queueVars, sem, dumpMutex, handleVars, adminVars, tpc, svcVars,
                 calls>>

(* The loop over D->handles: the handle at the cursor is destroyed, which puts
   another into its place, and the cursor moves on. *)
CloseHandle ==
  /\ closer = "handles"
  /\ closeAt <= Len(registry)
  /\ \A h \in Handles : hpc[h] # "reap"
  /\ Unregister(registry[closeAt], "reap")
  /\ closeAt' = closeAt + 1
  /\ UNCHANGED closer

(* database_set_sync_period(D, 0). *)
StopTimer ==
  /\ closer = "handles"
  /\ closeAt > Len(registry)
  /\ \A h \in Handles : hpc[h] # "reap"
  /\ tpc \in {"off", "asleep"}
  /\ tpc' = "off"
  /\ closer' = "post"
  /\ UNCHANGED <<queueVars, sem, dumpMutex, handleVars, adminVars, closeAt,
                 svcVars, calls>>

(* A token of D->counter without a job stops the service thread. *)
PostClose ==
  /\ closer = "post"
  /\ closer' = "join"
  /\ PostCounter
  /\ UNCHANGED <<queue, mutex, sem, dumpMutex, handleVars, adminVars, tpc,
                 closeAt, svcVars, calls>>

Join ==
  /\ closer = "join"
  /\ svc = "done"
  /\ file = "open"
  /\ closer' = "closed"
  /\ UNCHANGED <<queueVars, sem, dumpMutex, handleVars, adminVars, tpc, closeAt,
                 svcVars, calls>>

(* utilDie: abort() ends every thread where it is. *)
Die ==
  /\ alive' = FALSE
  /\ UNCHANGED <<queueVars, sem, dumpMutex, handleVars, adminVars, tpc, closeVars,
                 fastCommit, svc, cur, dumping, left, dumpOf, stream, durable,
                 file, calls>>

(* D->file_desc has been closed already; to close it again is fatal. *)
CloseDies ==
  /\ closer = "join"
  /\ svc = "done"
  /\ file = "closed"
  /\ Die

-----------------------------------------------------------------------------
(* The service thread *)

Job == queue[cur]

(* Mutant: the write buffer goes to the file, but nobody calls fsync. *)
SyncFlushOnly == UNCHANGED durable

(* Mutant: a write that fails is not fatal. *)
SyncUnchecked == durable' = IF file = "open" THEN Len(stream') ELSE durable

(* buffered_sync: the write buffer goes to the file, if it holds anything, and
   fsync makes the file durable.  Without an open file only an empty buffer
   gets past the write. *)
Sync ==
  /\ file = "open" \/ Len(stream') = durable
  /\ durable' = Len(stream')

SvcKeeps ==
  UNCHANGED <<fastCommit, queue, mutex, handleVars, apc, tpc, closeVars, calls,
              alive>>

SvcUnchanged == SvcKeeps /\ UNCHANGED file

(* sem_wait(D->counter) *)
SvcWake ==
  /\ svc = "sleep"
  /\ counter > 0
  /\ counter' = counter - 1
  /\ svc' = "next"
  /\ UNCHANGED <<cur, dumping, left, dumpOf, stream, durable, sem, dumpMutex,
                 answer>>
  /\ SvcUnchanged

(* job = job->next; a null pointer ends the loop. *)
SvcNext ==
  /\ svc = "next"
  /\ IF cur < Len(queue)
     THEN cur' = cur + 1 /\ svc' = "job"
     ELSE cur' = cur /\ svc' = "exit"
  /\ UNCHANGED <<counter, dumping, left, dumpOf, stream, durable, sem, dumpMutex,
                 answer>>
  /\ SvcUnchanged

(* Mutant: the buffer is taken as it is, ready or not. *)
SvcCommitEarly ==
  /\ svc = "job"
  /\ Job.kind \in Commits
  /\ stream' = IF Job.full THEN Append(stream, cur) ELSE stream
  /\ IF Job.kind = "SYNC_COMMIT" THEN Sync ELSE UNCHANGED durable
  /\ svc' = "post"
  /\ UNCHANGED <<counter, cur, dumping, left, dumpOf, sem, dumpMutex, answer>>
  /\ SvcUnchanged

(* Write the records of a commit once its buffer is ready, and flush if it is
   a synchronous one.  buffered_write may hand earlier bytes to the file; only
   fsync makes them durable. *)
SvcCommit ==
  /\ svc = "job"
  /\ Job.kind \in Commits
  /\ Job.ready
  /\ stream' = IF Job.full THEN Append(stream, cur) ELSE stream
  /\ IF Job.kind = "SYNC_COMMIT" THEN Sync ELSE UNCHANGED durable
  /\ svc' = "post"
  /\ UNCHANGED <<counter, cur, dumping, left, dumpOf, sem, dumpMutex, answer>>
  /\ SvcUnchanged

SvcSyncMe ==
  /\ svc = "job"
  /\ Job.kind = "SYNC_ME"
  /\ UNCHANGED stream
  /\ Sync
  /\ svc' = "post"
  /\ UNCHANGED <<counter, cur, dumping, left, dumpOf, sem, dumpMutex, answer>>
  /\ SvcUnchanged

(* The label resume: a running dump gets its turn before the next job. *)
AfterJob == IF dumping' THEN "dump" ELSE "sleep"

(* Tell whoever waits for the job. *)
SvcPost ==
  /\ svc = "post"
  /\ IF Job.lock = NoSem THEN UNCHANGED sem ELSE Post(Job.lock)
  /\ UNCHANGED dumping
  /\ svc' = AfterJob
  /\ UNCHANGED <<counter, cur, left, dumpOf, stream, durable, dumpMutex, answer>>
  /\ SvcUnchanged

(* The answer to a request for a new file.  _database_new_file closes the file
   that is open before it tries to open the next one, and leaves D->file_desc
   as it is when that fails.  A running dump keeps its file. *)
NewFile(ans) ==
  /\ file = "open"
  /\ IF dumping THEN ans = "DUMP_RUNNING"
                ELSE ans \in {"SUCCESS", "CANNOT_CREATE_NEW_FILE"}
  /\ file' = IF ans = "CANNOT_CREATE_NEW_FILE" THEN "closed" ELSE "open"

(* Mutant: the answer is posted, but not filled in. *)
SvcNewFileUnanswered(ans) ==
  /\ svc = "job"
  /\ Job.kind = "CREATE_NEW_FILE"
  /\ NewFile(ans)
  /\ UNCHANGED <<answer, stream>>
  /\ Sync
  /\ svc' = "post"
  /\ UNCHANGED <<counter, cur, dumping, left, dumpOf, sem, dumpMutex>>
  /\ SvcKeeps

(* CREATE_NEW_FILE: flush, then try; refused while a dump runs. *)
SvcNewFile(ans) ==
  /\ svc = "job"
  /\ Job.kind = "CREATE_NEW_FILE"
  /\ NewFile(ans)
  /\ answer' = [answer EXCEPT ![Job.by] = ans]
  /\ UNCHANGED stream
  /\ Sync
  /\ svc' = "post"
  /\ UNCHANGED <<counter, cur, dumping, left, dumpOf, sem, dumpMutex>>
  /\ SvcKeeps

(* START_DUMP: the same, and on success lock D->dump_running before the
   answer is posted. *)
SvcStartDump(ans) ==
  /\ svc = "job"
  /\ Job.kind = "START_DUMP"
  /\ NewFile(ans)
  /\ answer' = [answer EXCEPT ![Job.by] = ans]
  /\ UNCHANGED stream
  /\ Sync
  /\ IF ans = "SUCCESS" THEN svc' = "lockDump" /\ dumpOf' = Job.by
                        ELSE svc' = "post" /\ UNCHANGED dumpOf
  /\ UNCHANGED <<counter, cur, dumping, left, sem, dumpMutex>>
  /\ SvcKeeps

(* Mutant: D->dump_running is never locked. *)
SvcLockDumpNot ==
  /\ svc = "lockDump"
  /\ dumpMutex = Free
  /\ dumping' = TRUE
  /\ left' = Batches
  /\ svc' = "post"
  /\ UNCHANGED <<counter, cur, dumpOf, stream, durable, sem, dumpMutex, answer>>
  /\ SvcUnchanged

SvcLockDump ==
  /\ svc = "lockDump"
  /\ dumpMutex = Free
  /\ dumpMutex' = Service
  /\ dumping' = TRUE
  /\ left' = Batches
  /\ svc' = "post"
  /\ UNCHANGED <<counter, cur, dumpOf, stream, durable, sem, answer>>
  /\ SvcUnchanged

(* COLLECT_GARBAGE touches the allocators only. *)
SvcGarbage ==
  /\ svc = "job"
  /\ Job.kind = "COLLECT_GARBAGE"
  /\ UNCHANGED dumping
  /\ svc' = AfterJob
  /\ UNCHANGED <<counter, cur, left, dumpOf, stream, durable, sem, dumpMutex,
                 answer>>
  /\ SvcUnchanged

(* PAUSE: sleep on the pause semaphore. *)
SvcPause ==
  /\ svc = "job"
  /\ Job.kind = "PAUSE"
  /\ Take(PauseSem)
  /\ UNCHANGED dumping
  /\ svc' = AfterJob
  /\ UNCHANGED <<counter, cur, left, dumpOf, stream, durable, dumpMutex, answer>>
  /\ SvcUnchanged

(* do_dump: a batch of nodes, or the part of it that no transaction holds
   locked; then sem_trywait takes up the next job if there is one. *)
SvcDumpBatch(progress) ==
  /\ svc \in {"dump", "exit"}
  /\ dumping
  /\ left > 0
  /\ left' = left - progress
  /\ IF counter > 0
     THEN counter' = counter - 1 /\ svc' = IF svc = "dump" THEN "next" ELSE svc
     ELSE UNCHANGED <<counter, svc>>
  /\ UNCHANGED <<cur, dumping, dumpOf, stream, durable, sem, dumpMutex, answer>>
  /\ SvcUnchanged

(* Mutant: nobody notices that the dump is over. *)
SvcDumpEndForgets ==
  /\ svc \in {"dump", "exit"}
  /\ dumping
  /\ left <= 1
  /\ left' = 0
  /\ dumpOf' = Free
  /\ UNCHANGED stream
  /\ Sync
  /\ dumpMutex' = Free
  /\ UNCHANGED <<counter, cur, sem, answer, dumping, svc>>
  /\ SvcUnchanged

(* The last node is out, maybe with an incomplete batch: end mark, flush,
   unlock D->dump_running. *)
SvcDumpEnd ==
  /\ svc \in {"dump", "exit"}
  /\ dumping
  /\ left <= 1
  /\ left' = 0
  /\ dumpOf' = Free
  /\ UNCHANGED stream
  /\ Sync
  /\ dumpMutex' = Free
  /\ dumping' = FALSE
  /\ svc' = IF svc = "dump" THEN "sleep" ELSE svc
  /\ UNCHANGED <<counter, cur, sem, answer>>
  /\ SvcUnchanged

SvcExit ==
  /\ svc = "exit"
  /\ ~dumping
  /\ UNCHANGED stream
  /\ Sync
  /\ svc' = "done"
  /\ UNCHANGED <<counter, cur, dumping, left, dumpOf, sem, dumpMutex, answer>>
  /\ SvcUnchanged

(* Without an open file, whatever is in the write buffer was put there since
   the open failed. *)
Buffered == durable < Len(stream)

(* util_fd_write on the descriptor left over from a failed open: the records
   of a commit, which may overflow the buffer and have to be written for a
   synchronous one; a flush of what is buffered; the footer of the file. *)
SvcDies ==
  /\ file = "closed"
  /\ \/ /\ svc = "job"
        /\ \/ Job.kind \in Commits /\ Job.ready /\ Job.full
           \/ Job.kind = "SYNC_COMMIT" /\ Job.ready /\ Buffered
           \/ Job.kind = "SYNC_ME" /\ Buffered
           \/ Job.kind \in {"CREATE_NEW_FILE", "START_DUMP"}
     \/ svc = "exit" /\ Buffered
  /\ Die

-----------------------------------------------------------------------------
(* Calls the program is free to make. *)
CallStep ==
  /\ alive
  /\ \/ \E h \in Handles : \/ HandleInit(h)
                           \/ HandleDestroy(h)
                           \/ CommitReadOnly(h)
                           \/ \E m \in {"SYNC", "ASYNC"} :
                                CommitFast(h, m) \/ CommitLocked(h, m)
     \/ \E a \in Admins : WaitForDump(a) \/ \E kind \in Requests : Request(a, kind)
     \/ TimerPush \/ TimerCancel
     \/ Close

(* The rest of a call already made. *)
HandleStep(h) ==
  /\ alive
  /\ \/ PostFast(h)
     \/ Valid(h) \/ Invalid(h)
     \/ Fill(h)
     \/ PostReadOnly(h)
     \/ Return(h)
     \/ Reap(h)
     \/ Destroyed(h)

AdminStep(a) ==
  /\ alive
  /\ \/ PostRequest(a)
     \/ Answered(a)
     \/ Resume(a)
     \/ EnterDumpMutex(a) \/ LeaveDumpMutex(a)

TimerStep == alive /\ TimerPost

CloseStep ==
  /\ alive
  /\ CloseHandle \/ StopTimer \/ PostClose \/ Join \/ CloseDies

DumpProgress == alive /\ SvcDumpBatch(1)

ServiceStep ==
  /\ alive
  /\ \/ SvcWake \/ SvcNext
     \/ SvcCommit \/ SvcSyncMe \/ SvcPost
     \/ SvcGarbage \/ SvcPause
     \/ \E ans \in {"SUCCESS", "CANNOT_CREATE_NEW_FILE", "DUMP_RUNNING"} :
          SvcNewFile(ans) \/ SvcStartDump(ans)
     \/ SvcLockDump
     \/ SvcDumpBatch(0) \/ DumpProgress
     \/ SvcDumpEnd
     \/ SvcExit
     \/ SvcDies

Terminated == (closer = "closed" \/ ~alive) /\ UNCHANGED vars

Next ==
  \/ CallStep
  \/ \E h \in Handles : HandleStep(h)
  \/ \E a \in Admins : AdminStep(a)
  \/ TimerStep
  \/ CloseStep
  \/ ServiceStep
  \/ Terminated

Spec == Init /\ [][Next]_vars

(* Every call made goes on, also Resume: whoever pauses the service thread has
   to resume it (database.h:133).  A dump that keeps finding nodes locked gets
   one unlocked in the end, since transactions end (HybridStm!EndingEnds). *)
FairSpec ==
  /\ Spec
  /\ \A h \in Handles : WF_vars(HandleStep(h))
  /\ \A a \in Admins : WF_vars(AdminStep(a))
  /\ WF_vars(TimerStep) /\ WF_vars(CloseStep)
  /\ WF_vars(ServiceStep) /\ SF_vars(DumpProgress)

-----------------------------------------------------------------------------

(* The records of job i are on the disk. *)
OnDisk(i) == \E k \in 1..durable : stream[k] = i

(* The service thread has not posted the semaphore of job i yet. *)
Outstanding(i) == i > cur \/ (i = cur /\ svc \in {"job", "lockDump", "post"})

(* Handle h returns from tr_commit with CT_SYNC. *)
ReturnsSync(h) == hpc[h] = "wait" /\ hpc'[h] = "idle" /\ mode[h] = "SYNC"

(* The records of job i and of every commit queued before it are on disk. *)
DurableUpTo(i) == \A k \in 1..i : queue[k].full => OnDisk(k)

(* tr_commit(CT_SYNC) returns only when its transaction has been written to
   the disk (database.types/enums.h:172), and with it all it may depend on. *)
SyncReturnDurable ==
  [][\A h \in Handles : ReturnsSync(h) => DurableUpTo(mine[h])]_vars

(* No commit of h has failed after its job was queued.  The slow path validates
   first, and a failure there leaves no job behind. *)
Untroubled(h) == fastCommit => failures[h] = 0

(* The same for handles none of whose queued commits has failed. *)
SyncReturnDurableUnlessFailed ==
  [][\A h \in Handles :
       ReturnsSync(h) /\ Untroubled(h) => DurableUpTo(mine[h])]_vars

(* Commits of h that succeeded and that nobody has written yet. *)
Backlog(h) == {i \in DOMAIN queue : /\ Outstanding(i)
                                    /\ queue[i].lock = Pending(h)
                                    /\ queue[i].full}

(* Between two calls a handle has at most
   BD_MAX_PENDING_TRANSACTIONS_PER_HANDLER commits waiting to be written
   (database.types/enums.h:103-106). *)
PendingBound ==
  \A h \in Handles :
    hpc[h] = "idle" /\ Untroubled(h) => Cardinality(Backlog(h)) <= MaxPending

(* When db_handle_destroy has returned, no job is left that will post one of
   the semaphores it destroyed; for handles none of whose queued commits has
   failed. *)
NoPostToDestroyed ==
  \A h \in Handles : hpc[h] = "gone" /\ Untroubled(h) =>
    \A i \in DOMAIN queue :
      Outstanding(i) => queue[i].lock \notin {Written(h), Pending(h)}

(* database_close loses nothing: the service thread leaves its loop for no
   other reason than the token database_close posts, it has then taken up every
   job, and when it is done every commit is on the disk.  It is never done
   with records it could not write, for a program whose new file could not be
   opened dies of them before. *)
CloseLosesNothing ==
  /\ svc \in {"exit", "done"} => closer \in {"join", "closed"} /\ cur = Len(queue)
  /\ svc = "done" => DurableUpTo(Len(queue))

(* Records reach the file in the order of the queue, each at most once, and no
   commit the service thread has passed is missing. *)
StreamComplete ==
  /\ \A k \in 1..Len(stream) - 1 : stream[k] < stream[k + 1]
  /\ \A i \in DOMAIN queue :
       queue[i].full /\ ~Outstanding(i) => \E k \in DOMAIN stream : stream[k] = i

(* A caller that was told its dump has started, and then enters the mutex of
   database_wait_for_dump, finds its dump finished. *)
DumpAwaited ==
  \A a \in Admins :
    apc[a] = "inDumpMutex" /\ answer[a] = "SUCCESS" => dumpOf # a

(* A database_* call that waits gets its own answer, never one that was meant
   for an earlier call, and no semaphore on the stack of a caller that has
   returned is posted. *)
SignalsMatched ==
  \A a \in Admins :
    /\ sem[Signal(a)] + Cardinality({i \in DOMAIN queue :
         Outstanding(i) /\ queue[i].lock = Signal(a)})
         = IF apc[a] \in {"post", "answer"} THEN 1 ELSE 0
    /\ sem[Signal(a)] > 0 => answer[a] # "none"

(* database_close releases what belongs to the database (database.h:67), the
   handles that still exist among it (database.include/database.c:108-112). *)
CloseDestroysHandles ==
  closer = "closed" => \A h \in Handles : hpc[h] \in {"none", "gone"}

(* No call is under way, and no dump. *)
Quiet ==
  /\ \A h \in Handles : hpc[h] \in {"none", "idle", "gone"}
  /\ \A a \in Admins : apc[a] = "idle"
  /\ ~dumping
  /\ closer \in {"open", "closed"}

(* Every call returns: tr_commit whatever the validation says,
   db_handle_destroy, the database functions that wait for an answer, and
   database_close, also with a dump under way; and every dump ends.  Only a
   failed open can end the program before.  The bounds leave finitely many
   calls, so each of them returns if and only if none is under way in the
   end. *)
EveryCallReturns == <>[](Quiet \/ (file = "closed" /\ ~alive))

(* database_close closes the database and releases its resources
   (database.h:67): once called, it returns.  This does not hold: after a failed
   open CloseDies, or SvcDies before it. *)
CloseReturns == closer = "handles" ~> closer = "closed"
=============================================================================
