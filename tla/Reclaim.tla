------------------------------- MODULE Reclaim -------------------------------
(***************************************************************************)
(* When memory that transactions may still look at is given back: the      *)
(* generic allocator (allocators/generic_allocator.h), the clock it is     *)
(* driven by (get_time in database.include/threads.c) and the places that  *)
(* free transactional memory.  One attribute points to an object; a write  *)
(* replaces the object.  A committed transaction leaves the old object to  *)
(* the service thread; an aborted one frees the object it made.            *)
(***************************************************************************)
EXTENDS Integers, Sequences, FiniteSets

CONSTANTS
  Clients,   (* handles, each used by one thread                            *)
  Objects,   (* pieces of memory; finite, a bound of the model              *)
  MaxClock   (* bound on the clock                                          *)

Service  == "service"
NoClient == "nobody"
NoObject == "nothing"
Forever  == MaxClock + 1   (* ~0, when no transaction runs                  *)

VARIABLES
  now,         (* db->time, in transactions                                 *)
  started,     (* H->start_time, 0: not running                             *)
  at,          (* where a client is                                         *)
  readClock,   (* the clock a client read in tr_begin                       *)
  pointer,     (* the attribute                                             *)
  version,     (* of its lock                                               *)
  owner,       (* who holds the lock                                        *)
  loaded,      (* the pointer a client read and has not checked yet         *)
  held,        (* pointers that passed the check in this transaction        *)
  backup,      (* what the attribute was before the client wrote it         *)
  endOf,       (* end_time of a commit                                      *)
  garbage,     (* what commits left to the service thread                   *)
  memory,      (* objects that are allocated                                *)
  freeList,    (* A->free_list: <<object, time>>                            *)
  gcAt, gcLeft, gcTime, gcList   (* collection run by a client or the service *)

gcVars      == <<gcAt, gcLeft, gcTime, gcList>>
lockVars    == <<pointer, version, owner>>
reclaimVars == <<now, started, at, readClock, lockVars, loaded, held, backup,
                 endOf, garbage, memory, freeList, gcVars>>

Collectors == Clients \cup {Service}

ASSUME ReclaimAssumption ==
  /\ Clients \cap {Service, NoClient} = {}
  /\ MaxClock \in Nat \ {0}

ReclaimInit ==
  /\ now = 1
  /\ started = [c \in Clients |-> 0]
  /\ at = [c \in Clients |-> "out"]
  /\ readClock = [c \in Clients |-> 0]
  /\ pointer \in Objects
  /\ version = 1
  /\ owner = NoClient
  /\ loaded = [c \in Clients |-> NoObject]
  /\ held = [c \in Clients |-> {}]
  /\ backup = [c \in Clients |-> NoObject]
  /\ endOf = [c \in Clients |-> 0]
  /\ garbage = <<>>
  /\ memory = {pointer}
  /\ freeList = {}
  /\ gcAt = [p \in Collectors |-> "none"]
  /\ gcLeft = [p \in Collectors |-> {}]
  /\ gcTime = [p \in Collectors |-> 0]
  /\ gcList = [p \in Collectors |-> {}]

Walk(c, from, to) == at[c] = from /\ at' = [at EXCEPT ![c] = to]

(* tr_begin reads the clock and then publishes what it read. *)
BeginRead(c) ==
  /\ Walk(c, "out", "begin")
  /\ readClock' = [readClock EXCEPT ![c] = now]
  /\ UNCHANGED <<now, started, lockVars, loaded, held, backup, endOf, garbage,
                 memory, freeList, gcVars>>

BeginPublish(c) ==
  /\ Walk(c, "begin", "run")
  /\ started' = [started EXCEPT ![c] = readClock[c]]
  /\ readClock' = [readClock EXCEPT ![c] = 0]
  /\ UNCHANGED <<now, lockVars, loaded, held, backup, endOf, garbage,
                 memory, freeList, gcVars>>

(* A read copies the attribute and then looks at its lock. *)
ReadLoad(c) ==
  /\ Walk(c, "run", "check")
  /\ loaded' = [loaded EXCEPT ![c] = pointer]
  /\ UNCHANGED <<now, started, readClock, lockVars, held, backup, endOf, garbage,
                 memory, freeList, gcVars>>

MayUse(c) == owner = c \/ (owner = NoClient /\ version <= started[c])

(* Mutant: a newer version passes the check. *)
ReadAnyVersion(c) ==
  /\ at[c] = "check"
  /\ IF owner \in {c, NoClient}
     THEN /\ at' = [at EXCEPT ![c] = "run"]
          /\ held' = [held EXCEPT ![c] = @ \cup {loaded[c]}]
     ELSE at' = [at EXCEPT ![c] = "abort"] /\ UNCHANGED held
  /\ loaded' = [loaded EXCEPT ![c] = NoObject]
  /\ UNCHANGED <<now, started, readClock, lockVars, backup, endOf, garbage,
                 memory, freeList, gcVars>>

ReadCheck(c) ==
  /\ at[c] = "check"
  /\ IF MayUse(c)
     THEN /\ at' = [at EXCEPT ![c] = "run"]
          /\ held' = [held EXCEPT ![c] = @ \cup {loaded[c]}]
     ELSE at' = [at EXCEPT ![c] = "abort"] /\ UNCHANGED held
  /\ loaded' = [loaded EXCEPT ![c] = NoObject]
  /\ UNCHANGED <<now, started, readClock, lockVars, backup, endOf, garbage,
                 memory, freeList, gcVars>>

(* The first write of the transaction: lock, allocate, store. *)
WriteObject(c) ==
  /\ at[c] = "run"
  /\ owner = NoClient
  /\ version <= started[c]
  /\ owner' = c
  /\ backup' = [backup EXCEPT ![c] = pointer]
  /\ pointer' \in Objects \ memory
  /\ memory' = memory \cup {pointer'}
  /\ UNCHANGED <<now, started, at, readClock, version, loaded, held, endOf,
                 garbage, freeList, gcVars>>

(* The end: nothing to write, ... *)
EndReading(c) ==
  /\ Walk(c, "run", "cleanup")
  /\ owner # c
  /\ now < MaxClock
  /\ now' = now + 1
  /\ UNCHANGED <<started, readClock, lockVars, loaded, held, backup, endOf,
                 garbage, memory, freeList, gcVars>>

(* ... a commit (the writer is the only one who can change the attribute, so
   its validation succeeds): the clock, the lock, the list of garbage, ... *)
CommitTick(c) ==
  /\ Walk(c, "run", "unlock")
  /\ owner = c
  /\ now < MaxClock
  /\ now' = now + 1
  /\ endOf' = [endOf EXCEPT ![c] = now']
  /\ UNCHANGED <<started, readClock, lockVars, loaded, held, backup, garbage,
                 memory, freeList, gcVars>>

CommitUnlock(c) ==
  /\ Walk(c, "unlock", "hand over")
  /\ owner' = NoClient
  /\ version' = endOf[c]
  /\ UNCHANGED <<now, started, readClock, pointer, loaded, held, backup, endOf,
                 garbage, memory, freeList, gcVars>>

CommitHandOver(c) ==
  /\ Walk(c, "hand over", "cleanup")
  /\ garbage' = Append(garbage, <<backup[c], endOf[c]>>)
  /\ endOf' = [endOf EXCEPT ![c] = 0]
  /\ UNCHANGED <<now, started, readClock, lockVars, loaded, held, backup,
                 memory, freeList, gcVars>>

(* ... or an abort, by the caller or after a failed check or lock. *)
Abort(c) ==
  /\ Walk(c, "run", "abort")
  /\ UNCHANGED <<now, started, readClock, lockVars, loaded, held, backup, endOf,
                 garbage, memory, freeList, gcVars>>

(* A collection begins when more than gc_threshold items wait, here for any
   threshold. *)
StartCollection(p) ==
  /\ gcAt' = [gcAt EXCEPT ![p] = "scan"]
  /\ gcLeft' = [gcLeft EXCEPT ![p] = Clients]
  /\ gcTime' = [gcTime EXCEPT ![p] = Forever]
  /\ UNCHANGED gcList

MayCollect(p) == StartCollection(p) \/ UNCHANGED gcVars

(* _tr_handle_rollback: the attribute is restored, and the new object freed
   at the time the clock shows before it is advanced. *)
Rollback(c) ==
  /\ Walk(c, "abort", "tick")
  /\ IF owner = c
     THEN /\ pointer' = backup[c]
          /\ freeList' = freeList \cup {<<pointer, now>>}
          /\ MayCollect(c)
     ELSE UNCHANGED <<pointer, freeList, gcVars>>
  /\ UNCHANGED <<now, started, readClock, version, owner, loaded, held, backup,
                 endOf, garbage, memory>>

AbortUnlock(c) ==
  /\ Walk(c, "tick", "cleanup")
  /\ gcAt[c] = "none"
  /\ now < MaxClock
  /\ now' = now + 1
  /\ IF owner = c THEN owner' = NoClient /\ version' = now'
                  ELSE UNCHANGED <<owner, version>>
  /\ UNCHANGED <<started, readClock, pointer, loaded, held, backup, endOf,
                 garbage, memory, freeList, gcVars>>

(* handle_cleanup: from here on the client does not use what it read. *)
CleanUp(c) ==
  /\ Walk(c, "cleanup", "out")
  /\ started' = [started EXCEPT ![c] = 0]
  /\ held' = [held EXCEPT ![c] = {}]
  /\ backup' = [backup EXCEPT ![c] = NoObject]
  /\ UNCHANGED <<now, readClock, lockVars, loaded, endOf, garbage, memory, freeList, gcVars>>

(* The service thread frees the garbage of a commit. *)
ServiceFrees ==
  /\ gcAt[Service] = "none"
  /\ garbage # <<>>
  /\ freeList' = freeList \cup {Head(garbage)}
  /\ garbage' = Tail(garbage)
  /\ MayCollect(Service)
  /\ UNCHANGED <<now, started, at, readClock, lockVars, loaded, held, backup,
                 endOf, memory>>

(* A collection the service thread is asked for. *)
ServiceCollects ==
  /\ gcAt[Service] = "none"
  /\ StartCollection(Service)
  /\ UNCHANGED <<now, started, at, readClock, lockVars, loaded, held, backup,
                 endOf, garbage, memory, freeList>>

(* get_time looks at one handle after the other. *)
GcScan(p, c) ==
  /\ gcAt[p] = "scan"
  /\ c \in gcLeft[p]
  /\ gcLeft' = [gcLeft EXCEPT ![p] = @ \ {c}]
  /\ gcTime' = IF started[c] # 0 /\ started[c] < gcTime[p]
               THEN [gcTime EXCEPT ![p] = started[c]] ELSE gcTime
  /\ UNCHANGED <<now, started, at, readClock, lockVars, loaded, held, backup,
                 endOf, garbage, memory, freeList, gcAt, gcList>>

GcSwap(p) ==
  /\ gcAt[p] = "scan"
  /\ gcLeft[p] = {}
  /\ gcAt' = [gcAt EXCEPT ![p] = "sweep"]
  /\ gcList' = [gcList EXCEPT ![p] = freeList]
  /\ freeList' = {}
  /\ UNCHANGED <<now, started, at, readClock, lockVars, loaded, held, backup,
                 endOf, garbage, memory, gcLeft, gcTime>>

(* The items of the swapped list, which nobody else sees, are put back or
   released. *)
GcSweep(p) ==
  /\ gcAt[p] = "sweep"
  /\ gcAt' = [gcAt EXCEPT ![p] = "none"]
  /\ gcTime' = [gcTime EXCEPT ![p] = 0]
  /\ gcList' = [gcList EXCEPT ![p] = {}]
  /\ LET kept == {item \in gcList[p] : item[2] > gcTime[p]}
     IN /\ freeList' = freeList \cup kept
        /\ memory' = memory \ {item[1] : item \in gcList[p] \ kept}
  /\ UNCHANGED <<now, started, at, readClock, lockVars, loaded, held, backup,
                 endOf, garbage, gcLeft>>

ReclaimNext ==
  \/ \E c \in Clients :
       \/ BeginRead(c) \/ BeginPublish(c) \/ ReadLoad(c) \/ ReadCheck(c)
       \/ WriteObject(c) \/ EndReading(c) \/ CommitTick(c) \/ CommitUnlock(c)
       \/ CommitHandOver(c) \/ Abort(c) \/ Rollback(c) \/ AbortUnlock(c) \/ CleanUp(c)
  \/ ServiceFrees
  \/ ServiceCollects
  \/ \E p \in Collectors :
       \/ \E c \in Clients : GcScan(p, c)
       \/ GcSwap(p)
       \/ GcSweep(p)

ReclaimSpec == ReclaimInit /\ [][ReclaimNext]_reclaimVars

-----------------------------------------------------------------------------
(* A transaction never holds a pointer to memory that was given back: not
   when it published its start late, when the collection looked at the handles
   before it began, or when an aborting transaction runs the collection. *)
HeldIsLive ==
  \A c \in Clients : at[c] \in {"run", "check"} => held[c] \subseteq memory
=============================================================================
