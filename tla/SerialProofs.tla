---------------------------- MODULE SerialProofs ----------------------------
(***************************************************************************)
(* Committed transactions are serialisable, in the order of the clock and  *)
(* in the order of the output queue, and every transaction reads from one  *)
(* snapshot: for every set of handles, objects and values, every bound and *)
(* both commit paths.                                                      *)
(***************************************************************************)
EXTENDS HybridStmProofs

-----------------------------------------------------------------------------
(* The invariant *)

(* h's commit has its end time and can still fail. *)
Pending(h) == fastCommit /\ pc[h] \in {"push", "validate"}

(* h's commit has its place in the queue. *)
HasJob(h) == pc[h] = "unlockCommit" \/ (fastCommit /\ pc[h] = "validate")

JobOwned(h) ==
  HasJob(h) => /\ job[h] \in DOMAIN queue
               /\ queue[job[h]].handle = h
               /\ ~queue[job[h]].ready
               /\ queue[job[h]].end = endTime[h]
               /\ queue[job[h]].state = IF pc[h] = "validate" THEN "pending" ELSE "committed"

(* A job that is not ready is its handle's, and so is decided by it. *)
JobDecided(i) ==
  /\ queue[i].end <= time
  /\ IF queue[i].ready THEN queue[i].state # "pending"
     ELSE HasJob(queue[i].handle) /\ job[queue[i].handle] = i

(* End times are later than the start; without FAST_COMMIT whoever validates
   has D->mutex, and nobody commits meanwhile. *)
ClockFits(h) ==
  /\ EndTaken(h) => start[h] < endTime[h]
  /\ ~fastCommit => pc[h] # "push" /\ (pc[h] = "validate" => mutex = h)

(* The version of a lock is not below any committed writer of its object; whoever
   has the lock started after them and is behind them in the queue. *)
BelowLock(n) ==
  \A i \in WritersOf(n) :
    /\ IsVersion(n) => queue[i].end <= lock[n]
    /\ \A h \in Handles : lock[n] = h =>
         \/ pc[h] = "unlockCommit" /\ i = job[h]
         \/ queue[i].end <= start[h] /\ (HasJob(h) => i < job[h])

(* What memory holds, or the owner would put back, was committed last. *)
LastStored(n) == \A t \in Nat : t >= time => Stored(n) = ValueAt(n, t)

(* Writers of one object are in the queue as on the clock. *)
InOrder(n) == \A i, k \in WritersOf(n) : i < k => queue[i].end < queue[k].end

(* All reads of h, those its savepoints keep included. *)
AllReads(h) == seen[h] \cup UNION {nested[h][k].seen : k \in DOMAIN nested[h]}

(* A value trRead returned to h, started at t, was committed last at t; nobody
   will commit another with an end time up to t; and whoever did is before h in
   the queue. *)
RightAt(h, r, t) ==
  /\ r.value = ValueAt(r.node, t)
  /\ \A g \in Handles : Pending(g) /\ r.node \in WrittenBy(g) => t < endTime[g]
  /\ HasJob(h) => \A k \in WritersOf(r.node) : queue[k].end <= t => k < job[h]

ReadRight(h, r) == r.checked => \A t \in Nat : t = start[h] => RightAt(h, r, t)

(* A value read without a look at the lock is the stored one if h has the lock,
   and will be whenever tr_validate lets it through. *)
ReadUseful(h, r) ==
  ~r.checked /\ Open(h) => IF lock[r.node] = h THEN r.value = Stored(r.node)
                           ELSE Current(h, r.node, r.value)

ReadsListed(h) ==
  /\ pc[h] = "check" => access[h].node \in readSet[h]
  /\ \A r \in seen[h] : r.node \in readSet[h]
  /\ \A k \in DOMAIN nested[h] : \A r \in nested[h][k].seen : r.node \in nested[h][k].readSet

(* r is what a transaction reads that has place i in the queue and end time e:
   the committed writers before it, on the clock and in the queue, have left
   that value, and those to come will be behind it in both.  The unchecked
   reads of a FAST_COMMIT may rest on a job that is queued later. *)
Serial(r, i, e, others) ==
  /\ r.value = ValueAt(r.node, e - 1)
  /\ \A g \in others : Pending(g) /\ r.node \in WrittenBy(g) =>
       e < endTime[g] /\ (pc[g] = "validate" => i < job[g])
  /\ \A k \in WritersOf(r.node) : k < i => queue[k].end < e
  /\ r.checked \/ ~fastCommit => \A k \in WritersOf(r.node) : queue[k].end < e => k < i

(* What tr_validate has found to hold so far. *)
ReadsValid(h) ==
  pc[h] = "validate" =>
    \A r \in seen[h] : r.node \notin toCheck[h] =>
      IF fastCommit
      THEN \A i, e \in Nat : i = job[h] /\ e = endTime[h] => Serial(r, i, e, Handles \ {h})
      ELSE r.value = Stored(r.node)

ReadsSerial(i) ==
  queue[i].state = "committed" =>
    \A r \in queue[i].reads, e \in Nat : e = queue[i].end => Serial(r, i, e, Handles)

(* Every read is of some object, and an idle handle has none. *)
HandleInv(h) ==
  /\ JobOwned(h)
  /\ ClockFits(h)
  /\ pc[h] = "idle" => AllReads(h) = {}
  /\ ReadsListed(h)
  /\ \A r \in AllReads(h) : r \in Read /\ ReadRight(h, r) /\ ReadUseful(h, r)
  /\ ReadsValid(h)

SerialInv ==
  /\ AtomicityInv
  /\ \A h \in Handles : HandleInv(h)
  /\ \A i \in DOMAIN queue : JobDecided(i) /\ ReadsSerial(i)
  /\ \A n \in Nodes : BelowLock(n) /\ LastStored(n) /\ InOrder(n)

-----------------------------------------------------------------------------
(* Steps *)

Step(h) == UserStep(h) \/ CallStep(h) \/ AbortStep(h)

Begins(h) ==
  \/ Begin(h) \/ BeginNested(h)
  \/ \E ct \in CommitTypes : CommitNested(h, ct)

Accesses(h) ==
  \/ Check(h) \/ Store(h) \/ LockCopied(h) \/ StoreCopied(h)
  \/ \E n \in Nodes : Load(h, n) \/ UncheckedRead(h, n)
  \/ \E n \in Nodes, v \in Values : LockForWrite(h, n, v) \/ CopyOld(h, n, v)

Commits(h) ==
  \/ Push(h)
  \/ \E n \in Nodes : ValidateOne(h, n)
  \/ \E ct \in CommitTypes : CommitReadOnly(h, ct) \/ CommitFast(h, ct) \/ CommitLocked(h, ct)

Aborts(h) ==
  \/ HardAbort(h) \/ AbortNested(h) \/ Undo(h) \/ NestedUndone(h) \/ AbortTick(h)
  \/ \E n \in Nodes : ValidateFailed(h, n)

Ends(h) ==
  \/ FinishCommit(h) \/ FinishReadOnly(h) \/ FinishAbort(h)
  \/ \E n \in Nodes : Unlock(h, n)

(* The steps of a handle, by what they do. *)
LEMMA StepKinds ==
  ASSUME NEW h \in Handles, Step(h)
  PROVE  Begins(h) \/ Accesses(h) \/ Commits(h) \/ Validated(h) \/ Aborts(h) \/ Ends(h)
<1>1. ASSUME UserStep(h) PROVE Begins(h) \/ Accesses(h) \/ Commits(h)
  BY <1>1, Zenon DEF UserStep, Begins, Accesses, Commits
<1>2. ASSUME CallStep(h)
      PROVE  Accesses(h) \/ Commits(h) \/ Validated(h) \/ Aborts(h) \/ Ends(h)
  BY <1>2, Zenon DEF CallStep, Accesses, Commits, Aborts, Ends
<1>3. ASSUME AbortStep(h) PROVE Aborts(h)
  BY <1>3, Zenon DEF AbortStep, Aborts
<1> QED
  BY <1>1, <1>2, <1>3 DEF Step

(* A step of h leaves the others' private state alone. *)
Alone(h) ==
  \A k \in Handles \ {h} :
    /\ pc'[k] = pc[k] /\ start'[k] = start[k] /\ readSet'[k] = readSet[k]
    /\ log'[k] = log[k] /\ nested'[k] = nested[k] /\ toCheck'[k] = toCheck[k]
    /\ endTime'[k] = endTime[k] /\ job'[k] = job[k] /\ seen'[k] = seen[k]
    /\ access'[k] = access[k] /\ acquired'[k] = acquired[k]

(* util_lock moves the handle that called it only. *)
LEMMA UtilLockPc ==
  ASSUME TypeOK, NEW h \in Handles, NEW n, NEW next, UtilLock(h, n, next)
  PROVE  \A k \in Handles \ {h} : pc'[k] = pc[k] /\ acquired'[k] = acquired[k]
  BY DEF UtilLock, TypeOK

(* A step of h leaves what is private to the others alone. *)
LEMMA StepAlone ==
  ASSUME TypeOK, NEW h \in Handles, Step(h)
  PROVE  Alone(h)
<1>1. CASE Begins(h)
  BY <1>1 DEF Begins, Begin, BeginNested, CommitNested, Goto, shared, Alone, TypeOK
<1>2. CASE Accesses(h)
  <2>1. CASE \/ Check(h) \/ \E n \in Nodes : Load(h, n) \/ UncheckedRead(h, n)
    BY ZenonT(60), <2>1 DEF Check, Load, UncheckedRead, Goto, shared, Alone, TypeOK
  <2>2. CASE Store(h) \/ StoreCopied(h)
    BY <2>2 DEF Store, StoreCopied, StoreLogged, Goto, Alone, TypeOK
  <2>3. CASE \/ LockCopied(h)
             \/ \E n \in Nodes, v \in Values : LockForWrite(h, n, v) \/ CopyOld(h, n, v)
    BY SMTT(30), <2>3, UtilLockPc DEF LockCopied, LockForWrite, CopyOld, Goto, shared, Alone, TypeOK
  <2> QED
    BY <1>2, <2>1, <2>2, <2>3 DEF Accesses
<1>3. CASE Commits(h) \/ Validated(h)
  BY ZenonT(60), <1>3 DEF Commits, Validated, Push, ValidateOne, CommitReadOnly, CommitFast,
     CommitLocked, Tick, Goto, shared, Alone, TypeOK
<1>4. CASE Aborts(h)
  BY <1>4 DEF Aborts, HardAbort, AbortNested, Undo, UndoItem, NestedUndone, AbortTick,
     ValidateFailed, Tick, Goto, shared, Alone, TypeOK
<1>5. CASE Ends(h)
  BY <1>5 DEF Ends, FinishCommit, FinishReadOnly, FinishAbort, Unlock, Cleanup, Goto, shared,
     Alone, TypeOK
<1> QED
  BY <1>1, <1>2, <1>3, <1>4, <1>5, StepKinds

(* What is stored changes only when a transaction has been validated. *)
LEMMA StoreStays ==
  ASSUME AtomicityInv, NEW h \in Handles, Step(h), ~Validated(h)
  PROVE  StoreLooks
<1>1. ASSUME [n \in Nodes |-> Stored(n)]' = [n \in Nodes |-> Stored(n)] PROVE StoreLooks
  <2>1. ASSUME NEW n \in Nodes PROVE Stored(n)' = Stored(n)
    <3>1. [m \in Nodes |-> Stored(m)]'[n] = Stored(n)' /\ [m \in Nodes |-> Stored(m)][n] = Stored(n)
      OBVIOUS
    <3> QED
      BY <1>1, <3>1
  <2> QED
    BY <2>1 DEF StoreLooks
<1>2. Stutter => StoreLooks
  BY <1>1 DEF Stutter, Abstract!vars
<1>3. ASSUME NEW k \in Handles,
             \/ Abstract!Save(k) \/ Abstract!Keep(k) \/ Abstract!Revert(k) \/ Abstract!Abort(k)
             \/ \E n \in Nodes : Abstract!Read(k, n) \/ \E v \in Values : Abstract!Write(k, n, v)
      PROVE  StoreLooks
  BY <1>1, <1>3, Zenon
  DEF Abstract!Save, Abstract!Keep, Abstract!Revert, Abstract!Abort, Abstract!Read, Abstract!Write
<1>4. ASSUME NEW ct \in CommitTypes, CommitReadOnly(h, ct) PROVE StoreLooks
  <2>1. /\ UNCHANGED <<mem, log>> /\ pc[h] = "run" /\ pc'[h] = "unlockReadOnly"
        /\ \A k \in Handles \ {h} : pc'[k] = pc[k]
    BY <1>4 DEF CommitReadOnly, Goto, AtomicityInv, LockInv, TypeInv, TypeOK
  <2> QED
    BY <2>1, StoreQuiet DEF Undoable
<1>5. CASE Begins(h)
  BY <1>2, <1>3, <1>5, QuietStutters, BeginNestedMaps, CommitNestedMaps DEF Begins
<1>6. CASE Accesses(h)
  BY <1>2, <1>3, <1>6, QuietStutters, CheckMaps, StoreMaps DEF Accesses
<1>7. CASE Commits(h)
  BY <1>2, <1>4, <1>7, QuietStutters DEF Commits
<1>8. CASE Aborts(h)
  BY <1>2, <1>3, <1>8, MainAbortMaps, AbortNestedMaps, UndoStutters, NestedUndoneStutters,
     EndStutters
  DEF Aborts
<1>9. CASE Ends(h)
  BY <1>2, <1>9, EndStutters, FinishStutters DEF Ends
<1> QED
  BY <1>5, <1>6, <1>7, <1>8, <1>9, StepKinds

(* AtomicityInv is inductive. *)
LEMMA NextAtomicityStep ==
  ASSUME AtomicityInv, NEW h \in Handles, Step(h)
  PROVE  AtomicityInv'
  BY NextAtomicity DEF Step, Next

(* Every step keeps to the lock protocol and to the clock. *)
LEMMA StepOrderly ==
  ASSUME AtomicityInv, NEW h \in Handles, Step(h)
  PROVE  Orderly(h) /\ time <= time' /\ endTime'[h] \in Nat
<1>1. TypeOK /\ TypeOK' /\ LockInv
  BY NextAtomicityStep DEF AtomicityInv, LockInv, TypeInv
<1>2. endTime' = [endTime EXCEPT ![h] = endTime'[h]] /\ \A j \in Handles \ {h} : pc'[j] = pc[j]
  <2>1. Alone(h)
    BY <1>1, StepAlone
  <2> QED
    BY <1>1, <2>1 DEF Alone, TypeOK
<1>3. CASE Begins(h) \/ Commits(h) \/ Validated(h)
  <2>1. UNCHANGED <<fastCommit, lock, mem>>
    BY <1>3 DEF Begins, Begin, BeginNested, CommitNested, Commits, Push, ValidateOne,
       CommitReadOnly, CommitFast, CommitLocked, Validated, shared
  <2>2. /\ time <= time'
        /\ EndTaken(h)' => \/ EndTaken(h) /\ endTime'[h] = endTime[h]
                           \/ time < endTime'[h]
    <3>1. ASSUME Tick(h) PROVE time < time' /\ endTime'[h] = time'
      BY <1>1, <3>1 DEF Tick, TypeOK
    <3>2. CASE \/ Begins(h) \/ Push(h) \/ \E n \in Nodes : ValidateOne(h, n)
               \/ \E ct \in CommitTypes : CommitLocked(h, ct)
      <4>1. UNCHANGED <<time, endTime>>
        BY <3>2 DEF Begins, Begin, BeginNested, CommitNested, Push, ValidateOne, CommitLocked,
           shared
      <4>2. EndTaken(h)' => EndTaken(h)
        <5>1. CASE Begins(h) \/ \E ct \in CommitTypes : CommitLocked(h, ct)
          <6>1. pc'[h] = "run" \/ (~fastCommit /\ pc'[h] = "validate")
            BY <1>1, <5>1 DEF Begins, Begin, BeginNested, CommitNested, CommitLocked, Goto,
               shared, TypeOK
          <6> QED
            BY <2>1, <6>1 DEF EndTaken
        <5>2. CASE Push(h) \/ \E n \in Nodes : ValidateOne(h, n)
          <6>1. pc'[h] = "validate" /\ pc[h] \in {"push", "validate"}
            BY <1>1, <5>2 DEF Push, ValidateOne, Goto, shared, TypeOK
          <6> QED
            BY <2>1, <6>1 DEF EndTaken
        <5> QED
          BY <3>2, <5>1, <5>2
      <4> QED
        BY <1>1, <4>1, <4>2 DEF TypeOK
    <3>3. CASE \E ct \in CommitTypes : CommitReadOnly(h, ct) \/ CommitFast(h, ct)
      BY <1>1, <3>1, <3>3 DEF CommitReadOnly, CommitFast, TypeOK
    <3>4. CASE Validated(h)
      <4>1. pc[h] = "validate" /\ (Tick(h) \/ (fastCommit /\ UNCHANGED <<time, endTime>>))
        BY <3>4 DEF Validated, Goto
      <4> QED
        BY <1>1, <3>1, <4>1 DEF TypeOK, EndTaken
    <3> QED
      BY <1>3, <3>2, <3>3, <3>4 DEF Commits
  <2> QED
    BY <1>1, <1>2, <2>1, <2>2 DEF Orderly, TypeOK
<1>4. CASE Accesses(h)
  <2>1. UNCHANGED <<fastCommit, time, endTime>> /\ ~EndTaken(h)'
    <3>1. UNCHANGED <<fastCommit, time, endTime>>
      BY <1>4 DEF Accesses, Check, Store, LockCopied, StoreCopied, Load, UncheckedRead,
         LockForWrite, CopyOld, shared
    <3>2. ASSUME NEW n, NEW next \in {"store", "storeCopied"}, UtilLock(h, n, next)
          PROVE  pc'[h] \in {"store", "storeCopied", "failed"}
      BY <1>1, <3>2 DEF UtilLock, TypeOK
    <3>3. CASE \/ LockCopied(h) \/ \E n \in Nodes, v \in Values : LockForWrite(h, n, v)
      BY <3>2, <3>3 DEF LockCopied, LockForWrite, EndTaken
    <3>4. CASE \/ Check(h) \/ Store(h) \/ StoreCopied(h)
               \/ \E n \in Nodes : Load(h, n) \/ UncheckedRead(h, n)
               \/ \E n \in Nodes, v \in Values : CopyOld(h, n, v)
      BY ZenonT(60), <1>1, <3>4 DEF Check, Store, StoreCopied, Load, UncheckedRead, CopyOld, Goto, shared,
         EndTaken, TypeOK
    <3> QED
      BY <1>4, <3>1, <3>3, <3>4 DEF Accesses
  <2>2. \A n \in Nodes : lock'[n] = lock[n] \/ lock'[n] = h
    BY <1>1, <1>4 DEF Accesses, Check, Store, LockCopied, StoreCopied, Load, UncheckedRead,
       LockForWrite, CopyOld, UtilLock, Goto, shared, TypeOK
  <2>3. ASSUME NEW n \in Nodes, mem'[n] # mem[n] PROVE lock[n] = h /\ lock'[n] = h
    <3>1. Store(h) \/ StoreCopied(h)
      BY <1>4, <2>3 DEF Accesses, Check, LockCopied, Load, UncheckedRead, LockForWrite, CopyOld,
         shared
    <3>2. PICK item \in LogItem : /\ lock[item.node] = h /\ lock' = lock
                                 /\ mem' = [mem EXCEPT ![item.node] = item.new]
      BY <3>1, StoreItem
    <3> QED
      BY <1>1, <2>3, <3>2 DEF TypeOK
  <2> QED
    BY <1>1, <1>2, <2>1, <2>2, <2>3 DEF Orderly, TypeOK
<1>5. CASE Aborts(h)
  <2>1. UNCHANGED <<fastCommit, lock>> /\ time <= time'
    BY SMTT(30), <1>1, <1>5 DEF Aborts, HardAbort, AbortNested, Undo, NestedUndone, AbortTick,
       ValidateFailed, Tick, shared, TypeOK
  <2>2. EndTaken(h)' => time < endTime'[h]
    <3>1. CASE AbortTick(h)
      BY <1>1, <3>1 DEF AbortTick, Tick, TypeOK
    <3>2. CASE ~AbortTick(h)
      <4>1. pc'[h] \in {"undo", "undoNested", "run"}
        BY <1>1, <1>5, <3>2 DEF Aborts, HardAbort, AbortNested, Undo, NestedUndone,
           ValidateFailed, Goto, TypeOK
      <4> QED
        BY <4>1 DEF EndTaken
    <3> QED
      BY <3>1, <3>2
  <2>3. ASSUME NEW n \in Nodes, mem'[n] # mem[n] PROVE lock[n] = h /\ ~EndTaken(h)'
    <3>1. Undo(h)
      BY <1>5, <2>3 DEF Aborts, HardAbort, AbortNested, NestedUndone, AbortTick,
         ValidateFailed, shared
    <3>2. /\ lock[Top(log[h]).node] = h
          /\ mem' = [mem EXCEPT ![Top(log[h]).node] = Top(log[h]).old]
      BY <3>1, UndoneItem
    <3>3. lock[n] = h
      BY <1>1, <2>3, <3>2 DEF TypeOK
    <3> QED
      BY <3>1, <3>3 DEF Undo, EndTaken
  <2> QED
    BY <1>1, <1>2, <2>1, <2>2, <2>3 DEF Orderly, TypeOK
<1>6. CASE Ends(h)
  <2>1. UNCHANGED <<fastCommit, time, mem>>
    BY <1>6 DEF Ends, FinishCommit, FinishReadOnly, FinishAbort, Unlock, shared
  <2>2. EndTaken(h)' => EndTaken(h) /\ endTime'[h] = endTime[h]
    BY <1>1, <1>6 DEF Ends, FinishCommit, FinishReadOnly, FinishAbort, Unlock, Goto, EndTaken, TypeOK
  <2>3. ASSUME NEW n \in Nodes
        PROVE  lock'[n] = lock[n] \/ (lock[n] = h /\ EndTaken(h) /\ lock'[n] = endTime[h])
    <3>1. CASE FinishCommit(h) \/ FinishReadOnly(h) \/ FinishAbort(h)
      BY <3>1 DEF FinishCommit, FinishReadOnly, FinishAbort, shared
    <3>2. ASSUME NEW m \in Nodes, Unlock(h, m)
          PROVE  lock'[n] = lock[n] \/ (lock[n] = h /\ EndTaken(h) /\ lock'[n] = endTime[h])
      <4>1. /\ EndTaken(h)
            /\ lock' = [lock EXCEPT ![m] = IF lock[m] = h THEN endTime[h] ELSE lock[m]]
        BY <3>2 DEF Unlock, EndTaken
      <4> QED
        BY <1>1, <4>1 DEF TypeOK
    <3> QED
      BY <1>6, <3>1, <3>2 DEF Ends
  <2>4. Orderly(h)
    BY <1>2, <2>1, <2>2, <2>3 DEF Orderly
  <2> QED
    BY <1>1, <2>1, <2>4 DEF TypeOK
<1> QED
  BY <1>3, <1>4, <1>5, <1>6, StepKinds

-----------------------------------------------------------------------------
(* The committed writers of an object *)

RedoOf(i) == IF queue[i].ready THEN queue[i].redo ELSE log[queue[i].handle]
Left(i, n) == Outcome(RedoOf(i), n, InitValue)

(* i is the last writer of n with an end time up to t. *)
IsLast(i, n, t) ==
  /\ i \in WritersOf(n) /\ queue[i].end <= t
  /\ \A k \in WritersOf(n) : queue[k].end <= t /\ k # i => queue[k].end < queue[i].end

WritersAre ==
  \A n : WritersOf(n) = {i \in DOMAIN queue :
                           /\ queue[i].state = "committed"
                           /\ \E x \in DOMAIN RedoOf(i) : RedoOf(i)[x].node = n}

(* WritersOf in terms of RedoOf ... *)
LEMMA WritersFacts == WritersAre
  BY DEF WritersAre, WritersOf, Redo, RedoOf

(* ... and after a step. *)
LEMMA WritersFactsNext == WritersAre'
  BY WritersFacts, PTL

JobsTyped == /\ Len(queue) \in Nat /\ DOMAIN queue = 1..Len(queue)
             /\ \A i \in DOMAIN queue : queue[i] \in Job /\ queue[i].end \in Nat

(* What TypeOK says of the queue ... *)
LEMMA JobFacts == TypeOK => JobsTyped
<1> SUFFICES ASSUME TypeOK PROVE JobsTyped
  OBVIOUS
<1>1. queue \in Seq(Job)
  BY DEF TypeOK
<1>2. Len(queue) \in Nat /\ DOMAIN queue = 1..Len(queue)
  BY <1>1, LenProperties
<1>3. \A i \in DOMAIN queue : queue[i] \in Job
  BY <1>1, <1>2, ElementOfSeq
<1> QED
  BY <1>2, <1>3 DEF JobsTyped, Job

(* ... and after a step. *)
LEMMA JobFactsNext == TypeOK' => JobsTyped'
  BY JobFacts, PTL

(* What ValueAt is. *)
ValueIs ==
  JobsTyped => \A n, t :
    /\ (\A k \in WritersOf(n) : ~ (queue[k].end <= t)) => ValueAt(n, t) = InitValue
    /\ \A i : IsLast(i, n, t) => ValueAt(n, t) = Left(i, n)

(* ValueAt is the initial value or what the last writer left ... *)
LEMMA ValueFacts == ValueIs
<1> SUFFICES ASSUME JobsTyped, NEW n, NEW t
             PROVE  /\ (\A k \in WritersOf(n) : ~ (queue[k].end <= t)) => ValueAt(n, t) = InitValue
                    /\ \A i : IsLast(i, n, t) => ValueAt(n, t) = Left(i, n)
  BY DEF ValueIs
<1> DEFINE old == {i \in WritersOf(n) : queue[i].end <= t}
<1>1. ASSUME \A k \in WritersOf(n) : ~ (queue[k].end <= t) PROVE ValueAt(n, t) = InitValue
  <2>1. old = {}
    BY <1>1
  <2> QED
    BY <2>1 DEF ValueAt
<1>2. ASSUME NEW i, IsLast(i, n, t) PROVE ValueAt(n, t) = Left(i, n)
  <2>1. i \in old /\ old \subseteq DOMAIN queue /\ \A k \in old : k # i => queue[k].end < queue[i].end
    BY <1>2 DEF IsLast, WritersOf
  <2>2. \A k \in old : queue[k].end \in Nat
    BY <2>1 DEF JobsTyped
  <2>3. ASSUME NEW k \in old, \A l \in old : queue[l].end <= queue[k].end PROVE k = i
    BY <2>1, <2>2, <2>3
  <2>4. \A l \in old : queue[l].end <= queue[i].end
    BY <2>1, <2>2
  <2>5. (CHOOSE k \in old : \A l \in old : queue[l].end <= queue[k].end) = i
    <3> HIDE DEF old
    <3> QED
      BY <2>1, <2>3, <2>4
  <2>6. ValueAt(n, t) = Outcome(Redo(queue[i]), n, InitValue)
    BY <2>1, <2>5 DEF ValueAt
  <2> QED
    BY <2>6 DEF Left, RedoOf, Redo
<1> QED
  BY <1>1, <1>2

(* ... and after a step. *)
LEMMA ValueFactsNext == ValueIs'
  BY ValueFacts, PTL

(* There is a last writer if there is one at all. *)
LEMMA LastWriterExists ==
  ASSUME JobsTyped, NEW n, InOrder(n), NEW t, NEW k \in WritersOf(n), queue[k].end <= t
  PROVE  \E i : IsLast(i, n, t)
<1> DEFINE old == {i \in WritersOf(n) : queue[i].end <= t}
<1>1. old \subseteq 1..Len(queue) /\ old # {} /\ Len(queue) \in Nat
  BY DEF JobsTyped, WritersOf
<1>2. PICK i \in old : \A l \in old : l <= i
  BY <1>1, LastExists
<1>3. \A l \in old : l # i => l < i
  BY <1>1, <1>2
<1> QED
  BY <1>2, <1>3 DEF IsLast, InOrder

-----------------------------------------------------------------------------
(* What has been committed stays as it is *)

HistoryStays ==
  /\ JobsTyped /\ JobsTyped'
  /\ DOMAIN queue \subseteq DOMAIN queue'
  /\ \A i \in DOMAIN queue :
       /\ queue'[i].end = queue[i].end /\ queue'[i].reads = queue[i].reads
       /\ queue'[i].state = "committed" => queue[i].state = "committed"
       /\ queue[i].state = "committed" =>
            queue'[i].state = "committed" /\ RedoOf(i)' = RedoOf(i)
  /\ \A i \in DOMAIN queue' : i \notin DOMAIN queue => queue'[i].state # "committed"

(* As long as nothing is committed, the writers and what they left stay. *)
LEMMA WritersStay ==
  ASSUME HistoryStays, NEW n
  PROVE  /\ WritersOf(n)' = WritersOf(n)
         /\ \A i \in WritersOf(n) : /\ i \in DOMAIN queue /\ queue'[i].end = queue[i].end
                                    /\ Left(i, n)' = Left(i, n)
<1>1. \A i : i \in WritersOf(n) <=> /\ i \in DOMAIN queue /\ queue[i].state = "committed"
                                     /\ \E x \in DOMAIN RedoOf(i) : RedoOf(i)[x].node = n
  BY WritersFacts DEF WritersAre
<1>2. \A i : i \in WritersOf(n)' <=> /\ i \in DOMAIN queue' /\ queue'[i].state = "committed"
                                      /\ \E x \in DOMAIN RedoOf(i)' : RedoOf(i)'[x].node = n
  BY WritersFactsNext DEF WritersAre
<1>3. \A i : i \in WritersOf(n)' <=> i \in WritersOf(n)
  BY <1>1, <1>2 DEF HistoryStays
<1> QED
  BY <1>1, <1>3 DEF HistoryStays, Left

(* And so do all values of the past. *)
LEMMA ValuesStay ==
  ASSUME HistoryStays, NEW n, InOrder(n), NEW t
  PROVE  ValueAt(n, t)' = ValueAt(n, t)
<1>1. /\ WritersOf(n)' = WritersOf(n)
      /\ \A i \in WritersOf(n) : queue'[i].end = queue[i].end /\ Left(i, n)' = Left(i, n)
  BY WritersStay
<1>2. CASE \A k \in WritersOf(n) : ~ (queue[k].end <= t)
  <2>1. ValueAt(n, t) = InitValue
    BY <1>2, ValueFacts DEF ValueIs, HistoryStays
  <2>2. \A k \in WritersOf(n)' : ~ (queue'[k].end <= t)
    BY <1>1, <1>2
  <2>3. ValueAt(n, t)' = InitValue
    BY <2>2, ValueFactsNext DEF ValueIs, HistoryStays
  <2> QED
    BY <2>1, <2>3
<1>3. ASSUME NEW k \in WritersOf(n), queue[k].end <= t PROVE ValueAt(n, t)' = ValueAt(n, t)
  <2>1. PICK i : IsLast(i, n, t)
    BY <1>3, LastWriterExists DEF HistoryStays
  <2>2. IsLast(i, n, t)'
    BY <1>1, <2>1 DEF IsLast
  <2>3. ValueAt(n, t) = Left(i, n)
    BY <2>1, ValueFacts DEF ValueIs, HistoryStays
  <2>4. ValueAt(n, t)' = Left(i, n)'
    BY <2>2, ValueFactsNext DEF ValueIs, HistoryStays
  <2> QED
    BY <1>1, <2>1, <2>3, <2>4 DEF IsLast
<1> QED
  BY <1>2, <1>3

-----------------------------------------------------------------------------
(* Jobs *)

JobsInv ==
  /\ \A h \in Handles : JobOwned(h)
  /\ \A i \in DOMAIN queue : JobDecided(i)

(* The last job is j, the others are what they were. *)
Links(j) == /\ Len(queue') = Len(queue) + 1
            /\ DOMAIN queue' = 1..Len(queue) + 1
            /\ \A i \in DOMAIN queue : queue'[i] = queue[i]
            /\ queue'[Len(queue) + 1] = j

(* Job i is j, the others are what they were. *)
Sets(i, j) == /\ Len(queue') = Len(queue)
              /\ DOMAIN queue' = DOMAIN queue
              /\ \A k \in DOMAIN queue : k # i => queue'[k] = queue[k]
              /\ i \in DOMAIN queue => queue'[i] = j

(* A queue with one job more. *)
LEMMA LinkFacts ==
  ASSUME TypeOK, TypeOK', NEW j, queue' = Append(queue, j)
  PROVE  Links(j)
<1>1. queue \in Seq(Job) /\ Len(queue) \in Nat /\ DOMAIN queue = 1..Len(queue)
  BY LenProperties DEF TypeOK
<1>2. DOMAIN queue' = 1..Len(queue')
  BY LenProperties DEF TypeOK
<1>3. /\ Len(queue') = Len(queue) + 1
      /\ \A i \in 1..Len(queue) : queue'[i] = queue[i]
      /\ queue'[Len(queue) + 1] = j
  BY <1>1
<1> QED
  BY <1>1, <1>2, <1>3 DEF Links

(* A queue with one job changed. *)
LEMMA SetFacts ==
  ASSUME TypeOK, TypeOK', NEW i, NEW j, queue' = [queue EXCEPT ![i] = j]
  PROVE  Sets(i, j)
<1>1. DOMAIN queue = 1..Len(queue) /\ DOMAIN queue' = 1..Len(queue')
      /\ Len(queue) \in Nat /\ Len(queue') \in Nat
  BY LenProperties DEF TypeOK
<1>2. DOMAIN queue' = DOMAIN queue
  OBVIOUS
<1>3. Len(queue') = Len(queue)
  BY <1>1, <1>2
<1> QED
  BY <1>2, <1>3 DEF Sets

(* Whose job is not ready. *)
LEMMA UnreadyJob ==
  ASSUME TypeOK, JobsInv, NEW i \in DOMAIN queue, ~queue[i].ready
  PROVE  \E k \in Handles : /\ queue[i].handle = k /\ HasJob(k) /\ job[k] = i
                            /\ queue[i].state = "committed" => pc[k] = "unlockCommit"
<1>1. queue[i] \in Job
  BY JobFacts DEF JobsTyped
<1>2. queue[i].handle \in Handles
  BY <1>1 DEF Job
<1>3. HasJob(queue[i].handle) /\ job[queue[i].handle] = i
  BY DEF JobsInv, JobDecided
<1>4. JobOwned(queue[i].handle)
  BY <1>2 DEF JobsInv
<1> QED
  BY <1>2, <1>3, <1>4 DEF JobOwned, HasJob

(* A step that leaves the queue alone. *)
LEMMA QuietJobs ==
  ASSUME TypeOK, TypeOK', JobsInv, NEW h \in Handles, Alone(h),
         UNCHANGED <<fastCommit, queue>>, time <= time',
         HasJob(h)' <=> HasJob(h),
         HasJob(h) => UNCHANGED <<pc, job, endTime, log>>
  PROVE  JobsInv' /\ HistoryStays
<1>1. JobsTyped /\ JobsTyped' /\ time \in Nat /\ time' \in Nat
  BY JobFacts, JobFactsNext DEF TypeOK
<1>2. ASSUME NEW k \in Handles
      PROVE  /\ HasJob(k)' <=> HasJob(k)
             /\ HasJob(k) => /\ job'[k] = job[k] /\ endTime'[k] = endTime[k] /\ log'[k] = log[k]
                             /\ pc'[k] = pc[k]
  BY DEF Alone, HasJob
<1>3. \A k \in Handles : JobOwned(k)'
  BY <1>2 DEF JobsInv, JobOwned
<1>4. ASSUME NEW i \in DOMAIN queue
      PROVE  JobDecided(i)' /\ (queue[i].state = "committed" => RedoOf(i)' = RedoOf(i))
  <2>1. queue[i].end <= time'
    BY <1>1, <1>4 DEF JobsInv, JobDecided, JobsTyped
  <2>2. CASE queue[i].ready
    BY <1>4, <2>1, <2>2 DEF JobsInv, JobDecided, RedoOf
  <2>3. CASE ~queue[i].ready
    <3>1. PICK k \in Handles : queue[i].handle = k /\ HasJob(k) /\ job[k] = i
      BY <1>4, <2>3, UnreadyJob
    <3> QED
      BY <1>2, <2>1, <2>3, <3>1 DEF JobDecided, RedoOf
  <2> QED
    BY <2>2, <2>3
<1>5. JobsInv'
  BY <1>3, <1>4 DEF JobsInv
<1> QED
  BY <1>1, <1>4, <1>5 DEF HistoryStays

(* A step that links a job, ready and of no transaction, or h's own. *)
LEMMA LinkJobs ==
  ASSUME TypeOK, TypeOK', JobsInv, NEW h \in Handles, Alone(h), fastCommit' = fastCommit,
         time <= time', log' = log, NEW j, Links(j), j.end <= time', ~HasJob(h),
         \/ /\ j.ready /\ j.state = "none" /\ ~HasJob(h)'
         \/ /\ ~j.ready /\ HasJob(h)' /\ j.handle = h /\ job'[h] = Len(queue) + 1
            /\ j.end = endTime'[h]
            /\ j.state = IF pc'[h] = "validate" THEN "pending" ELSE "committed"
  PROVE  /\ JobsInv'
         /\ j.state # "committed" => HistoryStays
<1>1. JobsTyped /\ JobsTyped' /\ time \in Nat /\ time' \in Nat
  BY JobFacts, JobFactsNext DEF TypeOK
<1>2. ASSUME NEW k \in Handles \ {h}
      PROVE  /\ HasJob(k)' <=> HasJob(k)
             /\ job'[k] = job[k] /\ endTime'[k] = endTime[k] /\ pc'[k] = pc[k]
  BY DEF Alone, HasJob
<1>3. DOMAIN queue \subseteq DOMAIN queue' /\ DOMAIN queue' = DOMAIN queue \cup {Len(queue) + 1}
  BY <1>1 DEF Links, JobsTyped
<1>4. ASSUME NEW k \in Handles \ {h} PROVE JobOwned(k)'
  BY <1>2, <1>3 DEF JobsInv, JobOwned, Links
<1>5. JobOwned(h)'
  BY <1>3 DEF JobOwned, Links
<1>6. ASSUME NEW i \in DOMAIN queue
      PROVE  JobDecided(i)' /\ (queue[i].state = "committed" => RedoOf(i)' = RedoOf(i))
  <2>1. queue'[i] = queue[i] /\ queue[i].end <= time'
    BY <1>1, <1>6 DEF JobsInv, JobDecided, JobsTyped, Links
  <2>2. CASE queue[i].ready
    BY <1>6, <2>1, <2>2 DEF JobsInv, JobDecided, RedoOf
  <2>3. CASE ~queue[i].ready
    <3>1. PICK k \in Handles : queue[i].handle = k /\ HasJob(k) /\ job[k] = i
      BY <1>6, <2>3, UnreadyJob
    <3>2. k # h
      BY <3>1
    <3> QED
      BY <1>2, <2>1, <2>3, <3>1, <3>2 DEF JobDecided, RedoOf
  <2> QED
    BY <2>2, <2>3
<1>7. ASSUME NEW i, i = Len(queue) + 1 PROVE JobDecided(i)'
  BY <1>7 DEF JobDecided, Links
<1>8. JobsInv'
  BY <1>3, <1>4, <1>5, <1>6, <1>7 DEF JobsInv
<1>9. ASSUME j.state # "committed" PROVE HistoryStays
  BY <1>1, <1>3, <1>6, <1>9 DEF HistoryStays, Links
<1> QED
  BY <1>8, <1>9

(* A step that sets fields of h's own job. *)
LEMMA SetJobs ==
  ASSUME TypeOK, TypeOK', JobsInv, NEW h \in Handles, Alone(h), fastCommit' = fastCommit,
         time <= time', HasJob(h), NEW j, Sets(job[h], j),
         j.handle = h, j.end = queue[job[h]].end,
         \/ /\ j.ready /\ ~HasJob(h)' /\ j.state \in {"failed", "committed"}
         \/ /\ ~j.ready /\ HasJob(h)' /\ job'[h] = job[h] /\ endTime'[h] = endTime[h]
            /\ pc'[h] = "unlockCommit" /\ j.state = "committed"
  PROVE  JobsInv'
<1> PICK own : own = job[h]
  OBVIOUS
<1>1. JobsTyped /\ JobsTyped' /\ time \in Nat /\ time' \in Nat
  BY JobFacts, JobFactsNext DEF TypeOK
<1>2. /\ own \in DOMAIN queue /\ queue[own].handle = h /\ ~queue[own].ready
      /\ queue[own].end = endTime[h]
  BY DEF JobsInv, JobOwned
<1>3. ASSUME NEW k \in Handles \ {h}
      PROVE  /\ HasJob(k)' <=> HasJob(k)
             /\ job'[k] = job[k] /\ endTime'[k] = endTime[k] /\ pc'[k] = pc[k]
  BY DEF Alone, HasJob
<1>4. ASSUME NEW k \in Handles \ {h}, HasJob(k) PROVE job[k] # own
  BY <1>2, <1>4 DEF JobsInv, JobOwned
<1>5. ASSUME NEW k \in Handles \ {h} PROVE JobOwned(k)'
  BY <1>3, <1>4 DEF JobsInv, JobOwned, Sets
<1>6. JobOwned(h)'
  BY <1>2 DEF JobOwned, Sets, HasJob
<1>7. ASSUME NEW i \in DOMAIN queue, i # own PROVE JobDecided(i)'
  <2>1. queue'[i] = queue[i] /\ queue[i].end <= time'
    BY <1>1, <1>7 DEF JobsInv, JobDecided, JobsTyped, Sets
  <2>2. CASE queue[i].ready
    BY <1>7, <2>1, <2>2 DEF JobsInv, JobDecided
  <2>3. CASE ~queue[i].ready
    <3>1. PICK k \in Handles : queue[i].handle = k /\ HasJob(k) /\ job[k] = i
      BY <1>7, <2>3, UnreadyJob
    <3>2. k # h
      BY <1>7, <3>1
    <3> QED
      BY <1>3, <2>1, <2>3, <3>1, <3>2 DEF JobDecided
  <2> QED
    BY <2>2, <2>3
<1>8. JobDecided(own)'
  <2>1. j.end <= time'
    BY <1>1, <1>2 DEF JobsInv, JobDecided, JobsTyped
  <2> QED
    BY <1>2, <2>1 DEF JobDecided, Sets
<1> QED
  BY <1>5, <1>6, <1>7, <1>8 DEF JobsInv, Sets

(* A step that neither links a job nor changes one. *)
Quiet(h) ==
  /\ queue' = queue
  /\ HasJob(h)' <=> HasJob(h)
  /\ HasJob(h) => UNCHANGED <<pc, job, endTime, log>>

LinkStep(h) == Push(h) \/ (FinishReadOnly(h) /\ want[h] = "SYNC")

SetStep(h) == FinishCommit(h) \/ (fastCommit /\ \E n \in Nodes : ValidateFailed(h, n))

(* Where util_lock leads. *)
LEMMA UtilLockQuiet ==
  ASSUME TypeOK, NEW h \in Handles, NEW n, NEW next \in {"store", "storeCopied"},
         UtilLock(h, n, next)
  PROVE  pc'[h] \in {"store", "storeCopied", "failed"}
  BY DEF UtilLock, TypeOK

(* A step commits, links a job, decides one, or leaves the queue alone. *)
LEMMA QueueKinds ==
  ASSUME TypeOK, NEW h \in Handles, Step(h)
  PROVE  Validated(h) \/ LinkStep(h) \/ SetStep(h) \/ Quiet(h)
<1>1. CASE Begins(h)
  BY <1>1 DEF Begins, Begin, BeginNested, CommitNested, Goto, shared, Quiet, HasJob, TypeOK
<1>2. CASE Accesses(h)
  <2>1. CASE \/ Check(h) \/ Store(h) \/ StoreCopied(h)
             \/ \E n \in Nodes : Load(h, n) \/ UncheckedRead(h, n)
             \/ \E n \in Nodes, v \in Values : CopyOld(h, n, v)
    BY <2>1 DEF Check, Store, StoreCopied, Load, UncheckedRead, CopyOld, Goto, shared, Quiet,
       HasJob, TypeOK
  <2>2. CASE LockCopied(h) \/ \E n \in Nodes, v \in Values : LockForWrite(h, n, v)
    <3>1. pc'[h] \in {"store", "storeCopied", "failed"} /\ pc[h] \in {"run", "copied"}
      BY <2>2, UtilLockQuiet DEF LockCopied, LockForWrite
    <3>2. UNCHANGED queue
      BY <2>2 DEF LockCopied, LockForWrite
    <3> QED
      BY <3>1, <3>2 DEF Quiet, HasJob
  <2> QED
    BY <1>2, <2>1, <2>2 DEF Accesses
<1>3. CASE Commits(h)
  <2>1. ASSUME NEW n \in Nodes, ValidateOne(h, n) PROVE Quiet(h)
    BY <2>1 DEF ValidateOne, shared, Quiet, HasJob
  <2>2. CASE \E ct \in CommitTypes : CommitReadOnly(h, ct) \/ CommitFast(h, ct) \/ CommitLocked(h, ct)
    BY <2>2 DEF CommitReadOnly, CommitFast, CommitLocked, Goto, Quiet, HasJob, TypeOK
  <2> QED
    BY <1>3, <2>1, <2>2 DEF Commits, LinkStep
<1>4. CASE Aborts(h)
  <2>1. ASSUME NEW n \in Nodes, ValidateFailed(h, n), ~fastCommit PROVE Quiet(h)
    BY <2>1 DEF ValidateFailed, Goto, Quiet, HasJob, TypeOK
  <2>2. CASE HardAbort(h) \/ AbortNested(h) \/ Undo(h) \/ NestedUndone(h) \/ AbortTick(h)
    BY <2>2 DEF HardAbort, AbortNested, Undo, NestedUndone, AbortTick, Goto, shared, Quiet,
       HasJob, TypeOK
  <2> QED
    BY <1>4, <2>1, <2>2 DEF Aborts, SetStep
<1>5. CASE Ends(h)
  <2>1. ASSUME NEW n \in Nodes, Unlock(h, n) PROVE Quiet(h)
    BY <2>1 DEF Unlock, Quiet, HasJob
  <2>2. CASE FinishReadOnly(h) /\ want[h] # "SYNC"
    BY <2>2 DEF FinishReadOnly, Goto, Quiet, HasJob, TypeOK
  <2>3. CASE FinishAbort(h)
    BY <2>3 DEF FinishAbort, Goto, shared, Quiet, HasJob, TypeOK
  <2> QED
    BY <1>5, <2>1, <2>2, <2>3 DEF Ends, SetStep, LinkStep
<1> QED
  BY <1>1, <1>2, <1>3, <1>4, <1>5, StepKinds

(* What is true of every step. *)
StepFacts(h) ==
  /\ TypeOK /\ TypeOK' /\ Alone(h) /\ Orderly(h)
  /\ time \in Nat /\ time' \in Nat /\ time <= time'
  /\ fastCommit' = fastCommit

(* What every step keeps to. *)
LEMMA StepHas ==
  ASSUME AtomicityInv, NEW h \in Handles, Step(h)
  PROVE  StepFacts(h)
<1>1. TypeOK /\ TypeOK'
  BY NextAtomicityStep DEF AtomicityInv, LockInv, TypeInv
<1> QED
  BY <1>1, StepAlone, StepOrderly DEF StepFacts, Orderly, TypeOK

(* A new job belongs to whoever linked it; no history is changed. *)
LEMMA LinkStepJobs ==
  ASSUME AtomicityInv, JobsInv, NEW h \in Handles, ClockFits(h), Step(h), LinkStep(h)
  PROVE  JobsInv' /\ HistoryStays
<1>1. StepFacts(h)
  BY StepHas
<1>2. CASE Push(h)
  <2> DEFINE j == JobOf(h, endTime[h], FALSE)
  <2>1. /\ queue' = Append(queue, j) /\ pc[h] = "push" /\ pc'[h] = "validate" /\ log' = log
        /\ job'[h] = Len(queue) + 1 /\ endTime' = endTime /\ UNCHANGED time
    BY <1>1, <1>2 DEF Push, Goto, StepFacts, TypeOK
  <2>2. j.handle = h /\ ~j.ready /\ j.state = "pending" /\ j.end = endTime[h]
    BY DEF JobOf
  <2> HIDE DEF j
  <2>3. Links(j)
    BY <1>1, <2>1, LinkFacts DEF StepFacts
  <2>4. HasJob(h)' /\ ~HasJob(h)
    BY <1>1, <2>1 DEF HasJob, StepFacts, ClockFits
  <2>5. endTime[h] <= time'
    BY <2>1 DEF AtomicityInv, LockInv
  <2> QED
    BY <1>1, <2>1, <2>2, <2>3, <2>4, <2>5, LinkJobs DEF StepFacts
<1>3. CASE FinishReadOnly(h) /\ want[h] = "SYNC"
  <2> DEFINE j == [JobOf(h, 0, TRUE) EXCEPT !.kind = "SYNC_ME", !.state = "none"]
  <2>1. queue' = Append(queue, j) /\ pc[h] = "unlockReadOnly" /\ pc'[h] = "idle"
    BY <1>1, <1>3 DEF FinishReadOnly, Goto, StepFacts, TypeOK
  <2>2. j.ready /\ j.state = "none" /\ j.end = 0
    BY DEF JobOf
  <2> HIDE DEF j
  <2>3. Links(j)
    BY <1>1, <2>1, LinkFacts DEF StepFacts
  <2>4. ~HasJob(h)' /\ ~HasJob(h)
    BY <2>1 DEF HasJob
  <2>5. log[h] = <<>> /\ log' = [log EXCEPT ![h] = <<>>]
    BY <1>3, <2>1 DEF AtomicityInv, LockInv, FinishReadOnly, Cleanup
  <2>6. log' = log
    BY <1>1, <2>5 DEF StepFacts, TypeOK
  <2> QED
    BY <1>1, <2>2, <2>3, <2>4, <2>6, LinkJobs DEF StepFacts
<1> QED
  BY <1>2, <1>3 DEF LinkStep

(* A job is decided by its owner; no history is changed. *)
LEMMA SetStepJobs ==
  ASSUME AtomicityInv, JobsInv, NEW h \in Handles, Step(h), SetStep(h)
  PROVE  JobsInv' /\ HistoryStays
<1>1. StepFacts(h) /\ JobsTyped /\ JobsTyped'
  BY StepHas, JobFacts, JobFactsNext DEF StepFacts
<1> PICK own : own = job[h]
  OBVIOUS
<1>2. HasJob(h) /\ ~HasJob(h)' /\ UNCHANGED <<time, fastCommit>>
  BY ZenonT(60), <1>1 DEF SetStep, FinishCommit, ValidateFailed, Goto, HasJob, StepFacts, TypeOK
<1>3. /\ own \in DOMAIN queue /\ queue[own] \in Job /\ queue[own].handle = h /\ ~queue[own].ready
      /\ queue[own].end = endTime[h]
      /\ queue[own].state = IF pc[h] = "validate" THEN "pending" ELSE "committed"
  BY <1>1, <1>2 DEF JobsInv, JobOwned, JobsTyped
<1> DEFINE failed == [queue[own] EXCEPT !.ready = TRUE, !.state = "failed"]
           done   == [queue[own] EXCEPT !.redo = log[h], !.ready = TRUE]
<1>4. /\ failed.ready /\ failed.state = "failed" /\ failed.handle = h
      /\ failed.end = queue[own].end /\ failed.reads = queue[own].reads
      /\ done.ready /\ done.state = queue[own].state /\ done.handle = h
      /\ done.end = queue[own].end /\ done.reads = queue[own].reads /\ done.redo = log[h]
  BY <1>3 DEF Job
<1>5. ASSUME FinishCommit(h)
      PROVE  Sets(own, done) /\ pc[h] = "unlockCommit"
  <2>1. queue' = [queue EXCEPT ![own] = done]
    BY <1>5 DEF FinishCommit
  <2> HIDE DEF done
  <2> QED
    BY <1>1, <1>5, <2>1, SetFacts DEF FinishCommit, Goto, StepFacts
<1>6. ASSUME fastCommit, NEW n \in Nodes, ValidateFailed(h, n)
      PROVE  Sets(own, failed) /\ pc[h] = "validate" /\ log' = log
  <2>1. queue' = [queue EXCEPT ![own] = failed]
    BY <1>6 DEF ValidateFailed
  <2> HIDE DEF failed
  <2> QED
    BY <1>1, <1>6, <2>1, SetFacts DEF ValidateFailed, Goto, StepFacts
<1> HIDE DEF failed, done
<1>7. PICK j : /\ Sets(own, j) /\ j.ready /\ j.handle = h
               /\ j.end = queue[own].end /\ j.reads = queue[own].reads
               /\ \/ j.state = "failed" /\ queue[own].state = "pending"
                  \/ j.state = "committed" /\ queue[own].state = "committed" /\ j.redo = log[h]
  <2>1. CASE FinishCommit(h)
    BY <1>3, <1>4, <1>5, <2>1
  <2>2. CASE fastCommit /\ \E n \in Nodes : ValidateFailed(h, n)
    BY <1>3, <1>4, <1>6, <2>2
  <2> QED
    BY <2>1, <2>2 DEF SetStep
<1>8. JobsInv'
  BY <1>1, <1>2, <1>7, SetJobs DEF StepFacts
<1>9. ASSUME NEW i \in DOMAIN queue, queue[i].state = "committed" PROVE RedoOf(i)' = RedoOf(i)
  <2>1. CASE i = own
    BY <1>3, <1>7, <1>9, <2>1 DEF Sets, RedoOf
  <2>2. CASE i # own
    <3>1. queue'[i] = queue[i]
      BY <1>7, <2>2 DEF Sets
    <3>2. CASE queue[i].ready
      BY <3>1, <3>2 DEF RedoOf
    <3>3. CASE ~queue[i].ready
      <4>1. PICK k \in Handles : queue[i].handle = k /\ job[k] = i
        BY <1>1, <3>3, UnreadyJob DEF StepFacts
      <4>2. log'[k] = log[k]
        BY <1>1, <2>2, <4>1 DEF StepFacts, Alone
      <4> QED
        BY <3>1, <3>3, <4>1, <4>2 DEF RedoOf
    <3> QED
      BY <3>2, <3>3
  <2> QED
    BY <2>1, <2>2
<1>10. ASSUME NEW i \in DOMAIN queue
       PROVE  /\ queue'[i].end = queue[i].end /\ queue'[i].reads = queue[i].reads
              /\ queue'[i].state = "committed" <=> queue[i].state = "committed"
  BY <1>7 DEF Sets
<1>11. HistoryStays
  BY <1>1, <1>7, <1>9, <1>10 DEF HistoryStays, Sets
<1> QED
  BY <1>8, <1>11

(* h's transaction is committed as job j, with end time e. *)
Joins(h, j, e) ==
  /\ JobsTyped /\ JobsTyped' /\ log' = log /\ seen' = seen
  /\ pc[h] = "validate" /\ pc'[h] = "unlockCommit" /\ toCheck[h] = {}
  /\ j \in Nat /\ e \in Nat /\ job'[h] = j /\ endTime'[h] = e
  /\ DOMAIN queue' = DOMAIN queue \cup {j}
  /\ \A i \in DOMAIN queue : i # j => queue'[i] = queue[i]
  /\ j \in DOMAIN queue => queue[j].state = "pending"
  /\ queue'[j].end = e /\ queue'[j].state = "committed" /\ queue'[j].reads = seen[h]
  /\ RedoOf(j)' = log[h]
  /\ \/ /\ fastCommit /\ j = job[h] /\ e = endTime[h] /\ j \in DOMAIN queue
        /\ UNCHANGED <<time, mutex>>
     \/ /\ ~fastCommit /\ j = Len(queue) + 1 /\ e = time + 2 /\ time' = time + 2
        /\ mutex' = Free

(* A commit puts one job into the history. *)
LEMMA ValidatedJobs ==
  ASSUME AtomicityInv, JobsInv, NEW h \in Handles, Step(h), Validated(h)
  PROVE  JobsInv' /\ \E j, e : Joins(h, j, e)
<1>1. StepFacts(h) /\ JobsTyped /\ JobsTyped'
  BY StepHas, JobFacts, JobFactsNext DEF StepFacts
<1>2. /\ pc[h] = "validate" /\ pc'[h] = "unlockCommit" /\ toCheck[h] = {}
      /\ log' = log /\ seen' = seen
  BY <1>1 DEF Validated, Goto, StepFacts, TypeOK
<1>3. CASE fastCommit
  <2> PICK j, e : j = job[h] /\ e = endTime[h]
    OBVIOUS
  <2>1. /\ HasJob(h) /\ HasJob(h)' /\ UNCHANGED <<time, fastCommit, endTime, job, mutex>>
        /\ queue' = [queue EXCEPT ![j].state = "committed", ![j].reads = seen[h]]
    BY <1>1, <1>2, <1>3 DEF Validated, HasJob, StepFacts
  <2>2. /\ j \in DOMAIN queue /\ queue[j] \in Job /\ queue[j].handle = h /\ ~queue[j].ready
        /\ queue[j].end = e /\ queue[j].state = "pending"
    BY <1>1, <1>2, <2>1 DEF JobsInv, JobOwned, JobsTyped
  <2> DEFINE own == [queue[j] EXCEPT !.state = "committed", !.reads = seen[h]]
  <2>3. /\ own.state = "committed" /\ own.reads = seen[h] /\ ~own.ready /\ own.handle = h
        /\ own.end = e
    BY <2>2 DEF Job
  <2>4. queue' = [queue EXCEPT ![j] = own]
    BY <2>1
  <2> HIDE DEF own
  <2>5. Sets(j, own)
    BY <1>1, <2>4, SetFacts DEF StepFacts
  <2>6. JobsInv'
    BY <1>1, <1>2, <2>1, <2>2, <2>3, <2>5, SetJobs DEF StepFacts
  <2>7. j \in Nat /\ e \in Nat
    BY <1>1 DEF StepFacts, TypeOK
  <2>8. Joins(h, j, e)
    BY <1>1, <1>2, <1>3, <2>1, <2>2, <2>3, <2>5, <2>7 DEF Joins, Sets, RedoOf
  <2> QED
    BY <2>6, <2>8
<1>4. CASE ~fastCommit
  <2> PICK j, e : j = Len(queue) + 1 /\ e = time + 2
    OBVIOUS
  <2> DEFINE own == [JobOf(h, e, FALSE) EXCEPT !.state = "committed", !.reads = seen[h]]
  <2>1. /\ queue' = Append(queue, own) /\ time' = e /\ endTime'[h] = e /\ job'[h] = j
        /\ mutex' = Free /\ ~HasJob(h) /\ HasJob(h)'
    BY <1>1, <1>2, <1>4 DEF Validated, Tick, HasJob, StepFacts, TypeOK
  <2>2. /\ own.state = "committed" /\ own.reads = seen[h] /\ ~own.ready /\ own.handle = h
        /\ own.end = e
    BY DEF JobOf
  <2> HIDE DEF own
  <2>3. Links(own)
    BY <1>1, <2>1, LinkFacts DEF StepFacts
  <2>4. e <= time'
    BY <1>1, <2>1 DEF StepFacts
  <2>5. JobsInv'
    BY <1>1, <1>2, <2>1, <2>2, <2>3, <2>4, LinkJobs DEF StepFacts
  <2>6. j \in Nat /\ e \in Nat /\ j \notin DOMAIN queue /\ DOMAIN queue' = DOMAIN queue \cup {j}
    BY <1>1, <2>3 DEF StepFacts, JobsTyped, Links
  <2>7. queue'[j] = own /\ \A i \in DOMAIN queue : queue'[i] = queue[i]
    BY <2>3 DEF Links
  <2>8. RedoOf(j)' = log[h]
    BY <1>2, <2>2, <2>7 DEF RedoOf
  <2>9. Joins(h, j, e)
    BY <1>1, <1>2, <1>4, <2>1, <2>2, <2>6, <2>7, <2>8 DEF Joins
  <2> QED
    BY <2>5, <2>9
<1> QED
  BY <1>3, <1>4

-----------------------------------------------------------------------------
(* The clock *)

ClockInv == \A h \in Handles : ClockFits(h)

(* End times stay above start times, and without FAST_COMMIT one handle validates
   at a time. *)
LEMMA ClockStep ==
  ASSUME AtomicityInv, ClockInv, NEW h \in Handles, Step(h)
  PROVE  ClockInv'
<1>1. StepFacts(h) /\ TypeOK /\ start[h] <= time /\ start[h] \in Nat /\ endTime'[h] \in Nat
  BY StepHas DEF StepFacts, AtomicityInv, TypeOK
<1>2. EndTaken(h)' => start'[h] = start[h]
  <2>1. CASE \E n \in Nodes : ValidateFailed(h, n)
    BY <1>1, <2>1 DEF ValidateFailed, Goto, EndTaken, StepFacts
  <2>2. start'[h] = start[h] \/ pc'[h] \in {"run", "idle"}
    BY <1>1 DEF Step, UserStep, CallStep, AbortStep, Begin, BeginNested, CommitNested, Load,
       UncheckedRead, Check, Store, StoreCopied, LockForWrite, LockCopied, CopyOld, Push,
       ValidateOne, ValidateFailed, CommitReadOnly, CommitFast, CommitLocked, Validated,
       HardAbort, AbortNested, Undo, NestedUndone, AbortTick, FinishCommit, FinishReadOnly,
       FinishAbort, Unlock, Goto, TypeOK
  <2> QED
    BY <2>2 DEF EndTaken
<1>3. EndTaken(h)' => start'[h] < endTime'[h]
  BY <1>1, <1>2 DEF StepFacts, Orderly, ClockInv, ClockFits
<1>4. ASSUME NEW k \in Handles \ {h} PROVE EndTaken(k)' => start'[k] < endTime'[k]
  BY <1>1 DEF StepFacts, Alone, EndTaken, ClockInv, ClockFits
<1>5. pc'[h] = "push" => fastCommit
  BY ZenonT(60), <1>1 DEF Step, UserStep, CallStep, AbortStep, Begin, BeginNested, CommitNested, Load,
     UncheckedRead, Check, Store, StoreCopied, LockForWrite, LockCopied, CopyOld, Push,
     ValidateOne, ValidateFailed, CommitReadOnly, CommitFast, CommitLocked, Validated,
     HardAbort, AbortNested, Undo, NestedUndone, AbortTick, FinishCommit, FinishReadOnly,
     FinishAbort, Unlock, Goto, UtilLock, TypeOK, ClockInv, ClockFits
<1>6. ASSUME ~fastCommit
      PROVE  \/ mutex' = mutex /\ (pc'[h] = "validate" => pc[h] = "validate")
             \/ mutex = Free /\ mutex' = h
             \/ mutex' = Free /\ pc[h] = "validate" /\ pc'[h] # "validate"
  <2>1. CASE Begins(h) \/ Accesses(h)
    <3>1. mutex' = mutex
      BY <2>1 DEF Begins, Begin, BeginNested, CommitNested, Accesses, Check, Store, LockCopied,
         StoreCopied, Load, UncheckedRead, LockForWrite, CopyOld, shared
    <3>2. pc'[h] # "validate"
      BY <1>1, <2>1, UtilLockQuiet DEF Begins, Begin, BeginNested, CommitNested, Accesses, Check,
         Store, LockCopied, StoreCopied, Load, UncheckedRead, LockForWrite, CopyOld, shared,
         Goto, TypeOK
    <3> QED
      BY <3>1, <3>2
  <2>2. CASE Commits(h) \/ Validated(h)
    <3>1. ~Push(h)
      BY <1>6 DEF Push, Goto, ClockInv, ClockFits
    <3> QED
      BY <1>1, <1>6, <2>2, <3>1 DEF Commits, Validated, ValidateOne, CommitReadOnly, CommitFast,
         CommitLocked, Goto, shared, TypeOK
  <2>3. CASE Aborts(h)
    BY <1>1, <1>6, <2>3 DEF Aborts, HardAbort, AbortNested, Undo, NestedUndone, AbortTick,
       ValidateFailed, Goto, shared, TypeOK
  <2>4. CASE Ends(h)
    BY <1>1, <2>4 DEF Ends, FinishCommit, FinishReadOnly, FinishAbort, Unlock, Goto, shared,
       TypeOK
  <2> QED
    BY <2>1, <2>2, <2>3, <2>4, StepKinds
<1>7. ASSUME ~fastCommit, NEW k \in Handles, pc'[k] = "validate" PROVE mutex' = k
  <2>1. \A g \in Handles : pc[g] = "validate" => mutex = g
    BY <1>7 DEF ClockInv, ClockFits
  <2>2. k # h => pc[k] = "validate"
    BY <1>1, <1>7 DEF StepFacts, Alone
  <2>3. CASE mutex' = mutex /\ (pc'[h] = "validate" => pc[h] = "validate")
    BY <1>7, <2>1, <2>2, <2>3
  <2>4. CASE mutex = Free /\ mutex' = h
    BY <2>1, <2>2, <2>4, FreeAssumption
  <2>5. CASE mutex' = Free /\ pc[h] = "validate" /\ pc'[h] # "validate"
    BY <1>7, <2>1, <2>2, <2>5
  <2> QED
    BY <1>6, <1>7, <2>3, <2>4, <2>5
<1>8. \A k \in Handles : pc'[k] = "push" => fastCommit
  BY <1>1, <1>5 DEF StepFacts, Alone, ClockInv, ClockFits
<1> QED
  BY <1>1, <1>3, <1>4, <1>7, <1>8 DEF StepFacts, ClockInv, ClockFits

(* Whoever validates in D->mutex validates alone. *)
LEMMA OneValidates ==
  ASSUME ClockInv, ~fastCommit, NEW h \in Handles, pc[h] = "validate",
         NEW k \in Handles, pc[k] = "validate"
  PROVE  k = h
  BY DEF ClockInv, ClockFits

-----------------------------------------------------------------------------
(* What is to be committed *)

(* g's claims: end times and places in the queue are taken at the end. *)
Claims(g) ==
  /\ Pending(g)' => /\ WrittenBy(g)' = WrittenBy(g)
                    /\ (Pending(g) /\ endTime'[g] = endTime[g]) \/ time < endTime'[g]
  /\ HasJob(g)' => \/ HasJob(g) /\ job'[g] = job[g] /\ (pc'[g] = "validate" => pc[g] = "validate")
                  \/ Len(queue) < job'[g]

(* Every step respects the claims. *)
LEMMA ClaimsStep ==
  ASSUME AtomicityInv, ClockInv, NEW h \in Handles, Step(h), NEW g \in Handles
  PROVE  Claims(g)
<1>1. StepFacts(h) /\ TypeOK /\ Len(queue) \in Nat
  BY StepHas, JobFacts DEF StepFacts, JobsTyped
<1>2. CASE g # h
  BY <1>1, <1>2 DEF StepFacts, Alone, Claims, Pending, HasJob, WrittenBy
<1>3. CASE Begins(h)
  <2>1. pc'[h] = "run"
    BY <1>1, <1>3 DEF Begins, Begin, BeginNested, CommitNested, Goto, shared, TypeOK
  <2> QED
    BY <1>2, <2>1 DEF Claims, Pending, HasJob
<1>4. CASE Accesses(h)
  <2>1. pc'[h] \in {"run", "check", "failed", "store", "copied", "storeCopied"}
    BY <1>1, <1>4, UtilLockQuiet DEF Accesses, Check, Store, LockCopied, StoreCopied, Load,
       UncheckedRead, LockForWrite, CopyOld, Goto, TypeOK
  <2> QED
    BY <1>2, <2>1 DEF Claims, Pending, HasJob
<1>5. CASE Commits(h)
  <2>1. /\ log' = log
        /\ \/ pc'[h] = "unlockReadOnly"
           \/ pc'[h] = "push" /\ Tick(h)
           \/ pc'[h] = "validate" /\ ~fastCommit
           \/ /\ pc'[h] = "validate" /\ endTime' = endTime
              /\ \/ pc[h] = "push" /\ job'[h] = Len(queue) + 1
                 \/ pc[h] = "validate" /\ job' = job
    BY <1>1, <1>5 DEF Commits, Push, ValidateOne, CommitReadOnly, CommitFast, CommitLocked,
       Goto, shared, TypeOK
  <2>2. Tick(h) => time < endTime'[h]
    BY <1>1 DEF Tick, StepFacts, TypeOK
  <2>3. WrittenBy(g)' = WrittenBy(g)
    BY <2>1 DEF WrittenBy
  <2> QED
    BY <1>1, <1>2, <2>1, <2>2, <2>3 DEF Claims, Pending, HasJob, StepFacts
<1>6. CASE Validated(h)
  <2>1. pc'[h] = "unlockCommit" /\ pc[h] = "validate"
    BY <1>1, <1>6 DEF Validated, Goto, TypeOK
  <2>2. IF fastCommit THEN job' = job ELSE job'[h] = Len(queue) + 1
    BY <1>1, <1>6 DEF Validated, TypeOK
  <2> QED
    BY <1>1, <1>2, <2>1, <2>2 DEF Claims, Pending, HasJob
<1>7. CASE Aborts(h)
  <2>1. pc'[h] \in {"undo", "undoNested", "run", "unlockAbort"}
    BY <1>1, <1>7 DEF Aborts, HardAbort, AbortNested, Undo, NestedUndone, AbortTick,
       ValidateFailed, Goto, TypeOK
  <2> QED
    BY <1>2, <2>1 DEF Claims, Pending, HasJob
<1>8. CASE Ends(h)
  <2>1. \/ pc'[h] = "idle"
        \/ pc' = pc /\ job' = job /\ pc[h] \in {"unlockCommit", "unlockAbort", "unlockReadOnly"}
    BY <1>1, <1>8 DEF Ends, FinishCommit, FinishReadOnly, FinishAbort, Unlock, Goto, TypeOK
  <2> QED
    BY <1>2, <2>1 DEF Claims, Pending, HasJob
<1> QED
  BY <1>3, <1>4, <1>5, <1>6, <1>7, <1>8, StepKinds

(* What a step other than the last of a validation leaves as it is. *)
Frame(h) ==
  /\ StepFacts(h) /\ HistoryStays /\ StoreLooks
  /\ \A g \in Handles : Claims(g)
  /\ \A n \in Nodes : InOrder(n)

(* A read that fits its place goes on to fit it. *)
LEMMA SerialStays ==
  ASSUME NEW h \in Handles, Frame(h), NEW r, r.node \in Nodes, NEW i \in Nat, i <= Len(queue),
         NEW e \in Nat, e <= time, NEW others, others \subseteq Handles,
         Serial(r, i, e, others)
  PROVE  Serial(r, i, e, others)'
<1> DEFINE n == r.node
<1>1. r.value = ValueAt(n, e - 1)'
  <2>1. ValueAt(n, e - 1)' = ValueAt(n, e - 1)
    BY ValuesStay DEF Frame
  <2> QED
    BY <2>1 DEF Serial
<1>2. ASSUME NEW g \in others, Pending(g)', n \in WrittenBy(g)'
      PROVE  e < endTime'[g] /\ (pc'[g] = "validate" => i < job'[g])
  <2>1. Claims(g) /\ g \in Handles /\ endTime'[g] \in Nat /\ job'[g] \in Nat
    BY DEF Frame, StepFacts, TypeOK
  <2>2. Len(queue) \in Nat /\ time \in Nat
    BY DEF Frame, HistoryStays, JobsTyped, StepFacts
  <2>3. Pending(g) /\ endTime'[g] = endTime[g] => e < endTime[g]
    BY <1>2, <2>1 DEF Claims, Serial
  <2>4. e < endTime'[g]
    BY <1>2, <2>1, <2>2, <2>3 DEF Claims
  <2>5. ASSUME pc'[g] = "validate" PROVE i < job'[g]
    <3>1. HasJob(g)'
      BY <1>2, <2>5 DEF HasJob, Pending
    <3>2. ASSUME pc[g] = "validate", job'[g] = job[g] PROVE i < job'[g]
      <4>1. Pending(g) /\ n \in WrittenBy(g)
        BY <1>2, <2>1, <3>2 DEF Frame, StepFacts, Claims, Pending
      <4> QED
        BY <3>2, <4>1 DEF Serial
    <3>3. Len(queue) < job'[g] => i < job'[g]
      BY <2>1, <2>2
    <3> QED
      BY <2>1, <2>5, <3>1, <3>2, <3>3 DEF Claims
  <2> QED
    BY <2>4, <2>5
<1>3. WritersOf(n)' = WritersOf(n) /\ \A k \in WritersOf(n) : queue'[k].end = queue[k].end
  BY WritersStay DEF Frame
<1> QED
  BY <1>1, <1>2, <1>3 DEF Serial, Frame, StepFacts

(* A read that was right at its start time stays right. *)
LEMMA RightStays ==
  ASSUME NEW h \in Handles, Frame(h), NEW k \in Handles, NEW r, r.node \in Nodes,
         NEW t \in Nat, t <= time, RightAt(k, r, t)
  PROVE  RightAt(k, r, t)'
<1> DEFINE n == r.node
<1>1. ValueAt(n, t)' = ValueAt(n, t)
  BY ValuesStay DEF Frame
<1>2. ASSUME NEW g \in Handles, Pending(g)', n \in WrittenBy(g)' PROVE t < endTime'[g]
  <2>1. Claims(g) /\ endTime'[g] \in Nat /\ time \in Nat
    BY DEF Frame, StepFacts, TypeOK
  <2> QED
    BY <1>2, <2>1 DEF Claims, RightAt
<1>3. /\ WritersOf(n)' = WritersOf(n)
      /\ \A i \in WritersOf(n) : queue'[i].end = queue[i].end /\ i \in DOMAIN queue
  BY WritersStay DEF Frame
<1>4. ASSUME HasJob(k)', NEW i \in WritersOf(n), queue[i].end <= t PROVE i < job'[k]
  <2>1. Claims(k) /\ job'[k] \in Nat /\ i \in 1..Len(queue) /\ Len(queue) \in Nat
    BY <1>3 DEF Frame, StepFacts, TypeOK, HistoryStays, JobsTyped
  <2> QED
    BY <1>4, <2>1 DEF Claims, RightAt
<1> QED
  BY <1>1, <1>2, <1>3, <1>4 DEF RightAt

-----------------------------------------------------------------------------
(* Objects and their writers *)

(* The store goes on to be what was committed last. *)
LEMMA StoredStays ==
  ASSUME NEW h \in Handles, Frame(h), NEW n \in Nodes, LastStored(n)
  PROVE  InOrder(n)' /\ LastStored(n)'
<1>1. /\ WritersOf(n)' = WritersOf(n)
      /\ \A i \in WritersOf(n) : queue'[i].end = queue[i].end
  BY WritersStay DEF Frame
<1>2. InOrder(n)'
  BY <1>1 DEF Frame, InOrder
<1>3. ASSUME NEW t \in Nat, t >= time' PROVE Stored(n)' = ValueAt(n, t)'
  <2>1. ValueAt(n, t)' = ValueAt(n, t) /\ Stored(n)' = Stored(n)
    BY ValuesStay DEF Frame, StoreLooks
  <2>2. t >= time
    BY <1>3 DEF Frame, StepFacts
  <2> QED
    BY <2>1, <2>2 DEF LastStored
<1> QED
  BY <1>2, <1>3 DEF LastStored

(* A lock is only ever taken from a version not above the start time. *)
LEMMA LockTaken ==
  ASSUME AtomicityInv, NEW h \in Handles, Step(h), NEW n \in Nodes,
         lock'[n] # lock[n], lock'[n] = h
  PROVE  /\ IsVersion(n) /\ lock[n] <= start[h] /\ start' = start /\ log' = log
         /\ mem' = mem /\ ~HasJob(h)' /\ Undoable(h)'
<1>1. TypeOK /\ StepFacts(h) /\ endTime[h] # h
  <2>1. TypeOK
    BY StepHas DEF StepFacts
  <2> QED
    BY <2>1, StepHas, ConstAssumption DEF TypeOK
<1>2. CASE Begins(h) \/ Commits(h) \/ Validated(h) \/ Aborts(h)
  BY <1>2 DEF Begins, Begin, BeginNested, CommitNested, Commits, Push, ValidateOne,
     CommitReadOnly, CommitFast, CommitLocked, Validated, Aborts, HardAbort, AbortNested, Undo,
     NestedUndone, AbortTick, ValidateFailed, shared
<1>3. CASE Ends(h)
  <2>1. PICK m \in Nodes : Unlock(h, m)
    BY <1>3 DEF Ends, FinishCommit, FinishReadOnly, FinishAbort, shared
  <2>2. lock'[n] = endTime[h] \/ lock'[n] = lock[n]
    BY <1>1, <2>1 DEF Unlock, TypeOK
  <2> QED
    BY <1>1, <2>2
<1>4. CASE Accesses(h)
  <2>1. PICK m \in Nodes, next \in {"store", "storeCopied"} :
          UtilLock(h, m, next) /\ UNCHANGED <<start, log, mem>>
    <3>1. pc[h] = "copied" => access[h].node \in Nodes
      BY DEF AtomicityInv, LockInv, TypeInv, Access
    <3> QED
      BY <1>4, <3>1 DEF Accesses, Check, Store, StoreCopied, Load, UncheckedRead, LockForWrite,
         LockCopied, CopyOld, shared
  <2>2. pc'[h] \in {"store", "storeCopied", "failed"}
    BY <1>1, <2>1, UtilLockQuiet
  <2>3. LLock(h, m) /\ lock' = [lock EXCEPT ![m] = h]
    BY <2>1 DEF UtilLock
  <2>4. m = n
    BY <1>1, <2>3 DEF TypeOK
  <2>5. IsVersion(n) /\ lock[n] <= start[h]
    BY <2>3, <2>4 DEF LLock
  <2> QED
    BY <2>1, <2>2, <2>5 DEF HasJob, Undoable
<1> QED
  BY <1>2, <1>3, <1>4, StepKinds

(* A handle keeps its start time, its commit included, while it has a lock. *)
LEMMA StartKept ==
  ASSUME AtomicityInv, NEW h \in Handles, Step(h), acquired[h] # {}
  PROVE  /\ start'[h] = start[h] \/ (start'[h] = time /\ pc[h] = "idle")
         /\ pc[h] = "unlockCommit" => UNCHANGED <<pc, job, endTime>>
<1>1. TypeOK
  BY StepHas DEF StepFacts
<1>2. CASE Begins(h) \/ Accesses(h) \/ Commits(h) \/ Validated(h) \/ Aborts(h)
  <2>1. start'[h] = start[h] \/ (start'[h] = time /\ pc[h] = "idle")
    BY <1>1, <1>2 DEF Begins, Begin, BeginNested, CommitNested, Accesses, Check, Store,
       StoreCopied, Load, UncheckedRead, LockForWrite, LockCopied, CopyOld, Commits, Push,
       ValidateOne, CommitReadOnly, CommitFast, CommitLocked, Validated, Aborts, HardAbort,
       AbortNested, Undo, NestedUndone, AbortTick, ValidateFailed, Goto, TypeOK
  <2>2. pc[h] # "unlockCommit"
    BY <1>2 DEF Begins, Begin, BeginNested, CommitNested, Accesses, Check, Store,
       StoreCopied, Load, UncheckedRead, LockForWrite, LockCopied, CopyOld, Commits, Push,
       ValidateOne, CommitReadOnly, CommitFast, CommitLocked, Validated, Aborts, HardAbort,
       AbortNested, Undo, NestedUndone, AbortTick, ValidateFailed, Goto
  <2> QED
    BY <2>1, <2>2
<1>3. CASE Ends(h)
  BY <1>3 DEF Ends, FinishCommit, FinishReadOnly, FinishAbort, Unlock
<1> QED
  BY <1>2, <1>3, StepKinds

(* Versions stay above the committed writers, owners behind them. *)
LEMMA BelowStays ==
  ASSUME AtomicityInv, JobsInv, ClockInv, NEW h \in Handles, Frame(h), Step(h),
         NEW n \in Nodes, BelowLock(n)
  PROVE  BelowLock(n)'
<1>1. /\ StepFacts(h) /\ TypeOK /\ TypeOK' /\ LockInv /\ LockInv'
  BY NextAtomicityStep DEF Frame, StepFacts, AtomicityInv
<1>2. ASSUME NEW i \in WritersOf(n)
      PROVE  /\ i \in DOMAIN queue /\ queue'[i].end = queue[i].end /\ queue[i].end \in Nat
             /\ queue[i].end <= time /\ i \in 1..Len(queue)
  <2>1. i \in DOMAIN queue /\ queue'[i].end = queue[i].end
    BY WritersStay DEF Frame
  <2> QED
    BY <2>1 DEF Frame, HistoryStays, JobsTyped, JobsInv, JobDecided
<1>3. WritersOf(n)' = WritersOf(n)
  BY WritersStay DEF Frame
<1>4. /\ \A k \in Handles : start[k] \in Nat /\ endTime[k] \in Nat /\ job[k] \in Nat
                            /\ job'[k] \in Nat /\ start'[k] \in Nat /\ k \notin Nat
      /\ Len(queue) \in Nat /\ time \in Nat /\ (IsVersion(n) => lock[n] \in Nat)
  BY ZenonT(60), <1>1, ConstAssumption DEF TypeOK, Frame, HistoryStays, JobsTyped, IsVersion, StepFacts
<1>5. CASE lock'[n] = lock[n]
  <2>1. ASSUME NEW i \in WritersOf(n), IsVersion(n)' PROVE queue'[i].end <= lock'[n]
    BY <1>2, <1>5, <2>1 DEF BelowLock, IsVersion
  <2>2. ASSUME NEW i \in WritersOf(n), NEW k \in Handles, lock[n] = k
        PROVE  \/ pc'[k] = "unlockCommit" /\ i = job'[k]
               \/ queue'[i].end <= start'[k] /\ (HasJob(k)' => i < job'[k])
    <3>1. \/ pc[k] = "unlockCommit" /\ i = job[k]
          \/ queue[i].end <= start[k] /\ (HasJob(k) => i < job[k])
      BY <2>2 DEF BelowLock
    <3>2. CASE k # h
      BY <1>1, <1>2, <3>1, <3>2 DEF StepFacts, Alone, HasJob
    <3>3. CASE k = h
      <4>1. acquired[h] # {}
        BY <1>1, <2>2, <3>3 DEF LockInv, LockDiscipline
      <4>2. /\ start'[h] = start[h] \/ (start'[h] = time /\ pc[h] = "idle")
            /\ pc[h] = "unlockCommit" => UNCHANGED <<pc, job, endTime>>
        BY <4>1, StartKept
      <4>3. CASE pc[h] = "unlockCommit"
        BY <1>2, <3>1, <3>3, <4>2, <4>3 DEF HasJob
      <4>4. CASE pc[h] # "unlockCommit"
        <5>1. queue[i].end <= start'[h]
          BY <1>2, <3>1, <3>3, <4>2, <4>4
        <5>2. Claims(h)
          BY DEF Frame
        <5>3. HasJob(h)' => i < job'[h]
          BY <1>2, <1>4, <3>1, <3>3, <4>4, <5>2 DEF Claims
        <5> QED
          BY <1>2, <3>3, <5>1, <5>3
      <4> QED
        BY <4>3, <4>4
    <3> QED
      BY <3>2, <3>3
  <2> QED
    BY <1>3, <1>5, <2>1, <2>2 DEF BelowLock
<1>6. CASE lock'[n] # lock[n] /\ lock'[n] = h
  <2>1. IsVersion(n) /\ lock[n] <= start[h] /\ start' = start /\ ~HasJob(h)'
    BY <1>6, LockTaken
  <2>2. \A i \in WritersOf(n) : queue'[i].end <= start'[h]
    BY <1>2, <1>4, <2>1 DEF BelowLock
  <2> QED
    BY <1>3, <1>6, <2>1, <2>2 DEF BelowLock, IsVersion
<1>7. CASE lock[n] = h /\ EndTaken(h) /\ lock'[n] = endTime[h]
  <2>1. start[h] < endTime[h]
    BY <1>7 DEF ClockInv, ClockFits
  <2>2. ASSUME NEW i \in WritersOf(n) PROVE queue[i].end <= endTime[h]
    <3>1. CASE queue[i].end <= start[h]
      BY <1>2, <1>4, <2>1, <3>1
    <3>2. CASE pc[h] = "unlockCommit" /\ i = job[h]
      BY <1>4, <1>2, <3>2 DEF JobsInv, JobOwned, HasJob
    <3> QED
      BY <1>7, <3>1, <3>2 DEF BelowLock
  <2>3. \A k \in Handles : lock'[n] # k
    BY <1>4, <1>7
  <2> QED
    BY <1>2, <1>3, <1>7, <2>2, <2>3 DEF BelowLock
<1> QED
  BY <1>1, <1>5, <1>6, <1>7 DEF StepFacts, Orderly

-----------------------------------------------------------------------------
(* Reads *)

(* A step of h that reads nothing: what its reads and savepoints come from. *)
ReadsFrom(h) ==
  /\ \A k \in DOMAIN nested'[h] :
       \/ k \in DOMAIN nested[h] /\ nested'[h][k] = nested[h][k]
       \/ nested'[h][k].seen = seen[h] /\ nested'[h][k].readSet = readSet[h]
  /\ \/ seen'[h] = seen[h] /\ readSet[h] \subseteq readSet'[h]
     \/ seen'[h] = {}
     \/ \E k \in DOMAIN nested[h] :
          seen'[h] = nested[h][k].seen /\ readSet'[h] = nested[h][k].readSet
  /\ pc'[h] = "check" => access'[h].node \in readSet'[h]
  /\ \/ start'[h] = start[h]
     \/ pc[h] = "idle" /\ pc'[h] = "run"
     \/ pc'[h] = "idle" /\ seen'[h] = {} /\ nested'[h] = <<>>

ReadsNew(h) == Check(h) \/ \E n \in Nodes : UncheckedRead(h, n)

(* Every other step only loses reads. *)
LEMMA ReadsFromHolds ==
  ASSUME AtomicityInv, NEW h \in Handles, Step(h), ~ReadsNew(h)
  PROVE  ReadsFrom(h)
<1>1. /\ TypeOK /\ nested[h] \in Seq(Savepoint) /\ DOMAIN nested[h] = 1..Len(nested[h])
      /\ Len(nested[h]) \in Nat /\ access[h] \in Access \cup {NoEntry}
  <2>1. TypeOK
    BY StepHas DEF StepFacts
  <2> QED
    BY <2>1, LenProperties DEF TypeOK
<1>2. CASE BeginNested(h)
  <2> DEFINE s == [readSet |-> readSet[h], pos |-> Len(log[h]), commitType |-> commitType[h],
                   seen |-> seen[h], synced |-> synced[h],
                   view |-> [n \in acquired[h] |-> mem[n]]]
  <2>1. nested'[h] = Append(nested[h], s) /\ s.seen = seen[h] /\ s.readSet = readSet[h]
    BY <1>1, <1>2 DEF BeginNested, TypeOK
  <2> HIDE DEF s
  <2>2. /\ DOMAIN nested'[h] = 1..Len(nested[h]) + 1
        /\ \A k \in 1..Len(nested[h]) : nested'[h][k] = nested[h][k]
        /\ nested'[h][Len(nested[h]) + 1] = s
    BY <1>1, <2>1
  <2>3. pc'[h] = "run" /\ UNCHANGED <<seen, readSet, start>>
    BY <1>2 DEF BeginNested
  <2> QED
    BY <1>1, <2>1, <2>2, <2>3 DEF ReadsFrom
<1>3. CASE NestedUndone(h) \/ \E ct \in CommitTypes : CommitNested(h, ct)
  <2>1. nested[h] # <<>> /\ nested'[h] = Front(nested[h]) /\ pc'[h] = "run"
        /\ UNCHANGED <<seen, readSet, start>>
    BY <1>1, <1>3 DEF NestedUndone, CommitNested, Goto, shared, TypeOK, AtomicityInv, LockInv,
       TypeInv
  <2>2. /\ DOMAIN nested'[h] \subseteq DOMAIN nested[h]
        /\ \A k \in DOMAIN nested'[h] : nested'[h][k] = nested[h][k]
    BY <1>1, <2>1, FrontTop, LenProperties
  <2> QED
    BY <2>1, <2>2 DEF ReadsFrom
<1>4. CASE AbortNested(h)
  <2>1. /\ nested[h] # <<>> /\ pc'[h] = "undoNested" /\ UNCHANGED <<nested, start>>
        /\ seen'[h] = nested[h][Len(nested[h])].seen
        /\ readSet'[h] = nested[h][Len(nested[h])].readSet
    BY <1>1, <1>4 DEF AbortNested, Top, TypeOK
  <2>2. Len(nested[h]) \in DOMAIN nested[h]
    BY <1>1, <2>1, EmptySeq
  <2> QED
    BY <2>1, <2>2 DEF ReadsFrom
<1>5. CASE HardAbort(h) \/ \E n \in Nodes : ValidateFailed(h, n)
  BY <1>1, <1>5 DEF HardAbort, ValidateFailed, Goto, ReadsFrom, TypeOK
<1>6. CASE Begin(h) \/ \E n \in Nodes : Load(h, n)
  BY SMTT(30), <1>1, <1>6 DEF Begin, Load, Goto, ReadsFrom, TypeOK
<1>7. CASE FinishCommit(h) \/ FinishReadOnly(h) \/ FinishAbort(h)
  <2>1. pc'[h] = "idle" /\ seen'[h] = {} /\ nested'[h] = <<>>
    BY <1>1, <1>7 DEF FinishCommit, FinishReadOnly, FinishAbort, Cleanup, Goto, TypeOK
  <2> QED
    BY <2>1, EmptySeq DEF ReadsFrom
<1>8. CASE \/ Store(h) \/ LockCopied(h) \/ StoreCopied(h) \/ Commits(h) \/ Validated(h)
           \/ \E n \in Nodes, v \in Values : LockForWrite(h, n, v) \/ CopyOld(h, n, v)
           \/ Undo(h) \/ AbortTick(h) \/ \E n \in Nodes : Unlock(h, n)
  <2>1. UNCHANGED <<nested, seen, readSet, start>>
    BY <1>8 DEF Store, LockCopied, StoreCopied, Commits, Push, ValidateOne, CommitReadOnly,
       CommitFast, CommitLocked, Validated, LockForWrite, CopyOld, Undo, AbortTick, Unlock
  <2>2. pc'[h] # "check"
    BY <1>1, <1>8, UtilLockQuiet DEF Store, LockCopied, StoreCopied, Commits, Push, ValidateOne,
       CommitReadOnly, CommitFast, CommitLocked, Validated, LockForWrite, CopyOld, Undo,
       AbortTick, Unlock, Goto, shared, TypeOK
  <2> QED
    BY <2>1, <2>2 DEF ReadsFrom
<1> QED
  BY <1>2, <1>3, <1>4, <1>5, <1>6, <1>7, <1>8, StepKinds
  DEF Begins, Accesses, Aborts, Ends, ReadsNew

(* Its reads were there and listed before. *)
LEMMA ReadsKept ==
  ASSUME NEW h \in Handles, ReadsFrom(h), ReadsListed(h)
  PROVE  ReadsListed(h)' /\ AllReads(h)' \subseteq AllReads(h)
<1>1. /\ \A k \in DOMAIN nested'[h] :
           /\ nested'[h][k].seen \subseteq AllReads(h)
           /\ \A r \in nested'[h][k].seen : r.node \in nested'[h][k].readSet
  BY DEF ReadsFrom, ReadsListed, AllReads
<1>2. seen'[h] \subseteq AllReads(h) /\ \A r \in seen'[h] : r.node \in readSet'[h]
  BY DEF ReadsFrom, ReadsListed, AllReads
<1>3. AllReads(h)' = seen'[h] \cup UNION {nested'[h][k].seen : k \in DOMAIN nested'[h]}
  BY DEF AllReads
<1> QED
  BY <1>1, <1>2, <1>3 DEF ReadsFrom, ReadsListed

(* h may use what is under the lock of n. *)
Usable(h, n) ==
  /\ \A i \in WritersOf(n) : queue[i].end <= start[h]
  /\ \A t \in Nat : start[h] <= t => ValueAt(n, t) = Stored(n)
  /\ \A g \in Handles \ {h} : Pending(g) => n \notin WrittenBy(g)
  /\ IsVersion(n) \/ n \notin WrittenBy(h) => Stored(n) = mem[n]
  /\ \A v : Current(h, n, v) => v = mem[n]

(* l_check: the version is not above the start time or the lock is ours, so what
   is there was committed last at the start time. *)
LEMMA CheckedUsable ==
  ASSUME SerialInv, NEW h \in Handles, NEW n \in Nodes, LCheck(h, n), Undoable(h)
  PROVE  Usable(h, n)
<1>1. /\ TypeOK /\ LockInv /\ JobsTyped /\ ClockInv
      /\ time \in Nat /\ start[h] \in Nat /\ start[h] <= time
  BY JobFacts DEF SerialInv, AtomicityInv, LockInv, TypeInv, HandleInv, ClockInv, TypeOK
<1>2. \A i \in WritersOf(n) : i \in DOMAIN queue /\ queue[i].end \in Nat
  BY <1>1 DEF WritersOf, JobsTyped
<1>3. BelowLock(n) /\ LastStored(n) /\ InOrder(n)
  BY DEF SerialInv
<1>4. \A i \in WritersOf(n) : queue[i].end <= start[h]
  <2>1. CASE IsVersion(n)
    <3>1. lock[n] <= start[h] /\ lock[n] \in Nat
      BY <1>1, <2>1 DEF LCheck, IsVersion, TypeOK
    <3> QED
      BY <1>1, <1>2, <1>3, <2>1, <3>1 DEF BelowLock
  <2>2. CASE ~IsVersion(n)
    <3>1. lock[n] = h /\ pc[h] # "unlockCommit"
      BY <2>2 DEF LCheck, Undoable
    <3> QED
      BY <1>3, <3>1 DEF BelowLock
  <2> QED
    BY <2>1, <2>2
<1>5. ASSUME NEW t \in Nat, start[h] <= t PROVE ValueAt(n, t) = Stored(n)
  <2>1. Stored(n) = ValueAt(n, time)
    BY <1>1, <1>3 DEF LastStored
  <2>2. CASE WritersOf(n) = {}
    BY <1>1, <2>1, <2>2, ValueFacts DEF ValueIs
  <2>3. ASSUME NEW k \in WritersOf(n) PROVE ValueAt(n, t) = ValueAt(n, time)
    <3>1. \A i \in WritersOf(n) : queue[i].end <= time /\ queue[i].end <= t
      BY <1>1, <1>2, <1>4, <1>5
    <3>2. PICK i : IsLast(i, n, time)
      BY <1>1, <1>3, <2>3, <3>1, LastWriterExists
    <3>3. IsLast(i, n, t)
      BY <3>1, <3>2 DEF IsLast
    <3> QED
      BY <1>1, <3>2, <3>3, ValueFacts DEF ValueIs
  <2> QED
    BY <2>1, <2>2, <2>3
<1>6. ASSUME NEW g \in Handles \ {h}, Undoable(g) PROVE n \notin WrittenBy(g)
  <2>1. lock[n] # g
    BY DEF LCheck, IsVersion
  <2> QED
    BY <1>1, <1>6, <2>1 DEF LockInv, LockDiscipline
<1>7. ASSUME IsVersion(n) \/ n \notin WrittenBy(h) PROVE Stored(n) = mem[n]
  <2>1. CASE n \notin WrittenBy(h)
    <3>1. Writers(n) = {}
      BY <1>6, <2>1 DEF Writers
    <3> QED
      BY <3>1, StoredFacts DEF StoredIs
  <2>2. CASE IsVersion(n)
    <3>1. n \notin WrittenBy(h)
      BY <1>1, <2>2 DEF LockInv, LockDiscipline, IsVersion
    <3> QED
      BY <2>1, <3>1
  <2> QED
    BY <1>7, <2>1, <2>2
<1>8. ASSUME NEW v, Current(h, n, v) PROVE v = mem[n]
  <2>1. ~ (IsVersion(n) /\ lock[n] > start[h])
    <3>1. IsVersion(n) => lock[n] \in Nat /\ lock[n] <= start[h]
      BY <1>1 DEF LCheck, IsVersion, TypeOK
    <3> QED
      BY <1>1, <3>1
  <2>2. ~IsVersion(n) => lock[n] = h
    BY DEF LCheck
  <2> QED
    BY <1>8, <2>1, <2>2 DEF Current
<1>9. \A g \in Handles : Pending(g) => Undoable(g)
  BY DEF Pending, Undoable
<1> QED
  BY <1>4, <1>5, <1>6, <1>7, <1>8, <1>9 DEF Usable

(* Locks are kept until the transaction is over. *)
LEMMA LockKept ==
  ASSUME AtomicityInv, NEW h \in Handles, Step(h), Open(h), NEW n \in Nodes, lock[n] = h
  PROVE  lock'[n] = h
<1>1. TypeOK
  BY StepHas DEF StepFacts
<1>2. CASE Begins(h) \/ Commits(h) \/ Validated(h) \/ Aborts(h)
  BY <1>2 DEF Begins, Begin, BeginNested, CommitNested, Commits, Push, ValidateOne,
     CommitReadOnly, CommitFast, CommitLocked, Validated, Aborts, HardAbort, AbortNested, Undo,
     NestedUndone, AbortTick, ValidateFailed, shared
<1>3. CASE Ends(h)
  BY <1>3 DEF Ends, FinishCommit, FinishReadOnly, FinishAbort, Unlock, Open, shared
<1>4. CASE Accesses(h)
  <2>1. ASSUME NEW m, NEW next, UtilLock(h, m, next) PROVE lock'[n] = h
    BY <1>1, <2>1 DEF UtilLock, TypeOK
  <2> QED
    BY <1>4, <2>1 DEF Accesses, Check, Store, StoreCopied, Load, UncheckedRead, LockForWrite,
       LockCopied, CopyOld, shared
<1> QED
  BY <1>2, <1>3, <1>4, StepKinds

(* What h has read stays as good as it is, if h reads no more and does not
   begin. *)
LEMMA OwnUseful ==
  ASSUME SerialInv, NEW h \in Handles, Frame(h), Step(h), start'[h] = start[h],
         NEW r, r.node \in Nodes, ReadUseful(h, r), Open(h) \/ ~Open(h)'
  PROVE  ReadUseful(h, r)'
<1> DEFINE n == r.node
<1> SUFFICES ASSUME ~r.checked, Open(h)'
             PROVE  IF lock'[n] = h THEN r.value = Stored(n)' ELSE Current(h, n, r.value)'
  BY DEF ReadUseful
<1>1. /\ StepFacts(h) /\ Orderly(h) /\ AtomicityInv /\ Open(h)
      /\ Stored(n)' = Stored(n)
      /\ IF lock[n] = h THEN r.value = Stored(n) ELSE Current(h, n, r.value)
  BY DEF SerialInv, Frame, StoreLooks, StepFacts, ReadUseful
<1>2. CASE lock'[n] = h /\ lock[n] = h
  BY <1>1, <1>2
<1>3. CASE lock'[n] = h /\ lock[n] # h
  <2>1. IsVersion(n) /\ lock[n] <= start[h]
    BY <1>1, <1>3, LockTaken
  <2>2. LCheck(h, n) /\ Undoable(h)
    BY <1>1, <2>1 DEF LCheck, Undoable, Open
  <2>3. Usable(h, n)
    BY <2>2, CheckedUsable
  <2> QED
    BY <1>1, <1>3, <2>1, <2>3 DEF Usable
<1>4. CASE lock'[n] # h
  <2>1. lock'[n] = lock[n]
    <3>1. lock[n] # h
      BY <1>1, <1>4, LockKept
    <3> QED
      BY <1>1, <1>4, <3>1 DEF Orderly
  <2>2. lock[n] # h /\ mem'[n] = mem[n]
    BY <1>1, <1>4, <2>1 DEF Orderly
  <2>3. Current(h, n, r.value)
    BY <1>1, <2>2
  <2>4. ASSUME NEW k \in Handles, k # h
        PROVE  (EndTaken(k)' <=> EndTaken(k)) /\ endTime'[k] = endTime[k]
    BY <1>1, <2>4 DEF StepFacts, Alone, EndTaken
  <2>5. Current(h, n, r.value)'
    BY <2>1, <2>2, <2>3, <2>4 DEF Current, IsVersion
  <2> QED
    BY <1>4, <2>5
<1> QED
  BY <1>2, <1>3, <1>4

(* What k has read without a check stays useful whatever h does. *)
LEMMA OthersUseful ==
  ASSUME AtomicityInv, NEW h \in Handles, StepFacts(h), NEW k \in Handles \ {h},
         NEW r, r.node \in Nodes, ReadUseful(k, r), AtomicityInv',
         lock[r.node] = k => Stored(r.node)' = Stored(r.node)
  PROVE  ReadUseful(k, r)'
<1> DEFINE n == r.node
<1>1. Open(k)' <=> Open(k)
  BY DEF StepFacts, Alone, Open
<1>2. lock'[n] = k <=> lock[n] = k
  BY DEF StepFacts, Alone, AtomicityInv, LockInv, LockDiscipline
<1>3. ASSUME Current(k, n, r.value) PROVE Current(k, n, r.value)'
  <2>1. /\ TypeOK /\ Orderly(h) /\ start[k] <= time /\ start'[k] = start[k]
        /\ endTime'[h] \in Nat
    BY DEF StepFacts, Alone, AtomicityInv, TypeOK
  <2> QED
    BY <1>3, <2>1, OthersCurrent
<1> QED
  BY <1>1, <1>2, <1>3 DEF ReadUseful

(* An idle handle has no reads, and only idle handles become open. *)
LEMMA EndsClean ==
  ASSUME TypeOK, NEW h \in Handles, Step(h)
  PROVE  /\ pc'[h] = "idle" => seen'[h] = {} /\ nested'[h] = <<>>
         /\ ~Open(h) /\ Open(h)' => pc'[h] = "idle"
<1>1. CASE FinishCommit(h) \/ FinishReadOnly(h) \/ FinishAbort(h)
  BY <1>1 DEF FinishCommit, FinishReadOnly, FinishAbort, Cleanup, Goto, TypeOK
<1>2. CASE \E n \in Nodes : Unlock(h, n)
  BY <1>2 DEF Unlock, Open
<1>3. CASE Begins(h) \/ Commits(h) \/ Validated(h) \/ Aborts(h)
  <2>1. pc'[h] # "idle" /\ (Open(h) \/ pc'[h] \in {"undo", "unlockAbort"})
    BY <1>3 DEF Begins, Begin, BeginNested, CommitNested, Commits, Push, ValidateOne,
       CommitReadOnly, CommitFast, CommitLocked, Validated, Aborts, HardAbort, AbortNested,
       Undo, NestedUndone, AbortTick, ValidateFailed, Goto, shared, Open, TypeOK
  <2> QED
    BY <2>1 DEF Open
<1>4. CASE Accesses(h)
  <2>1. pc'[h] # "idle" /\ pc[h] \in {"run", "check", "store", "copied", "storeCopied"}
    BY <1>4, UtilLockQuiet DEF Accesses, Check, Store, LockCopied, StoreCopied, Load,
       UncheckedRead, LockForWrite, CopyOld, Goto, TypeOK
  <2> QED
    BY <2>1 DEF Open
<1> QED
  BY <1>1, <1>2, <1>3, <1>4, StepKinds DEF Ends

(* What is kept about the reads of k. *)
ReadsInv(k) ==
  /\ pc[k] = "idle" => AllReads(k) = {}
  /\ ReadsListed(k)
  /\ \A r \in AllReads(k) : r \in Read /\ ReadRight(k, r) /\ ReadUseful(k, r)

(* A step of h that commits nothing keeps what is known of the reads of k. *)
LEMMA OthersReads ==
  ASSUME SerialInv, NEW h \in Handles, Frame(h), AtomicityInv', NEW k \in Handles \ {h}
  PROVE  ReadsInv(k)'
<1>1. /\ AtomicityInv /\ ReadsInv(k) /\ StepFacts(h) /\ start[k] <= time /\ start[k] \in Nat
  BY DEF SerialInv, HandleInv, ReadsInv, Frame, AtomicityInv, StepFacts, TypeOK
<1>2. /\ pc'[k] = pc[k] /\ start'[k] = start[k] /\ seen'[k] = seen[k] /\ nested'[k] = nested[k]
      /\ readSet'[k] = readSet[k] /\ access'[k] = access[k]
  BY <1>1 DEF StepFacts, Alone
<1>3. AllReads(k)' = AllReads(k) /\ ReadsListed(k)'
  BY <1>1, <1>2 DEF AllReads, ReadsListed, ReadsInv
<1>4. ASSUME NEW r \in AllReads(k) PROVE r \in Read /\ ReadRight(k, r)' /\ ReadUseful(k, r)'
  <2>1. r \in Read /\ r.node \in Nodes /\ ReadRight(k, r) /\ ReadUseful(k, r)
    BY <1>1 DEF ReadsInv, Read
  <2>2. ReadUseful(k, r)'
    BY <1>1, <2>1, OthersUseful DEF Frame, StoreLooks
  <2>3. ASSUME NEW t \in Nat, t = start[k], r.checked PROVE RightAt(k, r, t)'
    <3>1. RightAt(k, r, t) /\ t <= time
      BY <1>1, <2>1, <2>3 DEF ReadRight
    <3> QED
      BY <2>1, <3>1, RightStays
  <2>4. ReadRight(k, r)'
    BY <1>2, <2>3 DEF ReadRight
  <2> QED
    BY <2>1, <2>2, <2>4
<1> QED
  BY <1>1, <1>2, <1>3, <1>4 DEF ReadsInv

(* So does a step of h that reads nothing keep it of its own. *)
LEMMA OwnReads ==
  ASSUME SerialInv, NEW h \in Handles, Frame(h), Step(h), ~ReadsNew(h)
  PROVE  ReadsInv(h)'
<1>1. /\ AtomicityInv /\ TypeOK /\ ReadsInv(h) /\ start[h] <= time /\ start[h] \in Nat
  BY DEF SerialInv, HandleInv, ReadsInv, Frame, AtomicityInv, StepFacts, TypeOK
<1>2. ReadsFrom(h) /\ ReadsListed(h)' /\ AllReads(h)' \subseteq AllReads(h)
  BY <1>1, ReadsFromHolds, ReadsKept DEF ReadsInv
<1>3. pc'[h] = "idle" => AllReads(h)' = {}
  <2>1. pc'[h] = "idle" => seen'[h] = {} /\ nested'[h] = <<>>
    BY <1>1, EndsClean
  <2> QED
    BY <2>1 DEF AllReads
<1>4. ASSUME NEW r \in AllReads(h)' PROVE r \in Read /\ ReadRight(h, r)' /\ ReadUseful(h, r)'
  <2>1. /\ r \in AllReads(h) /\ r \in Read /\ r.node \in Nodes
        /\ ReadRight(h, r) /\ ReadUseful(h, r)
    BY <1>1, <1>2 DEF ReadsInv, Read
  <2>2. start'[h] = start[h] /\ (Open(h) \/ ~Open(h)')
    BY <1>1, <1>2, <1>3, <2>1, EndsClean DEF ReadsFrom, ReadsInv
  <2>3. ReadUseful(h, r)'
    BY <2>1, <2>2, OwnUseful
  <2>4. ASSUME NEW t \in Nat, t = start[h], r.checked PROVE RightAt(h, r, t)'
    <3>1. RightAt(h, r, t) /\ t <= time
      BY <1>1, <2>1, <2>4 DEF ReadRight
    <3> QED
      BY <2>1, <3>1, RightStays
  <2>5. ReadRight(h, r)'
    BY <2>2, <2>4 DEF ReadRight
  <2> QED
    BY <2>1, <2>3, <2>5
<1> QED
  BY <1>2, <1>3, <1>4 DEF ReadsInv

(* A read returns one value more, right at the start time or useful. *)
LEMMA NewRead ==
  ASSUME SerialInv, NEW h \in Handles, ReadsNew(h)
  PROVE  /\ pc'[h] \in {"run", "failed"} /\ Open(h) /\ ~HasJob(h) /\ ~Pending(h)
         /\ UNCHANGED <<start, nested>>
         /\ readSet[h] \subseteq readSet'[h]
         /\ \/ seen'[h] = seen[h]
            \/ \E r \in Read : /\ seen'[h] = seen[h] \cup {r} /\ r.node \in readSet'[h]
                               /\ \A t \in Nat : r.checked /\ t = start[h] => RightAt(h, r, t)
                               /\ ReadUseful(h, r)
<1>1. /\ AtomicityInv /\ TypeOK /\ LockInv /\ ReadsInv(h) /\ start[h] \in Nat
  BY DEF SerialInv, HandleInv, ReadsInv, AtomicityInv, LockInv, TypeInv, TypeOK
<1>2. CASE Check(h)
  <2> DEFINE n == access[h].node
             r == [node |-> n, value |-> access[h].value, checked |-> TRUE]
  <2>1. /\ pc[h] = "check" /\ access[h] \in Access /\ n \in Nodes /\ n \in readSet[h]
        /\ r \in Read /\ Current(h, n, r.value)
    BY <1>1, <1>2 DEF Check, LockInv, TypeInv, Access, ReadsInv, ReadsListed, AtomicityInv,
       Loaded, Read
  <2>2. /\ pc'[h] \in {"run", "failed"} /\ UNCHANGED <<start, nested, readSet>>
        /\ seen'[h] = seen[h] \/ (LCheck(h, n) /\ seen'[h] = Noted(h, n, r.value, TRUE))
    BY <1>1, <1>2 DEF Check, TypeOK
  <2>3. Open(h) /\ Undoable(h) /\ ~HasJob(h) /\ ~Pending(h)
    BY <2>1 DEF Open, Undoable, HasJob, Pending
  <2>4. ASSUME LCheck(h, n), n \notin WrittenBy(h), NEW t \in Nat, t = start[h]
        PROVE  RightAt(h, r, t)
    <3>1. Usable(h, n)
      BY <2>1, <2>3, <2>4, CheckedUsable
    <3>2. r.value = ValueAt(n, t)
      BY <1>1, <2>1, <2>4, <3>1 DEF Usable
    <3> QED
      BY <2>3, <3>1, <3>2 DEF Usable, RightAt
  <2>5. Noted(h, n, r.value, TRUE) = IF n \in WrittenBy(h) THEN seen[h] ELSE seen[h] \cup {r}
    BY DEF Noted
  <2>6. ReadUseful(h, r)
    BY DEF ReadUseful
  <2>7. r.node = n
    OBVIOUS
  <2> HIDE DEF r
  <2> QED
    BY <2>1, <2>2, <2>3, <2>4, <2>5, <2>6, <2>7
<1>3. ASSUME NEW n \in Nodes, UncheckedRead(h, n)
      PROVE  /\ pc'[h] \in {"run", "failed"} /\ Open(h) /\ ~HasJob(h) /\ ~Pending(h)
             /\ UNCHANGED <<start, nested>>
             /\ readSet[h] \subseteq readSet'[h]
             /\ \/ seen'[h] = seen[h]
                \/ \E r \in Read : /\ seen'[h] = seen[h] \cup {r} /\ r.node \in readSet'[h]
                                   /\ \A t \in Nat : r.checked /\ t = start[h] => RightAt(h, r, t)
                                   /\ ReadUseful(h, r)
  <2> DEFINE r == [node |-> n, value |-> mem[n], checked |-> FALSE]
  <2>1. /\ pc[h] = "run" /\ pc' = pc /\ UNCHANGED <<start, nested>>
        /\ readSet'[h] = readSet[h] \cup {n} /\ r \in Read
        /\ seen'[h] = Noted(h, n, mem[n], FALSE)
    BY <1>1, <1>3 DEF UncheckedRead, TypeOK, Read
  <2>2. Open(h) /\ Undoable(h) /\ ~HasJob(h) /\ ~Pending(h)
    BY <2>1 DEF Open, Undoable, HasJob, Pending
  <2>3. ASSUME n \notin WrittenBy(h), lock[n] = h PROVE mem[n] = Stored(n)
    <3>1. Stored(n) = Undone(log[h], n, mem[n])
      BY <1>1, <2>2, <2>3, StoredFacts DEF StoredIs
    <3> QED
      BY <1>1, <2>3, <3>1, Written, UndoneNone
  <2>4. ASSUME n \notin WrittenBy(h) PROVE ReadUseful(h, r)
    BY <2>3, <2>4 DEF ReadUseful, Current
  <2>5. Noted(h, n, mem[n], FALSE) = IF n \in WrittenBy(h) THEN seen[h] ELSE seen[h] \cup {r}
    BY DEF Noted
  <2>6. r.node = n /\ ~r.checked
    OBVIOUS
  <2> HIDE DEF r
  <2> QED
    BY <2>1, <2>2, <2>4, <2>5, <2>6
<1> QED
  BY <1>2, <1>3 DEF ReadsNew

(* A step of h that reads keeps what is known of its reads. *)
LEMMA NewReads ==
  ASSUME SerialInv, NEW h \in Handles, Frame(h), Step(h), ReadsNew(h)
  PROVE  ReadsInv(h)'
<1>1. /\ AtomicityInv /\ TypeOK /\ ReadsInv(h) /\ start[h] <= time /\ start[h] \in Nat
  BY DEF SerialInv, HandleInv, ReadsInv, Frame, AtomicityInv, StepFacts, TypeOK
<1>2. /\ pc'[h] \in {"run", "failed"} /\ Open(h) /\ UNCHANGED <<start, nested>>
      /\ readSet[h] \subseteq readSet'[h]
      /\ \/ seen'[h] = seen[h]
         \/ \E r \in Read : /\ seen'[h] = seen[h] \cup {r} /\ r.node \in readSet'[h]
                            /\ \A t \in Nat : r.checked /\ t = start[h] => RightAt(h, r, t)
                            /\ ReadUseful(h, r)
  BY NewRead
<1>3. ReadsListed(h)'
  <2>1. \A r \in seen'[h] : r.node \in readSet'[h]
    BY <1>1, <1>2 DEF ReadsInv, ReadsListed
  <2> QED
    BY <1>1, <1>2, <2>1 DEF ReadsInv, ReadsListed
<1>4. ASSUME NEW r \in AllReads(h)' PROVE r \in Read /\ ReadRight(h, r)' /\ ReadUseful(h, r)'
  <2>1. /\ r \in Read /\ r.node \in Nodes /\ ReadUseful(h, r)
        /\ \A t \in Nat : r.checked /\ t = start[h] => RightAt(h, r, t)
    <3>1. CASE r \in AllReads(h)
      BY <1>1, <3>1 DEF ReadsInv, ReadRight, Read
    <3>2. CASE r \notin AllReads(h)
      <4>1. r \in seen'[h] /\ r \notin seen[h]
        BY <1>2, <3>2 DEF AllReads
      <4>2. PICK q \in Read : /\ seen'[h] = seen[h] \cup {q}
                              /\ \A t \in Nat : q.checked /\ t = start[h] => RightAt(h, q, t)
                              /\ ReadUseful(h, q)
        BY <1>2, <4>1
      <4>3. r = q
        BY <4>1, <4>2
      <4> QED
        BY <4>2, <4>3 DEF Read
    <3> QED
      BY <3>1, <3>2
  <2>2. ReadUseful(h, r)'
    BY <1>2, <2>1, OwnUseful
  <2>3. ASSUME NEW t \in Nat, t = start[h], r.checked PROVE RightAt(h, r, t)'
    BY <1>1, <2>1, <2>3, RightStays
  <2>4. ReadRight(h, r)'
    BY <1>2, <2>3 DEF ReadRight
  <2> QED
    BY <2>1, <2>2, <2>4
<1> QED
  BY <1>2, <1>3, <1>4 DEF ReadsInv

-----------------------------------------------------------------------------
(* Validation *)

(* Validation begins with everything to check and goes on node by node. *)
LEMMA ValidatingKinds ==
  ASSUME TypeOK, NEW h \in Handles, Step(h), pc'[h] = "validate"
  PROVE  \/ toCheck'[h] = readSet[h] /\ seen' = seen
         \/ \E n \in Nodes : ValidateOne(h, n)
<1>1. CASE Begins(h) \/ Aborts(h) \/ Validated(h)
  BY <1>1 DEF Begins, Begin, BeginNested, CommitNested, Validated, Aborts, HardAbort, AbortNested,
     Undo, NestedUndone, AbortTick, ValidateFailed, Goto, shared, TypeOK
<1>2. CASE Accesses(h)
  BY <1>2, UtilLockQuiet DEF Accesses, Check, Store, LockCopied, StoreCopied, Load,
     UncheckedRead, LockForWrite, CopyOld, Goto, TypeOK
<1>3. CASE Ends(h)
  BY <1>3 DEF Ends, FinishCommit, FinishReadOnly, FinishAbort, Unlock, Goto, TypeOK
<1>4. CASE Commits(h)
  BY <1>4 DEF Commits, Push, CommitReadOnly, CommitFast, CommitLocked, Goto, TypeOK
<1> QED
  BY <1>1, <1>2, <1>3, <1>4, StepKinds

(* What tr_validate finds in order is what the queue and the clock demand. *)
LEMMA ValidRead ==
  ASSUME SerialInv, NEW h \in Handles, pc[h] = "validate", NEW r \in seen[h],
         LCheck(h, r.node)
  PROVE  IF fastCommit
         THEN \A i, e \in Nat : i = job[h] /\ e = endTime[h] => Serial(r, i, e, Handles \ {h})
         ELSE r.value = Stored(r.node)
<1> DEFINE n == r.node
<1>1. /\ AtomicityInv /\ TypeOK /\ LockInv /\ ReadsInv(h) /\ start[h] \in Nat
      /\ ClockFits(h) /\ r \in AllReads(h) /\ r \in Read /\ n \in Nodes
  <2>1. AtomicityInv /\ TypeOK /\ LockInv /\ ReadsInv(h) /\ ClockFits(h)
    BY DEF SerialInv, HandleInv, ReadsInv, AtomicityInv, LockInv, TypeInv
  <2>2. r \in AllReads(h) /\ r \in Read
    BY <2>1 DEF AllReads, ReadsInv
  <2> QED
    BY <2>1, <2>2 DEF TypeOK, Read
<1>2. Open(h) /\ Undoable(h)
  BY DEF Open, Undoable
<1>3. Usable(h, n)
  BY <1>1, <1>2, CheckedUsable
<1>4. r.value = Stored(n)
  <2>1. CASE r.checked
    <3>1. r.value = ValueAt(n, start[h])
      BY <1>1, <2>1 DEF ReadsInv, ReadRight, RightAt
    <3> QED
      BY <1>1, <1>3, <3>1 DEF Usable
  <2>2. CASE ~r.checked
    <3>1. IF lock[n] = h THEN r.value = Stored(n) ELSE Current(h, n, r.value)
      BY <1>1, <1>2, <2>2 DEF ReadsInv, ReadUseful
    <3>2. lock[n] # h => IsVersion(n)
      BY DEF LCheck
    <3> QED
      BY <1>3, <3>1, <3>2 DEF Usable
  <2> QED
    BY <2>1, <2>2
<1>5. ASSUME fastCommit, NEW i \in Nat, NEW e \in Nat, i = job[h], e = endTime[h]
      PROVE  Serial(r, i, e, Handles \ {h})
  <2>1. start[h] < e /\ EndTaken(h) /\ HasJob(h)
    BY <1>1, <1>5 DEF ClockFits, EndTaken, HasJob
  <2>2. r.value = ValueAt(n, e - 1)
    <3>1. e - 1 \in Nat /\ start[h] <= e - 1
      BY <1>1, <1>5, <2>1
    <3> QED
      BY <1>3, <1>4, <3>1 DEF Usable
  <2>3. ASSUME NEW k \in WritersOf(n) PROVE queue[k].end < e /\ (r.checked => k < i)
    <3>1. queue[k].end <= start[h] /\ queue[k].end \in Nat
      BY <1>1, <1>3, JobFacts DEF Usable, JobsTyped, WritersOf
    <3>2. r.checked => k < job[h]
      BY <1>1, <2>1, <3>1 DEF ReadsInv, ReadRight, RightAt
    <3> QED
      BY <1>1, <1>5, <2>1, <3>1, <3>2
  <2>4. \A g \in Handles \ {h} : Pending(g) => n \notin WrittenBy(g)
    BY <1>3 DEF Usable
  <2> QED
    BY <1>5, <2>2, <2>3, <2>4 DEF Serial
<1> QED
  BY <1>4, <1>5

(* What tr_validate has found goes on to hold. *)
LEMMA ValidStays ==
  ASSUME SerialInv, NEW h \in Handles, Frame(h), Step(h), NEW k \in Handles
  PROVE  ReadsValid(k)'
<1> SUFFICES ASSUME pc'[k] = "validate", NEW r \in seen'[k], r.node \notin toCheck'[k]
             PROVE  IF fastCommit'
                    THEN \A i, e \in Nat : i = job'[k] /\ e = endTime'[k] =>
                           Serial(r, i, e, Handles \ {k})'
                    ELSE r.value = Stored(r.node)'
  BY DEF ReadsValid
<1>1. /\ TypeOK /\ TypeOK' /\ fastCommit' = fastCommit /\ LockInv /\ JobsTyped /\ ReadsInv(k)
      /\ ReadsValid(k) /\ JobOwned(k) /\ endTime[k] <= time
  BY DEF Frame, StepFacts, SerialInv, AtomicityInv, LockInv, HistoryStays, HandleInv, ReadsInv
<1>2. /\ pc[k] = "validate" /\ seen'[k] = seen[k] /\ job'[k] = job[k] /\ endTime'[k] = endTime[k]
      /\ IF fastCommit
         THEN \A i, e \in Nat : i = job[k] /\ e = endTime[k] => Serial(r, i, e, Handles \ {k})
         ELSE r.value = Stored(r.node)
  <2>1. CASE k # h
    <3>1. /\ pc[k] = "validate" /\ seen'[k] = seen[k] /\ job'[k] = job[k]
          /\ endTime'[k] = endTime[k] /\ toCheck'[k] = toCheck[k]
      BY <2>1 DEF Frame, StepFacts, Alone
    <3> QED
      BY <1>1, <3>1 DEF ReadsValid
  <2>2. CASE k = h /\ toCheck'[h] = readSet[h] /\ seen' = seen
    BY <1>1, <2>2 DEF ReadsInv, ReadsListed
  <2>3. ASSUME k = h, NEW n \in Nodes, ValidateOne(h, n)
        PROVE  /\ pc[k] = "validate" /\ seen'[k] = seen[k] /\ job'[k] = job[k]
               /\ endTime'[k] = endTime[k]
               /\ r.node \notin toCheck[k] \/ LCheck(k, r.node)
    BY <1>1, <2>3 DEF ValidateOne, TypeOK
  <2>4. CASE k = h /\ \E n \in Nodes : ValidateOne(h, n)
    <3>1. /\ pc[k] = "validate" /\ seen'[k] = seen[k] /\ job'[k] = job[k]
          /\ endTime'[k] = endTime[k]
          /\ r.node \notin toCheck[k] \/ LCheck(k, r.node)
      BY <2>3, <2>4
    <3>2. CASE r.node \notin toCheck[k]
      BY <1>1, <3>1, <3>2 DEF ReadsValid
    <3>3. CASE LCheck(k, r.node)
      BY <3>1, <3>3, ValidRead
    <3> QED
      BY <3>1, <3>2, <3>3
  <2> QED
    BY <1>1, <2>1, <2>2, <2>4, ValidatingKinds
<1>3. r.node \in Nodes
  BY <1>1, <1>2 DEF ReadsInv, AllReads, Read
<1>4. CASE fastCommit
  <2>1. ASSUME NEW i \in Nat, NEW e \in Nat, i = job'[k], e = endTime'[k]
        PROVE  Serial(r, i, e, Handles \ {k})'
    <3>1. Serial(r, i, e, Handles \ {k}) /\ e <= time
      BY <1>1, <1>2, <1>4, <2>1
    <3>2. i <= Len(queue)
      BY <1>1, <1>2, <1>4, <2>1 DEF JobOwned, HasJob, JobsTyped
    <3> QED
      BY <1>3, <3>1, <3>2, SerialStays
  <2> QED
    BY <1>1, <1>4, <2>1
<1>5. CASE ~fastCommit
  BY <1>1, <1>2, <1>3, <1>5 DEF Frame, StoreLooks
<1> QED
  BY <1>4, <1>5

(* Committed transactions stay serialisable while nobody commits. *)
LEMMA SerialJobsStay ==
  ASSUME SerialInv, NEW h \in Handles, Frame(h), NEW i \in DOMAIN queue'
  PROVE  ReadsSerial(i)'
<1> SUFFICES ASSUME queue'[i].state = "committed", NEW r \in queue'[i].reads,
                    NEW e \in Nat, e = queue'[i].end
             PROVE  Serial(r, i, e, Handles)'
  BY DEF ReadsSerial
<1>1. /\ i \in DOMAIN queue /\ queue[i].state = "committed" /\ r \in queue[i].reads
      /\ e = queue[i].end /\ i \in Nat /\ i <= Len(queue) /\ queue[i] \in Job
  BY DEF Frame, HistoryStays, JobsTyped
<1>2. e <= time /\ Serial(r, i, e, Handles) /\ r.node \in Nodes
  BY <1>1 DEF SerialInv, JobDecided, ReadsSerial, Job, Read
<1> QED
  BY <1>1, <1>2, SerialStays

-----------------------------------------------------------------------------
(* A commit *)

(* The writers of n, and what is stored there, when h commits with end time e
   and place j. *)
Joined(h, j, e, n) ==
  /\ \A i \in WritersOf(n) : /\ i \in DOMAIN queue /\ i # j /\ queue[i].end <= time
                             /\ queue'[i].end = queue[i].end /\ Left(i, n)' = Left(i, n)
  /\ n \in WrittenBy(h) =>
       /\ WritersOf(n)' = WritersOf(n) \cup {j}
       /\ lock[n] = h /\ Left(j, n)' = Stored(n)'
       /\ \A i \in WritersOf(n) : queue[i].end < e /\ queue[i].end <= start[h] /\ i < j
  /\ n \notin WrittenBy(h) => WritersOf(n)' = WritersOf(n) /\ Stored(n)' = Stored(n)

(* The commit is the last writer of every object it has written. *)
LEMMA JoinsWriters ==
  ASSUME SerialInv, NEW h \in Handles, StepFacts(h), Validated(h), NEW j, NEW e,
         Joins(h, j, e), NEW n \in Nodes
  PROVE  Joined(h, j, e, n)
<1>1. /\ AtomicityInv /\ LockInv /\ JobsInv /\ ClockFits(h) /\ start[h] \in Nat /\ start[h] <= time
      /\ JobsTyped /\ TypeOK /\ pc[h] = "validate" /\ log' = log /\ BelowLock(n)
      /\ e \in Nat /\ j \in Nat /\ time \in Nat
  BY DEF SerialInv, AtomicityInv, LockInv, TypeInv, TypeOK, HandleInv, JobsInv, Joins
<1>2. ASSUME NEW i \in DOMAIN queue, i # j, queue[i].state = "committed"
      PROVE  RedoOf(i)' = RedoOf(i) /\ queue'[i] = queue[i]
  <2>1. queue'[i] = queue[i]
    BY <1>2 DEF Joins
  <2> QED
    BY <1>1, <2>1 DEF RedoOf
<1>3. ASSUME NEW i \in WritersOf(n)
      PROVE  /\ i \in DOMAIN queue /\ i # j /\ queue[i].end <= time /\ queue[i].end \in Nat
             /\ queue'[i].end = queue[i].end /\ Left(i, n)' = Left(i, n)
  <2>1. i \in DOMAIN queue /\ queue[i].state = "committed"
    BY DEF WritersOf
  <2>2. i # j
    BY <2>1 DEF Joins
  <2> QED
    BY <1>1, <1>2, <2>1, <2>2 DEF Left, JobsInv, JobDecided, JobsTyped
<1>4. /\ \A i : i \in WritersOf(n) <=> /\ i \in DOMAIN queue /\ queue[i].state = "committed"
                                       /\ \E x \in DOMAIN RedoOf(i) : RedoOf(i)[x].node = n
      /\ \A i : i \in WritersOf(n)' <=> /\ i \in DOMAIN queue' /\ queue'[i].state = "committed"
                                        /\ \E x \in DOMAIN RedoOf(i)' : RedoOf(i)'[x].node = n
  BY WritersFacts, WritersFactsNext DEF WritersAre
<1>5. n \in WrittenBy(h) <=> \E x \in DOMAIN RedoOf(j)' : RedoOf(j)'[x].node = n
  <2>1. RedoOf(j)' = log[h]
    BY DEF Joins
  <2> QED
    BY <2>1 DEF WrittenBy
<1>6. \A i : i \in WritersOf(n)' <=> i \in WritersOf(n) \/ (i = j /\ n \in WrittenBy(h))
  <2>1. ASSUME NEW i, i # j PROVE i \in WritersOf(n)' <=> i \in WritersOf(n)
    <3>1. i \in DOMAIN queue' <=> i \in DOMAIN queue
      BY <2>1 DEF Joins
    <3>2. i \in DOMAIN queue => queue'[i] = queue[i]
      BY <2>1 DEF Joins
    <3> QED
      BY <1>2, <1>4, <2>1, <3>1, <3>2
  <2>2. j \in WritersOf(n)' <=> n \in WrittenBy(h)
    BY <1>4, <1>5 DEF Joins
  <2>3. j \notin WritersOf(n)
    BY <1>3
  <2> QED
    BY <2>1, <2>2, <2>3
<1>7. ASSUME n \in WrittenBy(h)
      PROVE  /\ lock[n] = h /\ Left(j, n)' = Stored(n)'
             /\ \A i \in WritersOf(n) : queue[i].end < e /\ queue[i].end <= start[h] /\ i < j
  <2>1. lock[n] = h
    BY <1>1, <1>7 DEF LockInv, LockDiscipline, Undoable
  <2>2. ASSUME NEW i \in WritersOf(n)
        PROVE  queue[i].end < e /\ queue[i].end <= start[h] /\ i < j
    <3>1. queue[i].end <= start[h] /\ (HasJob(h) => i < job[h])
      BY <1>1, <2>1 DEF BelowLock
    <3>2. start[h] < e
      BY <1>1 DEF Joins, ClockFits, EndTaken
    <3>3. i < j
      BY <1>1, <1>3, <3>1 DEF Joins, HasJob, JobsTyped
    <3> QED
      BY <1>1, <1>3, <3>1, <3>2, <3>3
  <2>3. Left(j, n)' = Stored(n)'
    <3> DEFINE s == log[h]
    <3>1. s \in Seq(LogItem) /\ Len(s) \in Nat /\ WrittenBy(h) = WrittenIn(s, Len(s))
      BY <1>1, Written, SeqFacts
    <3>2. SubSeq(s, 1, Len(s)) = s
      BY <3>1, UptoFacts, SeqEqual
    <3>3. Prefix(s, Len(s))[n] = Outcome(s, n, InitValue)
      BY <1>7, <3>1, <3>2 DEF Prefix
    <3>4. Left(j, n)' = Outcome(s, n, InitValue)
      BY DEF Left, Joins
    <3> QED
      BY <1>1, <1>7, <3>3, <3>4, ValidatedStored
  <2> QED
    BY <2>1, <2>2, <2>3
<1>8. n \notin WrittenBy(h) => Stored(n)' = Stored(n)
  BY <1>1, ValidatedStored
<1>9. /\ n \in WrittenBy(h) => WritersOf(n)' = WritersOf(n) \cup {j}
      /\ n \notin WrittenBy(h) => WritersOf(n)' = WritersOf(n)
  BY <1>6
<1> QED
  BY <1>3, <1>7, <1>8, <1>9 DEF Joined

(* What was committed last at t does not change by a later commit. *)
LEMMA ValueBefore ==
  ASSUME NEW h \in Handles, NEW j, NEW e, Joins(h, j, e), NEW n \in Nodes, Joined(h, j, e, n),
         InOrder(n), NEW t, n \in WrittenBy(h) => ~ (e <= t)
  PROVE  ValueAt(n, t)' = ValueAt(n, t)
<1>1. /\ \A i \in WritersOf(n) : queue'[i].end = queue[i].end /\ Left(i, n)' = Left(i, n)
      /\ WritersOf(n) \subseteq WritersOf(n)'
      /\ \A i \in WritersOf(n)' : i \in WritersOf(n) \/ (queue'[i].end = e /\ ~ (e <= t))
  BY DEF Joined, Joins
<1>2. JobsTyped /\ JobsTyped'
  BY DEF Joins
<1>3. CASE \A k \in WritersOf(n) : ~ (queue[k].end <= t)
  <2>1. ValueAt(n, t) = InitValue
    BY <1>2, <1>3, ValueFacts DEF ValueIs
  <2>2. \A k \in WritersOf(n)' : ~ (queue'[k].end <= t)
    BY <1>1, <1>3
  <2>3. ValueAt(n, t)' = InitValue
    BY <1>2, <2>2, ValueFactsNext DEF ValueIs
  <2> QED
    BY <2>1, <2>3
<1>4. ASSUME NEW k \in WritersOf(n), queue[k].end <= t PROVE ValueAt(n, t)' = ValueAt(n, t)
  <2>1. PICK i : IsLast(i, n, t)
    BY <1>2, <1>4, LastWriterExists
  <2>2. IsLast(i, n, t)'
    BY <1>1, <2>1 DEF IsLast
  <2>3. ValueAt(n, t) = Left(i, n)
    BY <1>2, <2>1, ValueFacts DEF ValueIs
  <2>4. ValueAt(n, t)' = Left(i, n)'
    BY <1>2, <2>2, ValueFactsNext DEF ValueIs
  <2> QED
    BY <1>1, <2>1, <2>3, <2>4 DEF IsLast
<1> QED
  BY <1>3, <1>4

(* h's commit as job j at time e, and what is known then. *)
Joining(h, j, e) ==
  /\ SerialInv /\ StepFacts(h) /\ Joins(h, j, e) /\ AtomicityInv' /\ ClockInv
  /\ \A n \in Nodes : Joined(h, j, e, n)
  /\ \A g \in Handles : Claims(g)
  /\ time <= e \/ (fastCommit /\ time' = time)
  /\ \A g \in Handles : Pending(g)' => /\ Pending(g) /\ g # h /\ endTime'[g] = endTime[g]
                                       /\ WrittenBy(g)' = WrittenBy(g) /\ pc'[g] = pc[g]
                                       /\ job'[g] = job[g]

(* All of this holds at a commit. *)
LEMMA JoiningHolds ==
  ASSUME SerialInv, NEW h \in Handles, Step(h), Validated(h), NEW j, NEW e, Joins(h, j, e)
  PROVE  Joining(h, j, e)
<1>1. AtomicityInv /\ ClockInv /\ StepFacts(h) /\ AtomicityInv'
  <2>1. AtomicityInv /\ ClockInv
    BY DEF SerialInv, HandleInv, ClockInv
  <2> QED
    BY <2>1, StepHas, NextAtomicityStep
<1>2. ASSUME NEW g \in Handles, Pending(g)'
      PROVE  /\ Pending(g) /\ g # h /\ endTime'[g] = endTime[g]
             /\ WrittenBy(g)' = WrittenBy(g) /\ pc'[g] = pc[g] /\ job'[g] = job[g]
  <2>1. g # h
    BY <1>2 DEF Joins, Pending
  <2> QED
    BY <1>1, <1>2, <2>1 DEF StepFacts, Alone, Pending, WrittenBy
<1>3. time <= e \/ (fastCommit /\ time' = time)
  BY <1>1 DEF Joins, StepFacts
<1> QED
  BY <1>1, <1>2, <1>3, JoinsWriters, ClaimsStep DEF Joining

(* A commit keeps the order of the writers, and the store is what it left. *)
LEMMA JoinOrder ==
  ASSUME NEW h \in Handles, NEW j, NEW e, Joining(h, j, e), NEW n \in Nodes
  PROVE  InOrder(n)' /\ LastStored(n)'
<1>1. /\ Joined(h, j, e, n) /\ Joins(h, j, e) /\ InOrder(n) /\ LastStored(n)
      /\ time \in Nat /\ time' \in Nat /\ time <= time' /\ e \in Nat /\ e <= time' /\ j \in Nat
  <2>1. e <= time'
    <3>1. e = endTime'[h] /\ endTime'[h] <= time'
      BY DEF Joining, Joins, AtomicityInv, LockInv
    <3> QED
      BY <3>1
  <2> QED
    BY <2>1 DEF Joining, SerialInv, StepFacts, Joins
<1>2. \A i \in WritersOf(n) : i \in Nat /\ queue[i].end \in Nat
  BY <1>1 DEF Joined, Joins, JobsTyped
<1>3. queue'[j].end = e /\ JobsTyped'
  BY <1>1 DEF Joins
<1>4. InOrder(n)'
  <2>1. CASE n \in WrittenBy(h)
    BY <1>1, <1>2, <1>3, <2>1 DEF InOrder, Joined
  <2>2. CASE n \notin WrittenBy(h)
    BY <1>1, <1>2, <2>2 DEF InOrder, Joined
  <2> QED
    BY <2>1, <2>2
<1>5. ASSUME NEW t \in Nat, t >= time' PROVE Stored(n)' = ValueAt(n, t)'
  <2>1. CASE n \in WrittenBy(h)
    <3>1. IsLast(j, n, t)'
      BY <1>1, <1>2, <1>3, <1>5, <2>1 DEF IsLast, Joined
    <3>2. ValueAt(n, t)' = Left(j, n)'
      BY <1>3, <3>1, ValueFactsNext DEF ValueIs
    <3> QED
      BY <1>1, <2>1, <3>2 DEF Joined
  <2>2. CASE n \notin WrittenBy(h)
    <3>1. ValueAt(n, t)' = ValueAt(n, t)
      BY <1>1, <2>2, ValueBefore
    <3>2. t >= time
      BY <1>1, <1>5
    <3> QED
      BY <1>1, <2>2, <3>1, <3>2 DEF Joined, LastStored
  <2> QED
    BY <2>1, <2>2
<1> QED
  BY <1>4, <1>5 DEF LastStored

(* A commit keeps versions above the writers, and owners behind them. *)
LEMMA JoinBelow ==
  ASSUME NEW h \in Handles, NEW j, NEW e, Joining(h, j, e), Validated(h), NEW n \in Nodes
  PROVE  BelowLock(n)'
<1>1. /\ Joined(h, j, e, n) /\ Joins(h, j, e) /\ BelowLock(n) /\ LockInv /\ TypeOK
      /\ lock' = lock /\ start' = start /\ StepFacts(h) /\ JobsTyped /\ JobsInv
  BY DEF Joining, SerialInv, AtomicityInv, Validated, Joins, LockInv, TypeInv, JobsInv, HandleInv
<1>2. ASSUME n \in WrittenBy(h) PROVE BelowLock(n)'
  <2>1. lock'[n] = h /\ ~IsVersion(n)'
    BY <1>1, <1>2 DEF Joined, IsVersion
  <2>2. ASSUME NEW i \in WritersOf(n)'
        PROVE  \/ pc'[h] = "unlockCommit" /\ i = job'[h]
               \/ queue'[i].end <= start'[h] /\ (HasJob(h)' => i < job'[h])
    <3>1. CASE i = j
      BY <1>1, <3>1 DEF Joins
    <3>2. CASE i # j
      BY <1>1, <1>2, <2>2, <3>2 DEF Joins, Joined
    <3> QED
      BY <3>1, <3>2
  <2> QED
    BY <2>1, <2>2 DEF BelowLock
<1>3. ASSUME n \notin WrittenBy(h) PROVE BelowLock(n)'
  <2>1. WritersOf(n)' = WritersOf(n) /\ IsVersion(n)' = IsVersion(n)
    BY <1>1, <1>3 DEF Joined, IsVersion
  <2>2. ASSUME NEW i \in WritersOf(n), NEW k \in Handles, lock[n] = k
        PROVE  \/ pc'[k] = "unlockCommit" /\ i = job'[k]
               \/ queue'[i].end <= start'[k] /\ (HasJob(k)' => i < job'[k])
    <3>1. \/ pc[k] = "unlockCommit" /\ i = job[k]
          \/ queue[i].end <= start[k] /\ (HasJob(k) => i < job[k])
      BY <1>1, <2>2 DEF BelowLock
    <3>2. queue'[i].end = queue[i].end /\ i \in 1..Len(queue) /\ Len(queue) \in Nat
      BY <1>1 DEF Joined, JobsTyped
    <3>3. CASE k # h
      BY <1>1, <3>1, <3>2, <3>3 DEF StepFacts, Alone, HasJob
    <3>4. CASE k = h
      <4>1. queue[i].end <= start[h] /\ (HasJob(h) => i < job[h])
        BY <1>1, <3>1, <3>4 DEF Joins
      <4>2. i < job'[h]
        BY <1>1, <3>2, <4>1 DEF Joins, HasJob
      <4> QED
        BY <1>1, <3>2, <3>4, <4>1, <4>2
    <3> QED
      BY <3>3, <3>4
  <2>3. \A i \in WritersOf(n) : IsVersion(n) => queue'[i].end <= lock'[n]
    BY <1>1 DEF BelowLock, Joined
  <2> QED
    BY <1>1, <2>1, <2>2, <2>3 DEF BelowLock
<1> QED
  BY <1>2, <1>3

(* A read that was in order is so after a commit of h, which is either bound to
   come later or reads nothing else. *)
LEMMA JoinSerial ==
  ASSUME NEW h \in Handles, NEW j, NEW e, Joining(h, j, e), NEW r, r.node \in Nodes,
         NEW i \in Nat, NEW x \in Nat, NEW others, others \subseteq Handles,
         Serial(r, i, x, others \ {h}),
         r.node \in WrittenBy(h) => x <= e /\ i <= j
  PROVE  Serial(r, i, x, others)'
<1> DEFINE n == r.node
<1>1. /\ Joined(h, j, e, n) /\ Joins(h, j, e) /\ InOrder(n) /\ e \in Nat /\ j \in Nat
      /\ fastCommit' = fastCommit
  BY DEF Joining, SerialInv, Joins, StepFacts
<1>2. r.value = ValueAt(n, x - 1)'
  <2>1. n \in WrittenBy(h) => ~ (e <= x - 1)
    BY <1>1
  <2>2. ValueAt(n, x - 1)' = ValueAt(n, x - 1)
    BY <1>1, <2>1, ValueBefore
  <2> QED
    BY <2>2 DEF Serial
<1>3. ASSUME NEW g \in others, Pending(g)', n \in WrittenBy(g)'
      PROVE  x < endTime'[g] /\ (pc'[g] = "validate" => i < job'[g])
  <2>1. /\ Pending(g) /\ g # h /\ endTime'[g] = endTime[g] /\ WrittenBy(g)' = WrittenBy(g)
        /\ pc'[g] = pc[g] /\ job'[g] = job[g]
    BY <1>3 DEF Joining
  <2> QED
    BY <1>3, <2>1 DEF Serial
<1>4. ASSUME NEW k \in WritersOf(n)'
      PROVE  \/ k \in WritersOf(n) /\ queue'[k].end = queue[k].end
             \/ k = j /\ queue'[k].end = e /\ ~ (k < i) /\ ~ (e < x)
  BY <1>1 DEF Joined, Joins
<1> QED
  BY <1>1, <1>2, <1>3, <1>4 DEF Serial

(* A commit keeps the reads of everybody right: it comes after their start times. *)
LEMMA JoinReads ==
  ASSUME NEW h \in Handles, NEW j, NEW e, Joining(h, j, e), Validated(h), NEW k \in Handles
  PROVE  ReadsInv(k)'
<1>1. /\ AtomicityInv /\ ReadsInv(k) /\ StepFacts(h) /\ start[k] <= time /\ start[k] \in Nat
      /\ Joins(h, j, e) /\ time \in Nat /\ JobsTyped
      /\ UNCHANGED <<start, nested, readSet, access, seen>>
  BY DEF Joining, SerialInv, HandleInv, ReadsInv, AtomicityInv, StepFacts, TypeOK, Validated, Joins
<1>2. /\ AllReads(k)' = AllReads(k) /\ ReadsListed(k)' /\ (pc'[k] = "idle" => pc[k] = "idle")
      /\ pc'[h] = "unlockCommit"
  BY <1>1 DEF AllReads, ReadsListed, ReadsInv, Joins, StepFacts, Alone
<1>3. ASSUME NEW r \in AllReads(k) PROVE r \in Read /\ ReadRight(k, r)' /\ ReadUseful(k, r)'
  <2> DEFINE n == r.node
  <2>1. r \in Read /\ n \in Nodes /\ ReadRight(k, r) /\ ReadUseful(k, r)
    BY <1>1 DEF ReadsInv, Read
  <2>2. Joined(h, j, e, n) /\ InOrder(n)
    BY <2>1 DEF Joining, SerialInv
  <2>3. ReadUseful(k, r)'
    <3>1. CASE k = h
      BY <1>2, <3>1 DEF ReadUseful, Open
    <3>2. CASE k # h
      <4>1. lock[n] = k => Stored(n)' = Stored(n)
        BY <2>2, <3>2 DEF Joined
      <4> QED
        BY <1>1, <2>1, <3>2, <4>1, OthersUseful DEF Joining
    <3> QED
      BY <3>1, <3>2
  <2>4. ASSUME NEW t \in Nat, t = start[k], r.checked PROVE RightAt(k, r, t)'
    <3>1. RightAt(k, r, t) /\ t <= time
      BY <1>1, <2>1, <2>4 DEF ReadRight
    <3>2. n \in WrittenBy(h) => t < e
      <4>1. CASE fastCommit
        BY <1>1, <3>1, <4>1 DEF RightAt, Joins, Pending
      <4>2. CASE ~fastCommit
        BY <1>1, <3>1, <4>2 DEF Joins
      <4> QED
        BY <4>1, <4>2
    <3>3. e \in Nat /\ (n \in WrittenBy(h) => ~ (e <= t))
      BY <1>1, <3>2 DEF Joins
    <3>4. r.value = ValueAt(n, t)'
      <4>1. ValueAt(n, t)' = ValueAt(n, t)
        BY <1>1, <2>1, <2>2, <3>3, ValueBefore
      <4> QED
        BY <3>1, <4>1 DEF RightAt
    <3>5. \A g \in Handles : Pending(g)' /\ n \in WrittenBy(g)' => t < endTime'[g]
      BY <3>1 DEF RightAt, Joining
    <3>6. ASSUME HasJob(k)', NEW w \in WritersOf(n)', queue'[w].end <= t PROVE w < job'[k]
      <4>1. w \in WritersOf(n) /\ queue'[w].end = queue[w].end /\ w \in 1..Len(queue)
        BY <1>1, <2>2, <3>3, <3>6 DEF Joined, Joins, JobsTyped
      <4>2. HasJob(k) => w < job[k]
        BY <3>1, <3>6, <4>1 DEF RightAt
      <4>3. CASE k = h
        BY <1>1, <4>1, <4>2, <4>3 DEF Joins, HasJob, JobsTyped
      <4>4. CASE k # h
        BY <1>1, <3>6, <4>2, <4>4 DEF StepFacts, Alone, HasJob
      <4> QED
        BY <4>3, <4>4
    <3> QED
      BY <3>4, <3>5, <3>6 DEF RightAt
  <2>5. ReadRight(k, r)'
    BY <1>1, <2>4 DEF ReadRight
  <2> QED
    BY <2>1, <2>3, <2>5
<1> QED
  BY <1>1, <1>2, <1>3 DEF ReadsInv

(* A commit keeps what others have validated: it is before them, or wrote nothing
   they read. *)
LEMMA JoinValid ==
  ASSUME NEW h \in Handles, NEW j, NEW e, Joining(h, j, e), NEW k \in Handles
  PROVE  ReadsValid(k)'
<1> SUFFICES ASSUME pc'[k] = "validate", NEW r \in seen'[k], r.node \notin toCheck'[k]
             PROVE  IF fastCommit'
                    THEN \A i, x \in Nat : i = job'[k] /\ x = endTime'[k] =>
                           Serial(r, i, x, Handles \ {k})'
                    ELSE r.value = Stored(r.node)'
  BY DEF ReadsValid
<1>1. k # h /\ Joins(h, j, e) /\ StepFacts(h) /\ pc[h] = "validate"
  BY DEF Joining, Joins
<1>2. /\ pc[k] = "validate" /\ seen'[k] = seen[k] /\ toCheck'[k] = toCheck[k]
      /\ job'[k] = job[k] /\ endTime'[k] = endTime[k] /\ fastCommit' = fastCommit
  BY <1>1 DEF StepFacts, Alone
<1>3. fastCommit
  BY <1>1, <1>2, OneValidates DEF Joining
<1>4. r \in seen[k] /\ ReadsValid(k) /\ ReadsInv(k) /\ r \in AllReads(k)
  BY <1>2 DEF Joining, SerialInv, HandleInv, ReadsInv, AllReads
<1>5. r.node \in Nodes
  BY <1>4 DEF ReadsInv, Read
<1>6. ASSUME NEW i \in Nat, NEW x \in Nat, i = job'[k], x = endTime'[k]
      PROVE  Serial(r, i, x, Handles \ {k})'
  <2>1. Serial(r, i, x, Handles \ {k})
    BY <1>2, <1>3, <1>4, <1>6 DEF ReadsValid
  <2>2. Serial(r, i, x, (Handles \ {k}) \ {h})
    BY <2>1 DEF Serial
  <2>3. r.node \in WrittenBy(h) => x <= e /\ i <= j
    <3>1. Pending(h) /\ e = endTime[h] /\ j = job[h] /\ e \in Nat /\ j \in Nat
      BY <1>1, <1>3 DEF Pending, Joins
    <3>2. r.node \in WrittenBy(h) => x < e /\ i < j
      BY <1>1, <2>1, <3>1 DEF Serial
    <3> QED
      BY <3>1, <3>2
  <2> QED
    BY <1>5, <2>2, <2>3, JoinSerial
<1> QED
  BY <1>2, <1>3, <1>6

(* A commit is serialisable at its place, and so stays everything before it. *)
LEMMA JoinJobs ==
  ASSUME NEW h \in Handles, NEW j, NEW e, Joining(h, j, e), NEW i \in DOMAIN queue'
  PROVE  ReadsSerial(i)'
<1> SUFFICES ASSUME queue'[i].state = "committed", NEW r \in queue'[i].reads,
                    NEW x \in Nat, x = queue'[i].end
             PROVE  Serial(r, i, x, Handles)'
  BY DEF ReadsSerial
<1>1. /\ Joins(h, j, e) /\ JobsTyped /\ JobsTyped' /\ i \in Nat /\ j \in Nat /\ e \in Nat
      /\ time \in Nat
  <2>1. Joins(h, j, e) /\ JobsTyped /\ JobsTyped' /\ j \in Nat /\ e \in Nat /\ StepFacts(h)
    BY DEF Joining, Joins
  <2>2. i \in Nat
    BY <2>1 DEF JobsTyped
  <2> QED
    BY <2>1, <2>2 DEF StepFacts
<1>2. CASE i # j
  <2>1. i \in DOMAIN queue /\ queue'[i] = queue[i] /\ queue[i] \in Job
    BY <1>1, <1>2 DEF Joins, JobsTyped
  <2>2. Serial(r, i, x, Handles) /\ x <= time /\ r.node \in Nodes /\ i <= Len(queue)
    BY <1>1, <2>1 DEF Joining, SerialInv, JobDecided, ReadsSerial, Job, Read, JobsTyped
  <2>3. Serial(r, i, x, Handles \ {h})
    BY <2>2 DEF Serial
  <2>4. r.node \in WrittenBy(h) => x <= e /\ i <= j
    <3>1. CASE fastCommit
      <4>1. Pending(h) /\ e = endTime[h] /\ j = job[h] /\ pc[h] = "validate"
        BY <1>1, <3>1 DEF Pending, Joins
      <4>2. r.node \in WrittenBy(h) => x < e /\ i < j
        BY <2>2, <4>1 DEF Serial
      <4> QED
        BY <1>1, <4>2
    <3>2. CASE ~fastCommit
      BY <1>1, <2>2, <3>2 DEF Joins, JobsTyped
    <3> QED
      BY <3>1, <3>2
  <2> QED
    BY <1>1, <2>2, <2>3, <2>4, JoinSerial
<1>3. CASE i = j
  <2>1. r \in seen[h] /\ x = e /\ r.node \notin toCheck[h] /\ pc[h] = "validate"
    BY <1>1, <1>3 DEF Joins
  <2>2. ReadsValid(h) /\ ReadsInv(h) /\ r \in AllReads(h)
    BY <2>1 DEF Joining, SerialInv, HandleInv, ReadsInv, AllReads
  <2>3. r.node \in Nodes
    BY <2>2 DEF ReadsInv, Read
  <2>4. Serial(r, i, x, Handles \ {h})
    <3>1. CASE fastCommit
      BY <1>1, <1>3, <2>1, <2>2, <3>1 DEF ReadsValid, Joins
    <3>2. CASE ~fastCommit
      <4>1. e = time + 2 /\ j = Len(queue) + 1
        BY <1>1, <3>2 DEF Joins
      <4>2. r.value = ValueAt(r.node, x - 1)
        <5>1. r.value = Stored(r.node) /\ LastStored(r.node)
          BY <2>1, <2>2, <2>3, <3>2 DEF ReadsValid, Joining, SerialInv
        <5>2. x - 1 \in Nat /\ x - 1 >= time
          BY <1>1, <2>1, <4>1
        <5> QED
          BY <5>1, <5>2 DEF LastStored
      <4>3. ASSUME NEW k \in WritersOf(r.node) PROVE queue[k].end < x /\ k < i
        <5>1. k \in 1..Len(queue) /\ queue[k].end <= time /\ queue[k].end \in Nat
              /\ Len(queue) \in Nat
          BY <1>1 DEF WritersOf, JobsTyped, Joining, SerialInv, JobDecided
        <5> QED
          BY <1>1, <1>3, <2>1, <4>1, <5>1
      <4>4. \A g \in Handles : ~Pending(g)
        BY <3>2 DEF Pending
      <4> QED
        BY <4>2, <4>3, <4>4 DEF Serial
    <3> QED
      BY <3>1, <3>2
  <2> QED
    BY <1>1, <1>3, <2>1, <2>3, <2>4, JoinSerial
<1> QED
  BY <1>2, <1>3

-----------------------------------------------------------------------------
(* Putting it together *)

(* The parts of the invariant the lemmas above speak of. *)
LEMMA SerialParts ==
  ASSUME SerialInv
  PROVE  AtomicityInv /\ JobsInv /\ ClockInv
  BY DEF SerialInv, HandleInv, JobsInv, ClockInv

(* And back. *)
LEMMA PartsSerial ==
  ASSUME AtomicityInv', JobsInv', ClockInv',
         \A k \in Handles : ReadsInv(k)' /\ ReadsValid(k)',
         \A i \in DOMAIN queue' : ReadsSerial(i)',
         \A n \in Nodes : BelowLock(n)' /\ LastStored(n)' /\ InOrder(n)'
  PROVE  SerialInv'
<1>1. \A k \in Handles : HandleInv(k)'
  BY DEF HandleInv, JobsInv, ClockInv, ReadsInv
<1>2. \A i \in DOMAIN queue' : JobDecided(i)'
  BY DEF JobsInv
<1> QED
  BY <1>1, <1>2 DEF SerialInv

(* A step that commits nothing leaves the history and the store alone. *)
LEMMA FrameHolds ==
  ASSUME SerialInv, NEW h \in Handles, Step(h), ~Validated(h)
  PROVE  JobsInv' /\ Frame(h)
<1>1. AtomicityInv /\ JobsInv /\ ClockInv /\ ClockFits(h)
  BY SerialParts DEF ClockInv
<1>2. StepFacts(h) /\ StoreLooks /\ \A g \in Handles : Claims(g)
  BY <1>1, StepHas, StoreStays, ClaimsStep
<1>3. \A n \in Nodes : InOrder(n)
  BY DEF SerialInv
<1>4. JobsInv' /\ HistoryStays
  <2>1. TypeOK /\ TypeOK' /\ Alone(h) /\ fastCommit' = fastCommit /\ time <= time'
    BY <1>2 DEF StepFacts
  <2>2. CASE LinkStep(h)
    BY <1>1, <2>2, LinkStepJobs
  <2>3. CASE SetStep(h)
    BY <1>1, <2>3, SetStepJobs
  <2>4. CASE Quiet(h)
    BY <1>1, <2>1, <2>4, QuietJobs DEF Quiet
  <2> QED
    BY <2>1, <2>2, <2>3, <2>4, QueueKinds
<1> QED
  BY <1>2, <1>3, <1>4 DEF Frame

(* Steps that commit nothing keep the invariant ... *)
LEMMA QuietSerial ==
  ASSUME SerialInv, NEW h \in Handles, Step(h), ~Validated(h)
  PROVE  SerialInv'
<1>1. AtomicityInv /\ JobsInv /\ ClockInv
  BY SerialParts
<1>2. AtomicityInv' /\ ClockInv' /\ JobsInv' /\ Frame(h)
  BY <1>1, NextAtomicityStep, ClockStep, FrameHolds
<1>3. ASSUME NEW k \in Handles PROVE ReadsInv(k)' /\ ReadsValid(k)'
  <2>1. ReadsInv(k)'
    <3>1. CASE k = h /\ ReadsNew(h)
      BY <1>2, <3>1, NewReads
    <3>2. CASE k = h /\ ~ReadsNew(h)
      BY <1>2, <3>2, OwnReads
    <3>3. CASE k # h
      BY <1>2, <3>3, OthersReads
    <3> QED
      BY <3>1, <3>2, <3>3
  <2> QED
    BY <1>2, <2>1, ValidStays
<1>4. ASSUME NEW i \in DOMAIN queue' PROVE ReadsSerial(i)'
  BY <1>2, SerialJobsStay
<1>5. ASSUME NEW n \in Nodes PROVE BelowLock(n)' /\ LastStored(n)' /\ InOrder(n)'
  <2>1. BelowLock(n) /\ LastStored(n)
    BY DEF SerialInv
  <2> QED
    BY <1>1, <1>2, <2>1, BelowStays, StoredStays
<1> QED
  BY <1>2, <1>3, <1>4, <1>5, PartsSerial

(* ... and so does a commit. *)
LEMMA ValidatedSerial ==
  ASSUME SerialInv, NEW h \in Handles, Step(h), Validated(h)
  PROVE  SerialInv'
<1>1. AtomicityInv /\ JobsInv /\ ClockInv
  BY SerialParts
<1>2. AtomicityInv' /\ ClockInv'
  BY <1>1, NextAtomicityStep, ClockStep
<1>3. PICK j, e : JobsInv' /\ Joins(h, j, e)
  BY <1>1, ValidatedJobs
<1>4. Joining(h, j, e)
  BY <1>3, JoiningHolds
<1>5. ASSUME NEW k \in Handles PROVE ReadsInv(k)' /\ ReadsValid(k)'
  BY <1>4, JoinReads, JoinValid
<1>6. ASSUME NEW i \in DOMAIN queue' PROVE ReadsSerial(i)'
  BY <1>4, JoinJobs
<1>7. ASSUME NEW n \in Nodes PROVE BelowLock(n)' /\ LastStored(n)' /\ InOrder(n)'
  BY <1>4, JoinBelow, JoinOrder
<1> QED
  BY <1>2, <1>3, <1>5, <1>6, <1>7, PartsSerial

(* Nothing happens. *)
LEMMA StutterSerial ==
  ASSUME SerialInv, UNCHANGED vars
  PROVE  SerialInv'
<1>1. /\ UNCHANGED <<fastCommit, time, lock, mem, queue, mutex, pc, start, readSet, acquired>>
      /\ UNCHANGED <<log, nested, access, toCheck, endTime, job, seen>>
  BY DEF vars, shared, private
<1>2. AtomicityInv /\ JobsInv /\ ClockInv
  BY SerialParts
<1>3. AtomicityInv'
  BY <1>2, NextAtomicity
<1>4. JobsInv' /\ HistoryStays
  <2>1. JobsTyped /\ JobsTyped'
    BY <1>2, <1>3, JobFacts, JobFactsNext DEF AtomicityInv, LockInv, TypeInv
  <2>2. HistoryStays
    BY <1>1, <2>1 DEF HistoryStays, RedoOf
  <2>3. JobsInv'
    BY <1>1, <1>2 DEF JobsInv, JobOwned, JobDecided, HasJob
  <2> QED
    BY <2>2, <2>3
<1>5. ClockInv'
  BY <1>1, <1>2 DEF ClockInv, ClockFits, EndTaken
<1>6. StoreLooks
  BY <1>1, StoreQuiet DEF Undoable
<1>7. ASSUME NEW n \in Nodes
      PROVE  /\ WritersOf(n)' = WritersOf(n) /\ Stored(n)' = Stored(n)
             /\ \A t : ValueAt(n, t)' = ValueAt(n, t)
  <2>1. InOrder(n)
    BY DEF SerialInv
  <2> QED
    BY <1>4, <1>6, <2>1, WritersStay, ValuesStay DEF StoreLooks
<1>8. ASSUME NEW g \in Handles
      PROVE  Pending(g)' = Pending(g) /\ WrittenBy(g)' = WrittenBy(g) /\ HasJob(g)' = HasJob(g)
  BY <1>1 DEF Pending, WrittenBy, HasJob
<1>9. ASSUME NEW n \in Nodes PROVE BelowLock(n)' /\ LastStored(n)' /\ InOrder(n)'
  <2>1. BelowLock(n) /\ LastStored(n) /\ InOrder(n)
    BY DEF SerialInv
  <2> QED
    BY <1>1, <1>7, <2>1 DEF BelowLock, LastStored, InOrder, IsVersion, HasJob
<1>10. ASSUME NEW r, r.node \in Nodes, NEW i, NEW e, NEW others, others \subseteq Handles,
              Serial(r, i, e, others)
       PROVE  Serial(r, i, e, others)'
  BY <1>1, <1>7, <1>8, <1>10 DEF Serial
<1>11. ASSUME NEW k \in Handles PROVE ReadsInv(k)' /\ ReadsValid(k)'
  <2>1. ReadsInv(k) /\ ReadsValid(k)
    BY DEF SerialInv, HandleInv, ReadsInv
  <2>2. AllReads(k)' = AllReads(k)
    BY <1>1 DEF AllReads
  <2>3. ASSUME NEW r \in AllReads(k) PROVE r \in Read /\ ReadRight(k, r)' /\ ReadUseful(k, r)'
    <3>1. r \in Read /\ r.node \in Nodes /\ ReadRight(k, r) /\ ReadUseful(k, r)
      BY <2>1 DEF ReadsInv, Read
    <3>2. ReadRight(k, r)'
      BY <1>1, <1>7, <1>8, <3>1 DEF ReadRight, RightAt
    <3>3. ReadUseful(k, r)'
      BY <1>1, <1>7, <3>1 DEF ReadUseful, Open, Current, IsVersion, EndTaken
    <3> QED
      BY <3>1, <3>2, <3>3
  <2>4. ReadsListed(k)'
    BY <1>1, <2>1 DEF ReadsInv, ReadsListed
  <2>5. ASSUME pc'[k] = "validate", NEW r \in seen'[k], r.node \notin toCheck'[k]
        PROVE  IF fastCommit'
               THEN \A i, e \in Nat : i = job'[k] /\ e = endTime'[k] =>
                      Serial(r, i, e, Handles \ {k})'
               ELSE r.value = Stored(r.node)'
    <3>1. r \in AllReads(k) /\ r.node \in Nodes
      BY <1>1, <2>1, <2>5 DEF AllReads, ReadsInv, Read
    <3>2. /\ pc[k] = "validate" /\ r \in seen[k] /\ r.node \notin toCheck[k]
          /\ job'[k] = job[k] /\ endTime'[k] = endTime[k]
      BY <1>1, <2>5
    <3> QED
      BY <1>1, <1>7, <1>10, <2>1, <3>1, <3>2 DEF ReadsValid
  <2>6. ReadsValid(k)'
    BY <2>5 DEF ReadsValid
  <2> QED
    BY <1>1, <2>1, <2>2, <2>3, <2>4, <2>6 DEF ReadsInv
<1>12. ASSUME NEW i \in DOMAIN queue' PROVE ReadsSerial(i)'
  <2>1. i \in DOMAIN queue /\ queue'[i] = queue[i] /\ ReadsSerial(i) /\ queue[i] \in Job
    BY <1>1, <1>4 DEF SerialInv, HistoryStays, JobsTyped
  <2>2. \A r \in queue[i].reads : r.node \in Nodes
    BY <2>1 DEF Job, Read
  <2> QED
    BY <1>10, <2>1, <2>2 DEF ReadsSerial
<1> QED
  BY <1>3, <1>4, <1>5, <1>9, <1>11, <1>12, PartsSerial

(* SerialInv is inductive. *)
LEMMA NextSerial == SerialInv /\ [Next]_vars => SerialInv'
<1> SUFFICES ASSUME SerialInv, [Next]_vars PROVE SerialInv'
  OBVIOUS
<1>1. ASSUME NEW h \in Handles, Step(h) PROVE SerialInv'
  BY <1>1, QuietSerial, ValidatedSerial
<1>2. CASE UNCHANGED vars
  BY <1>2, StutterSerial
<1> QED
  BY <1>1, <1>2 DEF Next, Step, Quiescent

(* A database is opened with no history. *)
LEMMA InitSerial == Init => SerialInv
<1> SUFFICES ASSUME Init PROVE SerialInv
  OBVIOUS
<1>1. AtomicityInv
  BY InitAtomicity
<1>2. DOMAIN queue = {} /\ JobsTyped
  <2>1. TypeOK /\ queue = <<>>
    BY <1>1 DEF AtomicityInv, LockInv, TypeInv, Init
  <2> QED
    BY <2>1, JobFacts
<1>3. \A n : WritersOf(n) = {}
  BY <1>2 DEF WritersOf
<1>4. ASSUME NEW n \in Nodes PROVE BelowLock(n) /\ LastStored(n) /\ InOrder(n)
  <2>1. Stored(n) = InitValue
    <3>1. Writers(n) = {}
      BY DEF Init, Writers, WrittenBy
    <3> QED
      BY <3>1, StoredFacts DEF StoredIs, Init
  <2>2. \A t : ValueAt(n, t) = InitValue
    BY <1>2, <1>3, ValueFacts DEF ValueIs
  <2> QED
    BY <1>3, <2>1, <2>2 DEF BelowLock, LastStored, InOrder
<1>5. ASSUME NEW k \in Handles PROVE HandleInv(k)
  <2>1. pc[k] = "idle" /\ seen[k] = {} /\ nested[k] = <<>>
    BY DEF Init
  <2>2. AllReads(k) = {}
    BY <2>1 DEF AllReads
  <2>3. JobOwned(k) /\ ClockFits(k) /\ ReadsListed(k) /\ ReadsValid(k)
    BY <2>1 DEF JobOwned, HasJob, ClockFits, EndTaken, ReadsListed, ReadsValid
  <2> QED
    BY <2>2, <2>3 DEF HandleInv
<1> QED
  BY <1>1, <1>2, <1>4, <1>5 DEF SerialInv

(* It holds always. *)
LEMMA AlwaysSerial == Spec => []SerialInv
  BY InitSerial, NextSerial, PTL DEF Spec

(* For every set of handles, objects and values, every bound and both commit
   paths: a job the service thread may write is decided, and any other has a
   handle that will decide it. *)
THEOREM JobsAreDecided == Spec => []ReadyIsDecided
<1>1. SerialInv => ReadyIsDecided
  <2> SUFFICES ASSUME SerialInv, NEW i \in DOMAIN queue
               PROVE  IF queue[i].ready THEN queue[i].state # "pending"
                      ELSE \E h \in Handles : /\ job[h] = i
                                              /\ pc[h] \in {"validate", "unlockCommit"}
    BY DEF ReadyIsDecided
  <2>1. TypeOK /\ JobsInv
    BY SerialParts DEF AtomicityInv, LockInv, TypeInv
  <2>2. CASE queue[i].ready
    BY <2>1, <2>2 DEF JobsInv, JobDecided
  <2>3. CASE ~queue[i].ready
    BY <2>1, <2>3, UnreadyJob DEF HasJob
  <2> QED
    BY <2>2, <2>3
<1> QED
  BY <1>1, AlwaysSerial, PTL

(* Opacity, for every instance: whatever trRead has returned to a transaction,
   committed or not, is the value committed last when the transaction began. *)
THEOREM OneSnapshot == Spec => []SnapshotReads
<1>1. SerialInv => SnapshotReads
  <2> SUFFICES ASSUME SerialInv, NEW h \in Handles, NEW r \in seen[h], r.checked
               PROVE  r.value = ValueAt(r.node, start[h])
    BY DEF SnapshotReads
  <2>1. r \in AllReads(h) /\ HandleInv(h) /\ start[h] \in Nat
    BY DEF AllReads, SerialInv, AtomicityInv, LockInv, TypeInv, TypeOK
  <2> QED
    BY <2>1 DEF HandleInv, ReadRight, RightAt
<1> QED
  BY <1>1, AlwaysSerial, PTL

(* Serialisability in the order of the clock, for every instance and both commit
   paths: every committed transaction has read what the committed transactions
   with smaller end times had left. *)
THEOREM SerialByClock == Spec => []SerialClock
<1>1. SerialInv => SerialClock
  <2> SUFFICES ASSUME SerialInv, NEW i \in DOMAIN queue, queue[i].state = "committed",
                      NEW r \in queue[i].reads
               PROVE  r.value = ValueAt(r.node, queue[i].end - 1)
    BY DEF SerialClock
  <2>1. ReadsSerial(i) /\ queue[i].end \in Nat
    BY JobFacts DEF SerialInv, AtomicityInv, LockInv, TypeInv, JobsTyped
  <2> QED
    BY <2>1 DEF ReadsSerial, Serial
<1> QED
  BY <1>1, AlwaysSerial, PTL

-----------------------------------------------------------------------------
(* Replaying the queue *)

(* What the committed jobs among the first k leave in n. *)
LeftBy(k, n) ==
  LET W == {i \in WritersOf(n) : i <= k}
  IN  IF W = {} THEN InitValue ELSE Left(CHOOSE i \in W : \A l \in W : l <= i, n)

(* What replaying job i does to a store. *)
Replayed(i, store) ==
  IF queue[i].state # "committed" THEN store
  ELSE [n \in Nodes |-> Outcome(Redo(queue[i]), n, store[n])]

Before(k) == [n \in Nodes |-> LeftBy(k, n)]

(* The last writer of n among the first k is the one that counts. *)
LEMMA LeftByLast ==
  ASSUME NEW k \in Nat, NEW n, WritersOf(n) \subseteq Nat, NEW i \in WritersOf(n), i <= k,
         \A l \in WritersOf(n) : l <= k => l <= i
  PROVE  LeftBy(k, n) = Left(i, n)
<1> DEFINE W == {x \in WritersOf(n) : x <= k}
<1>1. i \in W /\ W \subseteq Nat /\ \A x \in W : x <= i
  OBVIOUS
<1>2. (CHOOSE x \in W : \A l \in W : l <= x) = i
  <2> HIDE DEF W
  <2>1. \A x \in W : (\A l \in W : l <= x) => x = i
    BY <1>1
  <2> QED
    BY <1>1, <2>1
<1> QED
  BY <1>1, <1>2 DEF LeftBy

(* One job more is replayed. *)
LEMMA LeftByStep ==
  ASSUME JobsTyped, NEW i \in 1..Len(queue)
  PROVE  Before(i) = Replayed(i, Before(i - 1))
<1>1. i \in Nat /\ i - 1 \in Nat /\ i \in DOMAIN queue
  BY DEF JobsTyped
<1>2. ASSUME NEW n \in Nodes, i \notin WritersOf(n)
      PROVE  /\ LeftBy(i, n) = LeftBy(i - 1, n)
             /\ queue[i].state = "committed" =>
                  \A v : Outcome(Redo(queue[i]), n, v) = v
  <2> DEFINE W(k) == {x \in WritersOf(n) : x <= k}
  <2>1. W(i) = W(i - 1)
    <3>1. \A x \in WritersOf(n) : x \in Nat
      BY DEF WritersOf, JobsTyped
    <3> QED
      BY <1>1, <1>2, <3>1
  <2>2. queue[i].state = "committed" =>
          {x \in DOMAIN Redo(queue[i]) : Redo(queue[i])[x].node = n} = {}
    BY <1>1, <1>2 DEF WritersOf
  <2>3. LeftBy(i, n) = LeftBy(i - 1, n)
    <3>1. \A k : LeftBy(k, n) = IF W(k) = {} THEN InitValue
                              ELSE Left(CHOOSE x \in W(k) : \A l \in W(k) : l <= x, n)
      BY DEF LeftBy
    <3> HIDE DEF W
    <3> QED
      BY <2>1, <3>1
  <2>4. queue[i].state = "committed" => \A v : Outcome(Redo(queue[i]), n, v) = v
    BY <2>2 DEF Outcome
  <2> QED
    BY <2>3, <2>4
<1>3. ASSUME NEW n \in Nodes, i \in WritersOf(n)
      PROVE  queue[i].state = "committed" /\ \A v : LeftBy(i, n) = Outcome(Redo(queue[i]), n, v)
  <2>1. WritersOf(n) \subseteq Nat /\ i <= i
    BY <1>1 DEF WritersOf, JobsTyped
  <2>4. LeftBy(i, n) = Left(i, n)
    BY <1>1, <1>3, <2>1, LeftByLast
  <2>5. queue[i].state = "committed" /\ {x \in DOMAIN Redo(queue[i]) : Redo(queue[i])[x].node = n} # {}
    BY <1>3 DEF WritersOf
  <2> QED
    BY <2>4, <2>5 DEF Left, RedoOf, Redo, Outcome
<1>4. ASSUME NEW n \in Nodes
      PROVE  Before(i)[n] = Replayed(i, Before(i - 1))[n]
  <2>1. CASE i \in WritersOf(n)
    BY <1>3, <2>1 DEF Before, Replayed
  <2>2. CASE i \notin WritersOf(n)
    BY <1>2, <2>2 DEF Before, Replayed
  <2> QED
    BY <2>1, <2>2
<1> QED
  BY <1>4 DEF Before, Replayed

(* Before the first job there are the initial values. *)
LEMMA LeftByStart == JobsTyped => Before(0) = [n \in Nodes |-> InitValue]
<1> SUFFICES ASSUME JobsTyped, NEW n \in Nodes PROVE LeftBy(0, n) = InitValue
  BY DEF Before
<1>1. \A i \in WritersOf(n) : i \in 1..Len(queue) /\ Len(queue) \in Nat
  BY DEF WritersOf, JobsTyped
<1>2. {i \in WritersOf(n) : i <= 0} = {}
  BY <1>1
<1> QED
  BY <1>2 DEF LeftBy

(* f is the replay of the first k jobs. *)
Replays(f, k) ==
  f = [i \in 0..k |->
         IF i = 0 THEN [n \in Nodes |-> InitValue]
         ELSE IF queue[i].state # "committed" THEN f[i - 1]
         ELSE [n \in Nodes |-> Outcome(Redo(queue[i]), n, f[i - 1][n])]]

(* ReplayOf is the last writer in queue order: by the first job where it would not be. *)
LEMMA ReplayIs ==
  ASSUME JobsTyped, NEW k \in 0..Len(queue)
  PROVE  ReplayOf(k) = Before(k)
<1>1. k \in Nat /\ Len(queue) \in Nat
  BY DEF JobsTyped
<1>2. ReplayOf(k) = (CHOOSE f : Replays(f, k))[k]
  BY DEF ReplayOf, Replays
<1>3. Replays([i \in 0..k |-> Before(i)], k)
  <2> DEFINE g == [i \in 0..k |-> Before(i)]
  <2>1. ASSUME NEW i \in 0..k, i # 0
        PROVE  Before(i) = IF queue[i].state # "committed" THEN g[i - 1]
                           ELSE [n \in Nodes |-> Outcome(Redo(queue[i]), n, g[i - 1][n])]
    <3>1. i \in 1..Len(queue) /\ i - 1 \in 0..k
      BY <1>1, <2>1
    <3>2. g[i - 1] = Before(i - 1)
      BY <3>1
    <3> HIDE DEF g
    <3> QED
      BY <3>1, <3>2, LeftByStep DEF Replayed
  <2> QED
    BY <2>1, LeftByStart DEF Replays
<1>4. PICK f : Replays(f, k) /\ ReplayOf(k) = f[k]
  BY <1>2, <1>3
<1>5. \A i \in 0..k : f[i] = Before(i)
  <2> DEFINE bad == {i \in 0..k : f[i] # Before(i)}
  <2>1. SUFFICES ASSUME bad # {} PROVE FALSE
    OBVIOUS
  <2>2. bad \subseteq Nat
    BY <1>1
  <2>3. PICK i \in bad : \A l \in bad : i <= l
    BY <2>1, <2>2, FirstExists
  <2>4. i \in 0..k /\ f[i] # Before(i) /\ i \in Nat
    BY <2>2
  <2>5. CASE i = 0
    <3>1. f[i] = [n \in Nodes |-> InitValue]
      BY <1>4, <2>4, <2>5 DEF Replays
    <3> QED
      BY <2>4, <2>5, <3>1, LeftByStart
  <2>6. CASE i # 0
    <3>1. i \in 1..Len(queue) /\ i - 1 \in 0..k /\ ~ (i <= i - 1)
      BY <1>1, <2>4, <2>6
    <3>2. f[i - 1] = Before(i - 1)
      BY <2>3, <3>1
    <3>3. f[i] = Replayed(i, f[i - 1])
      BY <1>4, <2>4, <2>6 DEF Replays, Replayed
    <3> QED
      BY <2>4, <3>1, <3>2, <3>3, LeftByStep
  <2> QED
    BY <2>5, <2>6
<1> QED
  BY <1>1, <1>4, <1>5

(* Replaying the whole queue gives what is stored. *)
LEMMA AllReplayed ==
  ASSUME SerialInv, NEW n \in Nodes
  PROVE  Committed[n] = Stored(n)
<1>1. JobsTyped /\ time \in Nat /\ InOrder(n) /\ LastStored(n) /\ \A i \in DOMAIN queue : JobDecided(i)
  BY JobFacts DEF SerialInv, AtomicityInv, LockInv, TypeInv, TypeOK
<1> DEFINE k == Len(queue)
<1>2. k \in Nat /\ k \in 0..k
  BY <1>1 DEF JobsTyped
<1>3. Committed[n] = LeftBy(k, n)
  BY <1>1, <1>2, ReplayIs DEF Committed, Before
<1>4. Stored(n) = ValueAt(n, time)
  BY <1>1 DEF LastStored
<1>5. \A i \in WritersOf(n) : /\ i \in DOMAIN queue /\ i <= k /\ i \in Nat /\ queue[i].end \in Nat
                              /\ queue[i].end <= time
  BY <1>1 DEF WritersOf, JobsTyped, JobDecided
<1>6. CASE WritersOf(n) = {}
  <2>1. LeftBy(k, n) = InitValue
    BY <1>6 DEF LeftBy
  <2>2. ValueAt(n, time) = InitValue
    BY <1>1, <1>6, ValueFacts DEF ValueIs
  <2> QED
    BY <1>3, <1>4, <2>1, <2>2
<1>7. CASE WritersOf(n) # {}
  <2>1. PICK i : IsLast(i, n, time)
    BY <1>1, <1>5, <1>7, LastWriterExists
  <2>2. ValueAt(n, time) = Left(i, n)
    BY <1>1, <2>1, ValueFacts DEF ValueIs
  <2>3. \A l \in WritersOf(n) : l <= i
    <3> SUFFICES ASSUME NEW l \in WritersOf(n), ~ (l <= i) PROVE FALSE
      OBVIOUS
    <3>1. i \in WritersOf(n) /\ i < l
      BY <1>5, <2>1 DEF IsLast
    <3>2. queue[i].end < queue[l].end /\ queue[l].end < queue[i].end
      BY <1>1, <1>5, <2>1, <3>1 DEF InOrder, IsLast
    <3> QED
      BY <1>5, <3>1, <3>2
  <2>4. LeftBy(k, n) = Left(i, n)
    <3>1. i \in WritersOf(n) /\ i <= k /\ WritersOf(n) \subseteq Nat
      BY <1>5, <2>1 DEF IsLast
    <3> HIDE DEF k
    <3> QED
      BY <1>2, <2>3, <3>1, LeftByLast
  <2> QED
    BY <1>3, <1>4, <2>2, <2>4
<1> QED
  BY <1>6, <1>7

(* What a committed transaction read is what the jobs before it leave. *)
LEMMA ReadReplayed ==
  ASSUME SerialInv, NEW i \in DOMAIN queue, queue[i].state = "committed",
         NEW r \in queue[i].reads, r.checked \/ ~fastCommit
  PROVE  r.value = ReplayOf(i - 1)[r.node]
<1> DEFINE n == r.node
           t == queue[i].end - 1
<1>1. JobsTyped /\ \A l \in DOMAIN queue : JobDecided(l)
  BY JobFacts DEF SerialInv, AtomicityInv, LockInv, TypeInv, TypeOK
<1>2. n \in Nodes /\ i - 1 \in 0..Len(queue) /\ i \in Nat /\ queue[i].end \in Nat
  BY <1>1 DEF JobsTyped, Job, Read
<1>3. InOrder(n) /\ Serial(r, i, queue[i].end, Handles)
  BY <1>2 DEF SerialInv, ReadsSerial
<1>4. ReplayOf(i - 1)[n] = LeftBy(i - 1, n)
  BY <1>1, <1>2, ReplayIs DEF Before
<1>5. \A l \in WritersOf(n) : l \in Nat /\ queue[l].end \in Nat
  BY <1>1 DEF WritersOf, JobsTyped
<1>6. \A l \in WritersOf(n) : l <= i - 1 <=> queue[l].end <= t
  <2> SUFFICES ASSUME NEW l \in WritersOf(n) PROVE l <= i - 1 <=> queue[l].end <= t
    OBVIOUS
  <2>1. /\ l < i => queue[l].end < queue[i].end
        /\ queue[l].end < queue[i].end => l < i
    BY <1>3 DEF Serial
  <2>2. l \in Nat /\ queue[l].end \in Nat
    BY <1>5
  <2> QED
    BY <1>2, <2>1, <2>2
<1>7. CASE \A l \in WritersOf(n) : ~ (queue[l].end <= t)
  <2>1. ValueAt(n, t) = InitValue
    BY <1>1, <1>7, ValueFacts DEF ValueIs
  <2>2. {l \in WritersOf(n) : l <= i - 1} = {}
    BY <1>6, <1>7
  <2>3. LeftBy(i - 1, n) = InitValue
    BY <2>2 DEF LeftBy
  <2> QED
    BY <1>3, <1>4, <2>1, <2>3 DEF Serial
<1>8. ASSUME NEW w \in WritersOf(n), queue[w].end <= t PROVE r.value = ReplayOf(i - 1)[n]
  <2>1. PICK x : IsLast(x, n, t)
    BY <1>1, <1>3, <1>8, LastWriterExists
  <2>2. ValueAt(n, t) = Left(x, n)
    BY <1>1, <2>1, ValueFacts DEF ValueIs
  <2>3. x \in WritersOf(n) /\ x <= i - 1
    BY <1>6, <2>1 DEF IsLast
  <2>4. \A l \in WritersOf(n) : l <= i - 1 => l <= x
    <3> SUFFICES ASSUME NEW l \in WritersOf(n), l <= i - 1, ~ (l <= x) PROVE FALSE
      OBVIOUS
    <3>1. x < l /\ l # x
      BY <1>5, <2>3
    <3>2. queue[x].end < queue[l].end
      BY <1>3, <2>3, <3>1 DEF InOrder
    <3>3. queue[l].end < queue[x].end
      BY <1>6, <2>1, <3>1 DEF IsLast
    <3> QED
      BY <1>5, <2>3, <3>2, <3>3
  <2>5. LeftBy(i - 1, n) = Left(x, n)
    BY <1>2, <1>5, <2>3, <2>4, LeftByLast
  <2> QED
    BY <1>3, <1>4, <2>2, <2>5 DEF Serial
<1> QED
  BY <1>7, <1>8

(* Memory under a lock nobody holds is what has been committed, for every
   instance: what recovery rebuilds from a complete redo stream is the store. *)
THEOREM UnlockedIsCommitted == Spec => []CleanMemory
<1>1. SerialInv => CleanMemory
  <2> SUFFICES ASSUME SerialInv, NEW n \in Nodes, IsVersion(n) PROVE mem[n] = Committed[n]
    BY DEF CleanMemory
  <2>1. LockInv
    BY SerialParts DEF AtomicityInv
  <2>2. Writers(n) = {}
    BY <2>1 DEF LockInv, LockDiscipline, Writers, IsVersion
  <2> QED
    BY <2>2, StoredFacts, AllReplayed DEF StoredIs
<1> QED
  BY <1>1, AlwaysSerial, PTL

(* For every instance: at any moment of a transaction that is not yet committed,
   undoing its log would put the committed value back into whatever it has
   locked. *)
THEOREM UndoIsExact == Spec => []UndoRestores
<1>1. SerialInv => UndoRestores
  <2> SUFFICES ASSUME SerialInv, NEW h \in Handles, Undoable(h), NEW n \in acquired[h]
               PROVE  RolledBack(h, 0, n) = Committed[n]
    BY DEF UndoRestores
  <2>1. LockInv /\ n \in Nodes /\ lock[n] = h
    BY SerialParts DEF AtomicityInv, LockInv, TypeInv, TypeOK, LockDiscipline
  <2> QED
    BY <2>1, RolledBackIs, StoredFacts, AllReplayed DEF StoredIs
<1> QED
  BY <1>1, AlwaysSerial, PTL

(* Serialisability in the order of the output queue, for every instance: every
   prefix of the redo stream, all a crash may leave, is the result of a serial
   run; with FAST_COMMIT as far as the reads were made with trRead. *)
THEOREM SerialByQueue == Spec => []SerialQueue
<1>1. SerialInv => SerialQueue
  <2> SUFFICES ASSUME SerialInv, NEW i \in DOMAIN queue, queue[i].state = "committed",
                      NEW r \in UnexplainedReads(i)
               PROVE  fastCommit /\ ~r.checked
    BY DEF SerialQueue
  <2>1. r \in queue[i].reads /\ r.value # ReplayOf(i - 1)[r.node]
    BY DEF UnexplainedReads
  <2>2. ~ (r.checked \/ ~fastCommit)
    BY <2>1, ReadReplayed
  <2> QED
    BY <2>2
<1> QED
  BY <1>1, AlwaysSerial, PTL
=============================================================================
