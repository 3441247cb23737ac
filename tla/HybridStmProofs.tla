--------------------------- MODULE HybridStmProofs ---------------------------
(***************************************************************************)
(* Theorems about HybridStm, for every set of handles, objects and values  *)
(* and every bound.  TypeInv is TypeOK made inductive; LockInv does the    *)
(* same for LockDiscipline.  HybridStm implements AtomicStore: the         *)
(* in-place writes, the log and the versioned locks of a transaction look  *)
(* like a buffer that a commit moves into the store in one step.  And      *)
(* nested transactions can be taken back one by one, at every depth: each  *)
(* savepoint stays true whatever this and the other transactions do, and   *)
(* the wish for a synchronous commit is taken back with them.              *)
(***************************************************************************)
EXTENDS HybridStm, SequenceTheorems, WellFoundedInduction, TLAPS

-----------------------------------------------------------------------------
(* Sequences *)

LEMMA FrontTop ==
  ASSUME NEW S, NEW s \in Seq(S), s # <<>>
  PROVE  /\ Top(s) \in S
         /\ Front(s) \in Seq(S)
         /\ Len(s) \in Nat \ {0}
         /\ Len(Front(s)) = Len(s) - 1
         /\ \A i \in 1..Len(s) - 1 : Front(s)[i] = s[i]
<1>1. Len(s) \in Nat \ {0}
  BY EmptySeq
<1>2. \A i \in 1..Len(s) - 1 : s[i] \in S
  BY <1>1, ElementOfSeq
<1>3. /\ SubSeq(s, 1, Len(s) - 1) \in Seq(S)
      /\ Len(SubSeq(s, 1, Len(s) - 1)) = Len(s) - 1
      /\ \A i \in 1..Len(s) - 1 : SubSeq(s, 1, Len(s) - 1)[i] = s[i]
  <2> DEFINE m == Len(s) - 1
  <2>1. m \in Nat
    BY <1>1
  <2> HIDE DEF m
  <2>2. \A i \in 1..m : s[i] \in S
    BY <1>2 DEF m
  <2>3. /\ SubSeq(s, 1, m) \in Seq(S)
        /\ Len(SubSeq(s, 1, m)) = IF 1 <= m THEN m - 1 + 1 ELSE 0
        /\ \A i \in 1..m - 1 + 1 : SubSeq(s, 1, m)[i] = s[1 + i - 1]
    BY <2>1, <2>2, SubSeqProperties
  <2>4. /\ SubSeq(s, 1, m) \in Seq(S)
        /\ Len(SubSeq(s, 1, m)) = m
        /\ \A i \in 1..m : SubSeq(s, 1, m)[i] = s[i]
    BY <2>1, <2>3
  <2>5. QED
    BY <2>4 DEF m
<1>4. s[Len(s)] \in S
  BY <1>1, ElementOfSeq
<1>5. QED
  BY <1>1, <1>3, <1>4 DEF Front, Top

-----------------------------------------------------------------------------
(* Types *)

(* TypeOK and what it takes to keep it: a handle in the middle of an access
   knows which, and only a nested transaction is rolled back to a savepoint. *)
TypeInv ==
  /\ TypeOK
  /\ \A h \in Handles :
       pc[h] \in {"check", "store", "copied", "storeCopied"} => access[h] \in Access
  /\ \A h \in Handles : pc[h] = "undoNested" => nested[h] # <<>>

LEMMA InitType == Init => TypeInv
  BY ConstAssumption, EmptySeq
  DEF Init, TypeInv, TypeOK, Locations, Free, NoEntry

LEMMA BeginType ==
  ASSUME TypeInv, NEW h \in Handles, Begin(h)
  PROVE  TypeInv'
<1>1. pc' = [pc EXCEPT ![h] = "run"]
  BY DEF Begin, Goto
<1>2. pc' \in [Handles -> Locations]
  <2>1. pc \in [Handles -> Locations]
    BY DEF TypeInv, TypeOK
  <2>2. "run" \in Locations
    BY DEF Locations
  <2>3. QED BY <1>1, <2>1, <2>2
<1>3. begun' \in Nat /\ start' \in [Handles -> Nat]
  BY DEF TypeInv, TypeOK, Begin
<1>4. TypeOK'
  BY <1>2, <1>3 DEF TypeInv, TypeOK, Begin
<1>5. QED
  BY <1>1, <1>4 DEF TypeInv, TypeOK, Begin

LEMMA NotedType ==
  ASSUME TypeOK, NEW h \in Handles, NEW n \in Nodes, NEW v \in Values,
         NEW checked \in BOOLEAN
  PROVE  Noted(h, n, v, checked) \in SUBSET Read
<1> DEFINE r == [node |-> n, value |-> v, checked |-> checked]
<1>1. r \in Read
  BY DEF Read
<1>2. seen[h] \in SUBSET Read
  BY DEF TypeOK
<1> HIDE DEF r
<1>3. seen[h] \cup {r} \in SUBSET Read
  BY <1>1, <1>2
<1>4. CASE n \in WrittenBy(h)
  BY <1>2, <1>4 DEF Noted
<1>5. CASE n \notin WrittenBy(h)
  BY <1>3, <1>5 DEF Noted, r
<1> QED BY <1>4, <1>5

LEMMA ReadType ==
  ASSUME TypeInv, NEW h \in Handles, NEW n \in Nodes,
         Load(h, n) \/ UncheckedRead(h, n)
  PROVE  TypeInv'
<1>1. CASE Load(h, n)
  BY <1>1 DEF TypeInv, TypeOK, Load, Goto, Locations, Access, shared
<1>2. CASE UncheckedRead(h, n)
  <2>1. mem[n] \in Values
    BY DEF TypeInv, TypeOK
  <2>2. Noted(h, n, mem[n], FALSE) \in SUBSET Read
    BY <2>1, NotedType DEF TypeInv
  <2>3. seen' \in [Handles -> SUBSET Read]
    BY <1>2, <2>2 DEF TypeInv, TypeOK, UncheckedRead
  <2>4. readSet' \in [Handles -> SUBSET Nodes]
    BY <1>2 DEF TypeInv, TypeOK, UncheckedRead
  <2>5. QED
    BY <1>2, <2>3, <2>4 DEF TypeInv, TypeOK, UncheckedRead, shared
<1> QED BY <1>1, <1>2

LEMMA BeginNestedType ==
  ASSUME TypeInv, NEW h \in Handles, BeginNested(h)
  PROVE  TypeInv'
<1> DEFINE view == [n \in acquired[h] |-> mem[n]]
           point == [readSet |-> readSet[h], pos |-> Len(log[h]),
                     commitType |-> commitType[h], seen |-> seen[h],
                     synced |-> synced[h], view |-> view]
<1>1. view \in UNION {[S -> Values] : S \in SUBSET Nodes}
  BY DEF TypeInv, TypeOK
<1>2. Len(log[h]) \in Nat
  BY LenProperties DEF TypeInv, TypeOK
<1>3. point \in Savepoint
  BY <1>1, <1>2 DEF Savepoint, TypeInv, TypeOK
<1>4. /\ nested[h] \in Seq(Savepoint)
      /\ Append(nested[h], point) \in Seq(Savepoint)
  BY <1>3 DEF TypeInv, TypeOK
<1>5. nested' = [nested EXCEPT ![h] = Append(nested[h], point)]
  BY DEF BeginNested
<1>6. pc' = pc /\ pc[h] = "run"
  BY DEF BeginNested
<1>7. nested' \in [Handles -> Seq(Savepoint)]
  BY <1>4, <1>5 DEF TypeInv, TypeOK
<1>8. synced' \in [Handles -> BOOLEAN]
  BY DEF TypeInv, TypeOK, BeginNested
<1>9. TypeOK'
  BY <1>7, <1>8 DEF TypeInv, TypeOK, BeginNested, shared
<1>10. \A k \in Handles : pc'[k] = "undoNested" => nested'[k] # <<>>
  BY <1>5, <1>6 DEF TypeInv, TypeOK
<1>11. QED
  BY <1>6, <1>9, <1>10 DEF TypeInv, BeginNested

LEMMA CheckType ==
  ASSUME TypeInv, NEW h \in Handles, Check(h)
  PROVE  TypeInv'
<1>1. access[h].node \in Nodes /\ access[h].value \in Values
  BY DEF TypeInv, Check, Access
<1>2. Noted(h, access[h].node, access[h].value, TRUE) \in SUBSET Read
  BY <1>1, NotedType DEF TypeInv
<1>3. seen' \in [Handles -> SUBSET Read]
  <2>1. seen \in [Handles -> SUBSET Read]
    BY DEF TypeInv, TypeOK
  <2>2. \/ seen' = [seen EXCEPT ![h] = Noted(h, access[h].node, access[h].value, TRUE)]
        \/ seen' = seen
    BY DEF Check
  <2>3. QED BY <1>2, <2>1, <2>2
<1>4. pc' \in [Handles -> Locations]
  <2>1. pc \in [Handles -> Locations]
    BY DEF TypeInv, TypeOK
  <2>2. {"run", "failed"} \subseteq Locations
    BY DEF Locations
  <2>3. PICK l \in {"run", "failed"} : pc' = [pc EXCEPT ![h] = l]
    BY DEF Check
  <2>4. QED BY <2>1, <2>2, <2>3
<1>5. access' \in [Handles -> Access \cup {NoEntry}]
  <2>1. access \in [Handles -> Access \cup {NoEntry}]
    BY DEF TypeInv, TypeOK
  <2>2. access' = [access EXCEPT ![h] = NoEntry]
    BY DEF Check
  <2>3. QED BY <2>1, <2>2
<1>6. TypeOK'
  BY <1>3, <1>4, <1>5 DEF TypeInv, TypeOK, Check, shared
<1>7. pc'[h] \in {"run", "failed"} /\ \A k \in Handles \ {h} : pc'[k] = pc[k]
  BY DEF TypeInv, TypeOK, Check
<1>8. \A k \in Handles \ {h} : access'[k] = access[k] /\ nested' = nested
  BY DEF TypeInv, TypeOK, Check
<1>9. QED
  BY <1>6, <1>7, <1>8 DEF TypeInv, Check

(* A step may change mem and log only as StoreLogged and UndoItem do. *)
LEMMA StoreLoggedType ==
  ASSUME TypeOK, NEW h \in Handles, access[h] \in Access, NEW old \in Values,
         StoreLogged(h, old)
  PROVE  mem' \in [Nodes -> Values] /\ log' \in [Handles -> Seq(LogItem)]
<1> DEFINE item == [node |-> access[h].node, old |-> old, new |-> access[h].value]
<1>1. item \in LogItem
  BY DEF LogItem, Access
<1>2. Append(log[h], item) \in Seq(LogItem)
  BY <1>1 DEF TypeOK
<1>3. log' = [log EXCEPT ![h] = Append(log[h], item)]
  BY DEF StoreLogged
<1>4. log' \in [Handles -> Seq(LogItem)]
  BY <1>2, <1>3 DEF TypeOK
<1>5. mem' \in [Nodes -> Values]
  BY DEF StoreLogged, TypeOK, Access
<1>6. QED BY <1>4, <1>5

LEMMA UtilLockType ==
  ASSUME TypeOK, NEW h \in Handles, NEW n \in Nodes, NEW next \in Locations,
         UtilLock(h, n, next)
  PROVE  /\ lock' \in [Nodes -> Nat \cup Handles]
         /\ acquired' \in [Handles -> SUBSET Nodes]
         /\ pc' \in [Handles -> Locations]
         /\ pc'[h] \in {next, "failed"}
         /\ \A k \in Handles \ {h} : pc'[k] = pc[k]
<1>1. PICK l \in {next, "failed"} : pc' = [pc EXCEPT ![h] = l]
  BY DEF UtilLock
<1>2. /\ pc' \in [Handles -> Locations]
      /\ pc'[h] \in {next, "failed"}
      /\ \A k \in Handles \ {h} : pc'[k] = pc[k]
  <2>1. pc \in [Handles -> Locations]
    BY DEF TypeOK
  <2>2. "failed" \in Locations
    BY DEF Locations
  <2>3. l \in Locations
    BY <2>2
  <2>4. QED BY <1>1, <2>1, <2>3
<1>3. lock' = [lock EXCEPT ![n] = h] \/ lock' = lock
  BY DEF UtilLock
<1>4. lock' \in [Nodes -> Nat \cup Handles]
  BY <1>3 DEF TypeOK
<1>5. acquired' = [acquired EXCEPT ![h] = acquired[h] \cup {n}] \/ acquired' = acquired
  BY DEF UtilLock
<1>6. acquired' \in [Handles -> SUBSET Nodes]
  <2>1. acquired \in [Handles -> SUBSET Nodes]
    BY DEF TypeOK
  <2>2. acquired[h] \cup {n} \in SUBSET Nodes
    BY <2>1
  <2>3. QED BY <1>5, <2>1, <2>2
<1> QED BY <1>2, <1>4, <1>6

LEMMA WriteType ==
  ASSUME TypeInv, NEW h \in Handles, NEW n \in Nodes, NEW v \in Values,
         LockForWrite(h, n, v) \/ CopyOld(h, n, v)
  PROVE  TypeInv'
<1>1. CASE LockForWrite(h, n, v)
  <2>1. /\ lock' \in [Nodes -> Nat \cup Handles]
        /\ acquired' \in [Handles -> SUBSET Nodes]
        /\ pc' \in [Handles -> Locations]
        /\ pc'[h] \in {"store", "failed"}
        /\ \A k \in Handles \ {h} : pc'[k] = pc[k]
    BY <1>1, UtilLockType DEF LockForWrite, TypeInv, Locations
  <2>2. /\ access' \in [Handles -> Access \cup {NoEntry}]
        /\ access'[h] \in Access
        /\ \A k \in Handles \ {h} : access'[k] = access[k]
    BY <1>1 DEF LockForWrite, TypeInv, TypeOK, Access
  <2>3. TypeOK'
    BY <1>1, <2>1, <2>2 DEF LockForWrite, TypeInv, TypeOK
  <2>4. QED
    BY <1>1, <2>1, <2>2, <2>3 DEF LockForWrite, TypeInv
<1>2. CASE CopyOld(h, n, v)
  BY <1>2 DEF CopyOld, Goto, TypeInv, TypeOK, Access, Locations, shared
<1> QED BY <1>1, <1>2

LEMMA StoreType ==
  ASSUME TypeInv, NEW h \in Handles,
         Store(h) \/ LockCopied(h) \/ StoreCopied(h)
  PROVE  TypeInv'
<1>1. CASE Store(h)
  <2>1. access[h] \in Access /\ mem[access[h].node] \in Values
    BY <1>1 DEF Store, Goto, TypeInv, TypeOK, Access
  <2>2. mem' \in [Nodes -> Values] /\ log' \in [Handles -> Seq(LogItem)]
    BY <1>1, <2>1, StoreLoggedType DEF Store, TypeInv
  <2>3. TypeOK'
    BY <1>1, <2>2 DEF Store, Goto, TypeInv, TypeOK, Locations
  <2>4. QED
    BY <1>1, <2>3 DEF Store, Goto, TypeInv, TypeOK
<1>2. CASE LockCopied(h)
  <2>1. access[h] \in Access /\ access[h].node \in Nodes
    BY <1>2 DEF LockCopied, TypeInv, TypeOK, Access
  <2>2. /\ lock' \in [Nodes -> Nat \cup Handles]
        /\ acquired' \in [Handles -> SUBSET Nodes]
        /\ pc' \in [Handles -> Locations]
        /\ pc'[h] \in {"storeCopied", "failed"}
        /\ \A k \in Handles \ {h} : pc'[k] = pc[k]
    BY <1>2, <2>1, UtilLockType DEF LockCopied, TypeInv, Locations
  <2>3. TypeOK'
    BY <1>2, <2>2 DEF LockCopied, TypeInv, TypeOK
  <2>4. QED
    BY <1>2, <2>1, <2>2, <2>3 DEF LockCopied, TypeInv
<1>3. CASE StoreCopied(h)
  <2>1. access[h] \in Access /\ access[h].old \in Values
    BY <1>3 DEF StoreCopied, Goto, TypeInv, TypeOK, Access
  <2>2. mem' \in [Nodes -> Values] /\ log' \in [Handles -> Seq(LogItem)]
    BY <1>3, <2>1, StoreLoggedType DEF StoreCopied, TypeInv
  <2>3. TypeOK'
    BY <1>3, <2>2 DEF StoreCopied, Goto, TypeInv, TypeOK, Locations
  <2>4. QED
    BY <1>3, <2>3 DEF StoreCopied, Goto, TypeInv, TypeOK
<1> QED BY <1>1, <1>2, <1>3

LEMMA TickType ==
  ASSUME TypeOK, NEW h \in Handles, Tick(h)
  PROVE  time' \in Nat /\ endTime' \in [Handles -> Nat]
<1>1. time + 2 \in Nat
  BY DEF TypeOK
<1>2. QED
  BY <1>1 DEF Tick, TypeOK

LEMMA CommitBeginType ==
  ASSUME TypeInv, NEW h \in Handles, NEW ct \in CommitTypes,
         \/ CommitNested(h, ct)
         \/ CommitReadOnly(h, ct)
         \/ CommitFast(h, ct)
         \/ CommitLocked(h, ct)
  PROVE  TypeInv'
<1>1. ct \in {"SYNC", "ASYNC", "FORCE_ASYNC"}
  BY ConstAssumption
<1>2. Effective(h, ct) \in {"SYNC", "ASYNC", "FORCE_ASYNC"}
  BY <1>1 DEF Effective, TypeInv, TypeOK
<1>3. CASE CommitNested(h, ct)
  <2>1. nested[h] \in Seq(Savepoint) /\ nested[h] # <<>>
    BY <1>3 DEF CommitNested, TypeInv, TypeOK
  <2>2. Front(nested[h]) \in Seq(Savepoint) /\ Top(nested[h]) \in Savepoint
    BY <2>1, FrontTop
  <2>3. nested' \in [Handles -> Seq(Savepoint)]
    BY <1>3, <2>2 DEF CommitNested, TypeInv, TypeOK
  <2>4. commitType' \in [Handles -> {"SYNC", "ASYNC"}]
    BY <1>1, <1>3 DEF CommitNested, TypeInv, TypeOK
  <2>5. synced' \in [Handles -> BOOLEAN]
    BY <1>3 DEF CommitNested, TypeInv, TypeOK
  <2>6. TypeOK'
    BY <1>3, <2>3, <2>4, <2>5 DEF CommitNested, TypeInv, TypeOK, shared
  <2>7. \A k \in Handles : pc'[k] = "undoNested" => nested'[k] # <<>>
    BY <1>3 DEF CommitNested, TypeInv, TypeOK
  <2>8. QED
    BY <1>3, <2>6, <2>7 DEF CommitNested, TypeInv
<1>4. CASE CommitReadOnly(h, ct)
  <2>1. time' \in Nat /\ endTime' \in [Handles -> Nat]
    BY <1>4, TickType DEF CommitReadOnly, TypeInv
  <2>2. want' \in [Handles -> {"SYNC", "ASYNC", "FORCE_ASYNC"}]
    BY <1>2, <1>4 DEF CommitReadOnly, TypeInv, TypeOK
  <2>3. QED
    BY <1>4, <2>1, <2>2 DEF CommitReadOnly, Goto, TypeInv, TypeOK, Locations
<1>6. CASE CommitFast(h, ct)
  <2>1. time' \in Nat /\ endTime' \in [Handles -> Nat]
    BY <1>6, TickType DEF CommitFast, TypeInv
  <2>2. want' \in [Handles -> {"SYNC", "ASYNC", "FORCE_ASYNC"}]
    BY <1>2, <1>6 DEF CommitFast, TypeInv, TypeOK
  <2>3. QED
    BY <1>6, <2>1, <2>2 DEF CommitFast, Goto, TypeInv, TypeOK, Locations
<1>5. CASE CommitLocked(h, ct)
  BY <1>2, <1>5 DEF CommitLocked, Goto, TypeInv, TypeOK, Locations
<1> QED BY <1>3, <1>4, <1>5, <1>6

LEMMA JobOfType ==
  ASSUME TypeOK, NEW h \in Handles, NEW end \in Nat, NEW ready \in BOOLEAN
  PROVE  JobOf(h, end, ready) \in Job
  BY EmptySeq DEF JobOf, Job, Kinds

(* A step that links a job, or sets fields of one, keeps the type of queue. *)
LEMMA QueueAppend ==
  ASSUME TypeOK, NEW j \in Job
  PROVE  Append(queue, j) \in Seq(Job) /\ Len(queue) + 1 \in Nat
  BY LenProperties DEF TypeOK

LEMMA QueueExcept ==
  ASSUME TypeOK, NEW i, NEW e, i \in DOMAIN queue => e \in Job
  PROVE  [queue EXCEPT ![i] = e] \in Seq(Job)
<1>1. queue \in [1..Len(queue) -> Job] /\ DOMAIN queue = 1..Len(queue)
  BY LenProperties DEF TypeOK
<1>2. CASE i \in DOMAIN queue
  BY <1>1, <1>2, ExceptSeq DEF TypeOK
<1>3. CASE i \notin DOMAIN queue
  <2>1. queue = [x \in DOMAIN queue |-> queue[x]]
    BY <1>1
  <2>2. [queue EXCEPT ![i] = e]
          = [x \in DOMAIN queue |-> IF x = i THEN e ELSE queue[x]]
    OBVIOUS
  <2>3. \A x \in DOMAIN queue : (IF x = i THEN e ELSE queue[x]) = queue[x]
    BY <1>3
  <2>4. [queue EXCEPT ![i] = e] = queue
    BY <2>1, <2>2, <2>3, Zenon
  <2>5. QED BY <2>4 DEF TypeOK
<1> QED BY <1>2, <1>3

LEMMA PushType ==
  ASSUME TypeInv, NEW h \in Handles, Push(h)
  PROVE  TypeInv'
<1>1. JobOf(h, endTime[h], FALSE) \in Job
  BY JobOfType DEF TypeInv, TypeOK
<1>2. queue' \in Seq(Job) /\ Len(queue) + 1 \in Nat
  BY <1>1, QueueAppend DEF Push, TypeInv
<1>3. job' \in [Handles -> Nat] /\ toCheck' \in [Handles -> SUBSET Nodes]
  BY <1>2 DEF Push, TypeInv, TypeOK
<1>4. QED
  BY <1>2, <1>3 DEF Push, Goto, TypeInv, TypeOK, Locations

LEMMA ValidateType ==
  ASSUME TypeInv, NEW h \in Handles, NEW n \in Nodes,
         ValidateOne(h, n) \/ ValidateFailed(h, n)
  PROVE  TypeInv'
<1>1. CASE ValidateOne(h, n)
  BY <1>1 DEF ValidateOne, TypeInv, TypeOK, shared
<1>2. CASE ValidateFailed(h, n)
  <2> DEFINE j == [queue[job[h]] EXCEPT !.ready = TRUE, !.state = "failed"]
  <2>1. job[h] \in DOMAIN queue => j \in Job
    <3>1. SUFFICES ASSUME job[h] \in DOMAIN queue PROVE j \in Job
      OBVIOUS
    <3>2. queue[job[h]] \in Job
      BY <3>1, LenProperties, ElementOfSeq DEF TypeInv, TypeOK
    <3>3. QED BY <3>2 DEF Job
  <2>2. [queue EXCEPT ![job[h]] = j] \in Seq(Job)
    BY <2>1, QueueExcept DEF TypeInv
  <2>3. queue' = [queue EXCEPT ![job[h]] = j] \/ queue' = queue
    BY <1>2 DEF ValidateFailed
  <2>4. queue' \in Seq(Job)
    BY <2>2, <2>3 DEF TypeInv, TypeOK
  <2>5. mutex' \in Handles \cup {Free}
    BY <1>2 DEF ValidateFailed, TypeInv, TypeOK
  <2>6. QED
    BY <1>2, <2>4, <2>5
    DEF ValidateFailed, Goto, TypeInv, TypeOK, Locations
<1> QED BY <1>1, <1>2

LEMMA ValidatedType ==
  ASSUME TypeInv, NEW h \in Handles, Validated(h)
  PROVE  TypeInv'
<1> DEFINE held == [queue[job[h]] EXCEPT !.state = "committed", !.reads = seen[h]]
           linked == [JobOf(h, time + 2, FALSE) EXCEPT
                        !.state = "committed", !.reads = seen[h]]
<1>1. seen[h] \in SUBSET Read /\ time + 2 \in Nat
  BY DEF TypeInv, TypeOK
<1>2. job[h] \in DOMAIN queue => held \in Job
  <2>1. SUFFICES ASSUME job[h] \in DOMAIN queue PROVE held \in Job
    OBVIOUS
  <2>2. queue[job[h]] \in Job
    BY <2>1, LenProperties, ElementOfSeq DEF TypeInv, TypeOK
  <2>3. QED BY <1>1, <2>2 DEF Job
<1>3. linked \in Job
  <2>1. JobOf(h, time + 2, FALSE) \in Job
    BY <1>1, JobOfType DEF TypeInv
  <2>2. QED BY <1>1, <2>1 DEF Job
<1>4. CASE fastCommit
  <2>1. queue' = [queue EXCEPT ![job[h]] = held]
    BY <1>4 DEF Validated
  <2>2. queue' \in Seq(Job)
    BY <1>2, <2>1, QueueExcept DEF TypeInv
  <2>3. QED
    BY <1>4, <2>2 DEF Validated, Goto, TypeInv, TypeOK, Locations
<1>5. CASE ~fastCommit
  <2>1. queue' = Append(queue, linked)
    BY <1>5 DEF Validated
  <2>2. queue' \in Seq(Job) /\ Len(queue) + 1 \in Nat
    BY <1>3, <2>1, QueueAppend DEF TypeInv
  <2>3. /\ job' \in [Handles -> Nat]
        /\ mutex' \in Handles \cup {Free}
    BY <1>5, <2>2 DEF Validated, TypeInv, TypeOK
  <2>4. time' \in Nat /\ endTime' \in [Handles -> Nat]
    BY <1>5, TickType DEF Validated, TypeInv
  <2>5. QED
    BY <1>5, <2>2, <2>3, <2>4 DEF Validated, Goto, TypeInv, TypeOK, Locations
<1> QED BY <1>4, <1>5

LEMMA AbortType ==
  ASSUME TypeInv, NEW h \in Handles,
         HardAbort(h) \/ AbortNested(h) \/ NestedUndone(h) \/ AbortTick(h)
  PROVE  TypeInv'
<1>1. CASE HardAbort(h)
  BY <1>1 DEF HardAbort, TypeInv, TypeOK, Locations, shared
<1>2. nested[h] # <<>> => /\ Top(nested[h]) \in Savepoint
                          /\ Front(nested[h]) \in Seq(Savepoint)
  BY FrontTop DEF TypeInv, TypeOK
<1>3. nested[h] # <<>> => /\ Top(nested[h]).readSet \in SUBSET Nodes
                          /\ Top(nested[h]).seen \in SUBSET Read
                          /\ Top(nested[h]).synced \in BOOLEAN
                          /\ Top(nested[h]).commitType \in {"SYNC", "ASYNC"}
  BY <1>2 DEF Savepoint
<1>4. CASE AbortNested(h)
  <2>1. nested[h] # <<>>
    BY <1>4 DEF AbortNested
  <2>2. /\ readSet' \in [Handles -> SUBSET Nodes]
        /\ seen' \in [Handles -> SUBSET Read]
        /\ synced' \in [Handles -> BOOLEAN]
    BY <1>3, <1>4, <2>1 DEF AbortNested, TypeInv, TypeOK
  <2>3. QED
    BY <1>4, <2>1, <2>2 DEF AbortNested, TypeInv, TypeOK, Locations, shared
<1>5. CASE NestedUndone(h)
  <2>1. nested[h] # <<>>
    BY <1>5 DEF NestedUndone, Goto, TypeInv
  <2>2. /\ commitType' \in [Handles -> {"SYNC", "ASYNC"}]
        /\ nested' \in [Handles -> Seq(Savepoint)]
    BY <1>2, <1>3, <1>5, <2>1 DEF NestedUndone, TypeInv, TypeOK
  <2>3. \A k \in Handles : pc'[k] = "undoNested" => nested'[k] # <<>>
    BY <1>5 DEF NestedUndone, Goto, TypeInv, TypeOK
  <2>4. QED
    BY SMTT(30), <1>5, <2>2, <2>3 DEF NestedUndone, Goto, TypeInv, TypeOK, Locations, shared
<1>6. CASE AbortTick(h)
  BY <1>6 DEF AbortTick, Tick, Goto, TypeInv, TypeOK, Locations
<1> QED BY <1>1, <1>4, <1>5, <1>6

LEMMA UndoType ==
  ASSUME TypeInv, NEW h \in Handles, Undo(h)
  PROVE  TypeInv'
<1>1. log[h] \in Seq(LogItem)
  BY DEF TypeInv, TypeOK
<1>2. log[h] # <<>>
  <2>1. CASE pc[h] = "undo"
    BY <2>1 DEF Undo
  <2>2. CASE pc[h] = "undoNested"
    <3>1. nested[h] # <<>> /\ nested[h] \in Seq(Savepoint)
      BY <2>2 DEF TypeInv, TypeOK
    <3>2. Top(nested[h]) \in Savepoint
      BY <3>1, FrontTop
    <3>6. Top(nested[h]).pos \in Nat
      BY <3>2 DEF Savepoint
    <3>3. Len(log[h]) > Top(nested[h]).pos
      BY <2>2 DEF Undo
    <3>4. Len(log[h]) > 0
      BY <1>1, <3>6, <3>3, LenProperties
    <3>5. QED BY <3>4, EmptySeq
  <2>3. QED BY <2>1, <2>2 DEF Undo
<1>3. Top(log[h]) \in LogItem /\ Front(log[h]) \in Seq(LogItem)
  BY <1>1, <1>2, FrontTop
<1>4. Top(log[h]).node \in Nodes /\ Top(log[h]).old \in Values
  BY <1>3 DEF LogItem
<1>5. mem' \in [Nodes -> Values] /\ log' \in [Handles -> Seq(LogItem)]
  BY <1>3, <1>4 DEF Undo, UndoItem, TypeInv, TypeOK
<1>6. QED
  BY <1>5 DEF Undo, TypeInv, TypeOK

LEMMA UnlockType ==
  ASSUME TypeInv, NEW h \in Handles, NEW n \in Nodes, Unlock(h, n)
  PROVE  TypeInv'
<1>1. acquired[h] \ {n} \in SUBSET Nodes
  BY DEF TypeInv, TypeOK
<1>2. acquired' \in [Handles -> SUBSET Nodes]
  BY <1>1 DEF Unlock, TypeInv, TypeOK
<1>3. lock' \in [Nodes -> Nat \cup Handles]
  BY DEF Unlock, TypeInv, TypeOK
<1>4. QED
  BY <1>2, <1>3 DEF Unlock, TypeInv, TypeOK

(* handle_cleanup keeps the types of the variables it resets. *)
LEMMA CleanupType ==
  ASSUME TypeOK, NEW h \in Handles, Cleanup(h)
  PROVE  /\ start' \in [Handles -> Nat]
         /\ readSet' \in [Handles -> SUBSET Nodes]
         /\ acquired' \in [Handles -> SUBSET Nodes]
         /\ nested' \in [Handles -> Seq(Savepoint)]
         /\ log' \in [Handles -> Seq(LogItem)]
         /\ commitType' \in [Handles -> {"SYNC", "ASYNC"}]
         /\ endTime' \in [Handles -> Nat]
         /\ want' \in [Handles -> {"SYNC", "ASYNC", "FORCE_ASYNC"}]
         /\ job' \in [Handles -> Nat]
         /\ seen' \in [Handles -> SUBSET Read]
         /\ synced' \in [Handles -> BOOLEAN]
         /\ \A k \in Handles \ {h} : nested'[k] = nested[k]
<1>1. <<>> \in Seq(Savepoint) /\ <<>> \in Seq(LogItem)
  BY EmptySeq
<1>2. nested' \in [Handles -> Seq(Savepoint)] /\ log' \in [Handles -> Seq(LogItem)]
  BY <1>1 DEF Cleanup, TypeOK
<1>3. QED
  BY <1>2 DEF Cleanup, TypeOK

LEMMA FinishType ==
  ASSUME TypeInv, NEW h \in Handles,
         FinishCommit(h) \/ FinishReadOnly(h) \/ FinishAbort(h)
  PROVE  TypeInv'
<1>1. Cleanup(h)
  BY DEF FinishCommit, FinishReadOnly, FinishAbort
<1>2. queue' \in Seq(Job)
  <2>1. CASE FinishCommit(h)
    <3> DEFINE j == [queue[job[h]] EXCEPT !.redo = log[h], !.ready = TRUE]
    <3>1. job[h] \in DOMAIN queue => j \in Job
      <4>1. SUFFICES ASSUME job[h] \in DOMAIN queue PROVE j \in Job
        OBVIOUS
      <4>2. queue[job[h]] \in Job /\ log[h] \in Seq(LogItem)
        BY <4>1, LenProperties, ElementOfSeq DEF TypeInv, TypeOK
      <4>3. QED BY <4>2 DEF Job
    <3>2. queue' = [queue EXCEPT ![job[h]] = j]
      BY <2>1 DEF FinishCommit
    <3>3. QED BY <3>1, <3>2, QueueExcept DEF TypeInv
  <2>2. CASE FinishReadOnly(h)
    <3> DEFINE j == [JobOf(h, 0, TRUE) EXCEPT !.kind = "SYNC_ME", !.state = "none"]
    <3>1. JobOf(h, 0, TRUE) \in Job
      BY JobOfType DEF TypeInv
    <3>2. j \in Job
      BY <3>1 DEF Job, Kinds
    <3>3. queue' = Append(queue, j) \/ queue' = queue
      BY <2>2 DEF FinishReadOnly
    <3>4. QED BY <3>2, <3>3, QueueAppend DEF TypeInv, TypeOK
  <2>3. CASE FinishAbort(h)
    BY <2>3 DEF FinishAbort, shared, TypeInv, TypeOK
  <2>4. QED BY <2>1, <2>2, <2>3
<1>3. /\ pc' = [pc EXCEPT ![h] = "idle"]
      /\ UNCHANGED <<time, lock, mem, mutex, begun, access, toCheck>>
  BY DEF FinishCommit, FinishReadOnly, FinishAbort, Goto, shared
<1>4. pc' \in [Handles -> Locations]
  BY <1>3 DEF TypeInv, TypeOK, Locations
<1>5. TypeOK'
  BY <1>1, <1>2, <1>3, <1>4, CleanupType DEF TypeInv, TypeOK
<1>6. /\ pc'[h] = "idle"
      /\ \A k \in Handles \ {h} : pc'[k] = pc[k] /\ nested'[k] = nested[k]
  BY <1>1, <1>3, CleanupType DEF TypeInv, TypeOK
<1>7. QED
  BY <1>3, <1>5, <1>6 DEF TypeInv

LEMMA NextType == TypeInv /\ [Next]_vars => TypeInv'
<1> SUFFICES ASSUME TypeInv, [Next]_vars PROVE TypeInv'
  OBVIOUS
<1>1. ASSUME NEW h \in Handles, UserStep(h) PROVE TypeInv'
  BY <1>1, BeginType, BeginNestedType, ReadType, WriteType, CommitBeginType
  DEF UserStep
<1>2. ASSUME NEW h \in Handles, CallStep(h) PROVE TypeInv'
  BY <1>2, CheckType, StoreType, PushType, ValidateType, ValidatedType,
     UndoType, AbortType, UnlockType, FinishType
  DEF CallStep
<1>3. ASSUME NEW h \in Handles, AbortStep(h) PROVE TypeInv'
  BY <1>3, AbortType DEF AbortStep
<1>4. CASE Quiescent \/ UNCHANGED vars
  BY <1>4 DEF Quiescent, vars, shared, private, TypeInv, TypeOK
<1>5. QED
  BY <1>1, <1>2, <1>3, <1>4 DEF Next

(* Every variable keeps its type: no call of any handle, in any interleaving,
   uses an access, a savepoint or a log item that is not there. *)
THEOREM TypeCorrect == Spec => []TypeOK
<1>1. Spec => []TypeInv
  BY InitType, NextType, PTL DEF Spec
<1>2. TypeInv => TypeOK
  BY DEF TypeInv
<1>3. QED
  BY <1>1, <1>2, PTL

-----------------------------------------------------------------------------
(* Locks *)

(* LockDiscipline and what it takes to keep it: a store is only ever made under
   a lock taken before; nothing is left to undo once locks are released without
   a commit; no end time lies in the future. *)
LockInv ==
  /\ TypeInv
  /\ LockDiscipline
  /\ \A h \in Handles :
       pc[h] \in {"store", "storeCopied"} => access[h].node \in acquired[h]
  /\ \A h \in Handles :
       pc[h] \in {"idle", "unlockAbort", "unlockReadOnly"} => log[h] = <<>>
  /\ \A h \in Handles : endTime[h] <= time

LEMMA InitLock == Init => LockInv
<1> SUFFICES ASSUME Init PROVE LockInv
  OBVIOUS
<1>1. TypeInv
  BY InitType
<1>2. \A h \in Handles : 1 # h
  BY ConstAssumption
<1>3. \A h \in Handles, n \in Nodes : lock[n] = h <=> n \in acquired[h]
  BY <1>2 DEF Init
<1>4. \A h \in Handles : log[h] = <<>> /\ WrittenBy(h) = {}
  BY EmptySeq DEF Init, WrittenBy
<1>5. \A n \in Nodes : lock[n] <= time
  BY DEF Init
<1>6. LockDiscipline
  BY <1>3, <1>4, <1>5 DEF LockDiscipline
<1>7. QED
  BY <1>1, <1>4, <1>6 DEF LockInv, Init

(* A step of h that leaves lock words, acquired_locks and logs alone. *)
LEMMA QuietStep ==
  ASSUME LockInv, TypeInv', NEW h \in Handles,
         UNCHANGED <<lock, acquired, log>>,
         \A k \in Handles \ {h} : /\ pc'[k] = pc[k]
                                  /\ access'[k] = access[k]
                                  /\ endTime'[k] = endTime[k],
         time <= time',
         endTime'[h] <= time',
         pc'[h] \in {"store", "storeCopied"} => access'[h].node \in acquired[h],
         pc'[h] \in {"idle", "unlockAbort", "unlockReadOnly"} => log[h] = <<>>,
         pc[h] # "unlockCommit"
  PROVE  LockInv'
<1>1. time \in Nat /\ time' \in Nat
  BY DEF LockInv, TypeInv, TypeOK
<1>2. \A k \in Handles : WrittenBy(k)' = WrittenBy(k)
  BY DEF WrittenBy
<1>3. \A k \in Handles : Undoable(k)' => Undoable(k)
  BY DEF Undoable
<1>4. \A n \in Nodes : IsVersion(n) => lock[n] \in Nat
  BY DEF LockInv, TypeInv, TypeOK, IsVersion
<1>5. \A n \in Nodes : IsVersion(n)' => lock'[n] <= time'
  BY <1>1, <1>4 DEF LockInv, LockDiscipline, IsVersion
<1>6. LockDiscipline'
  BY <1>2, <1>3, <1>5 DEF LockInv, LockDiscipline
<1>7. \A k \in Handles : endTime[k] \in Nat
  BY DEF LockInv, TypeInv, TypeOK
<1>8. \A k \in Handles : endTime'[k] <= time'
  BY <1>1, <1>7 DEF LockInv
<1>9. QED
  BY <1>6, <1>8 DEF LockInv

LEMMA BeginLock ==
  ASSUME LockInv, NEW h \in Handles, Begin(h) \/ BeginNested(h)
  PROVE  LockInv'
<1>1. TypeInv'
  BY BeginType, BeginNestedType DEF LockInv
<1>2. pc \in [Handles -> Locations] /\ time \in Nat
  BY DEF LockInv, TypeInv, TypeOK
<1>3. CASE Begin(h)
  BY <1>1, <1>2, <1>3, QuietStep DEF Begin, Goto, LockInv
<1>4. CASE BeginNested(h)
  BY <1>1, <1>2, <1>4, QuietStep DEF BeginNested, shared, LockInv
<1> QED BY <1>3, <1>4

LEMMA ReadLock ==
  ASSUME LockInv, NEW h \in Handles, NEW n \in Nodes,
         Load(h, n) \/ UncheckedRead(h, n)
  PROVE  LockInv'
<1>1. TypeInv'
  BY ReadType DEF LockInv
<1>2. /\ pc \in [Handles -> Locations] /\ time \in Nat
      /\ access \in [Handles -> Access \cup {NoEntry}]
  BY DEF LockInv, TypeInv, TypeOK
<1>3. CASE Load(h, n)
  BY <1>1, <1>2, <1>3, QuietStep DEF Load, Goto, shared, LockInv
<1>4. CASE UncheckedRead(h, n)
  BY <1>1, <1>2, <1>4, QuietStep DEF UncheckedRead, shared, LockInv
<1> QED BY <1>3, <1>4

LEMMA CheckLock ==
  ASSUME LockInv, NEW h \in Handles, Check(h)
  PROVE  LockInv'
<1>1. TypeInv'
  BY CheckType DEF LockInv
<1>2. /\ pc \in [Handles -> Locations] /\ time \in Nat
      /\ access \in [Handles -> Access \cup {NoEntry}]
  BY DEF LockInv, TypeInv, TypeOK
<1>3. /\ pc'[h] \in {"run", "failed"}
      /\ \A k \in Handles \ {h} : pc'[k] = pc[k] /\ access'[k] = access[k]
  BY <1>2 DEF Check
<1>4. QED
  BY <1>1, <1>2, <1>3, QuietStep DEF Check, shared, LockInv

(* A tick leaves the end times of the other handles alone and no end time
   ahead of the clock. *)
LEMMA TickLock ==
  ASSUME LockInv, NEW h \in Handles, Tick(h)
  PROVE  /\ time <= time'
         /\ endTime'[h] <= time'
         /\ \A k \in Handles \ {h} : endTime'[k] = endTime[k]
<1>1. time \in Nat /\ endTime \in [Handles -> Nat]
  BY DEF LockInv, TypeInv, TypeOK
<1>2. QED
  BY <1>1 DEF Tick

LEMMA CommitBeginLock ==
  ASSUME LockInv, NEW h \in Handles, NEW ct \in CommitTypes,
         \/ CommitNested(h, ct)
         \/ CommitReadOnly(h, ct)
         \/ CommitFast(h, ct)
         \/ CommitLocked(h, ct)
  PROVE  LockInv'
<1>1. TypeInv'
  BY CommitBeginType DEF LockInv
<1>2. pc \in [Handles -> Locations] /\ time \in Nat
  BY DEF LockInv, TypeInv, TypeOK
<1>3. CASE CommitNested(h, ct)
  BY <1>1, <1>2, <1>3, QuietStep DEF CommitNested, shared, LockInv
<1>4. CASE CommitReadOnly(h, ct)
  <2>1. Tick(h)
    BY <1>4 DEF CommitReadOnly
  <2>2. QED
    BY <1>1, <1>2, <1>4, <2>1, TickLock, QuietStep DEF CommitReadOnly, Goto
<1>5. CASE CommitFast(h, ct)
  <2>1. Tick(h)
    BY <1>5 DEF CommitFast
  <2>2. QED
    BY <1>1, <1>2, <1>5, <2>1, TickLock, QuietStep DEF CommitFast, Goto
<1>6. CASE CommitLocked(h, ct)
  BY <1>1, <1>2, <1>6, QuietStep DEF CommitLocked, Goto, LockInv
<1> QED BY <1>3, <1>4, <1>5, <1>6

LEMMA ValidationLock ==
  ASSUME LockInv, NEW h \in Handles, NEW n \in Nodes,
         ValidateOne(h, n) \/ ValidateFailed(h, n)
  PROVE  LockInv'
<1>1. TypeInv'
  BY ValidateType DEF LockInv
<1>2. pc \in [Handles -> Locations] /\ time \in Nat
  BY DEF LockInv, TypeInv, TypeOK
<1>3. CASE ValidateOne(h, n)
  BY <1>1, <1>2, <1>3, QuietStep DEF ValidateOne, shared, LockInv
<1>4. CASE ValidateFailed(h, n)
  BY <1>1, <1>2, <1>4, QuietStep DEF ValidateFailed, Goto, LockInv
<1> QED BY <1>3, <1>4

LEMMA QueueLock ==
  ASSUME LockInv, NEW h \in Handles, Push(h) \/ Validated(h)
  PROVE  LockInv'
<1>1. TypeInv'
  BY PushType, ValidatedType DEF LockInv
<1>2. pc \in [Handles -> Locations] /\ time \in Nat
  BY DEF LockInv, TypeInv, TypeOK
<1>3. CASE Push(h)
  BY <1>1, <1>2, <1>3, QuietStep DEF Push, Goto, LockInv
<1>4. CASE Validated(h)
  <2>1. Tick(h) \/ UNCHANGED <<time, endTime>>
    BY <1>4 DEF Validated
  <2>2. /\ time <= time'
        /\ endTime'[h] <= time'
        /\ \A k \in Handles \ {h} : endTime'[k] = endTime[k]
    BY <1>2, <2>1, TickLock DEF LockInv
  <2>3. QED
    BY <1>1, <1>2, <1>4, <2>2, QuietStep DEF Validated, Goto
<1> QED BY <1>3, <1>4

LEMMA AbortLock ==
  ASSUME LockInv, NEW h \in Handles,
         HardAbort(h) \/ AbortNested(h) \/ NestedUndone(h) \/ AbortTick(h)
  PROVE  LockInv'
<1>1. TypeInv'
  BY AbortType DEF LockInv
<1>2. /\ pc \in [Handles -> Locations] /\ time \in Nat
      /\ access \in [Handles -> Access \cup {NoEntry}]
  BY DEF LockInv, TypeInv, TypeOK
<1>3. CASE HardAbort(h)
  BY <1>1, <1>2, <1>3, QuietStep DEF HardAbort, shared, LockInv
<1>4. CASE AbortNested(h)
  BY <1>1, <1>2, <1>4, QuietStep DEF AbortNested, shared, LockInv
<1>5. CASE NestedUndone(h)
  BY <1>1, <1>2, <1>5, QuietStep DEF NestedUndone, Goto, shared, LockInv
<1>6. CASE AbortTick(h)
  <2>1. Tick(h)
    BY <1>6 DEF AbortTick
  <2>2. QED
    BY <1>1, <1>2, <1>6, <2>1, TickLock, QuietStep DEF AbortTick, Goto
<1> QED BY <1>3, <1>4, <1>5, <1>6

(* Taking a lock: nobody else had it, or nothing happens to it. *)
LEMMA UtilLockStep ==
  ASSUME LockInv, TypeInv', NEW h \in Handles, NEW n \in Nodes,
         NEW next \in {"store", "storeCopied"},
         UtilLock(h, n, next),
         pc[h] \in {"run", "copied"},
         UNCHANGED <<log, time, endTime>>,
         access'[h].node = n,
         \A k \in Handles \ {h} : access'[k] = access[k]
  PROVE  LockInv'
<1>1. /\ pc \in [Handles -> Locations] /\ time \in Nat
      /\ lock \in [Nodes -> Nat \cup Handles]
      /\ acquired \in [Handles -> SUBSET Nodes]
  BY DEF LockInv, TypeInv, TypeOK
<1>2. \A k \in Handles \ {h} : pc'[k] = pc[k]
  BY <1>1 DEF UtilLock
<1>3. pc'[h] \in {next, "failed"}
  BY <1>1 DEF UtilLock
<1>4. \A k \in Handles : WrittenBy(k)' = WrittenBy(k)
  BY DEF WrittenBy
<1>5. \A k \in Handles : Undoable(k)' => Undoable(k)
  BY <1>2 DEF Undoable
<1>6. CASE LLock(h, n)
  <2>1. /\ lock' = [lock EXCEPT ![n] = h]
        /\ acquired' = [acquired EXCEPT ![h] = acquired[h] \cup {n}]
    BY <1>6 DEF UtilLock
  <2>2. \A k \in Handles \ {h} : lock[n] # k
    BY <1>6 DEF LLock, IsVersion
  <2>3. \A k \in Handles, m \in Nodes : lock'[m] = k <=> m \in acquired'[k]
    <3>1. TAKE k \in Handles, m \in Nodes
    <3>2. lock[m] = k <=> m \in acquired[k]
      BY DEF LockInv, LockDiscipline
    <3>3. CASE m = n
      BY <1>1, <2>1, <2>2, <3>2, <3>3
    <3>4. CASE m # n
      BY <1>1, <2>1, <3>2, <3>4
    <3>5. QED BY <3>3, <3>4
  <2>4. \A k \in Handles : acquired[k] \subseteq acquired'[k]
    BY <1>1, <2>1
  <2>5. \A m \in Nodes : IsVersion(m)' => IsVersion(m) /\ lock'[m] = lock[m]
    BY <1>1, <2>1 DEF IsVersion
  <2>6. LockDiscipline'
    BY <1>4, <1>5, <2>3, <2>4, <2>5 DEF LockInv, LockDiscipline
  <2>7. n \in acquired'[h]
    BY <1>1, <2>1
  <2>8. QED
    BY <1>2, <1>3, <2>4, <2>6, <2>7 DEF LockInv
<1>7. CASE ~LLock(h, n)
  <2>1. UNCHANGED <<lock, acquired>> /\ pc' = [pc EXCEPT ![h] = "failed"]
    BY <1>7 DEF UtilLock
  <2>2. pc'[h] = "failed"
    BY <1>1, <2>1
  <2>3. QED
    BY <1>1, <1>2, <2>1, <2>2, QuietStep DEF LockInv
<1> QED BY <1>6, <1>7

LEMMA WriteLock ==
  ASSUME LockInv, NEW h \in Handles, NEW n \in Nodes, NEW v \in Values,
         LockForWrite(h, n, v) \/ CopyOld(h, n, v)
  PROVE  LockInv'
<1>1. TypeInv'
  BY WriteType DEF LockInv
<1>2. /\ pc \in [Handles -> Locations] /\ time \in Nat
      /\ access \in [Handles -> Access \cup {NoEntry}]
  BY DEF LockInv, TypeInv, TypeOK
<1>3. CASE LockForWrite(h, n, v)
  <2>1. access'[h].node = n /\ \A k \in Handles \ {h} : access'[k] = access[k]
    BY <1>2, <1>3 DEF LockForWrite
  <2>2. QED
    BY <1>1, <1>3, <2>1, UtilLockStep DEF LockForWrite
<1>4. CASE CopyOld(h, n, v)
  BY <1>1, <1>2, <1>4, QuietStep DEF CopyOld, Goto, shared, LockInv
<1> QED BY <1>3, <1>4

LEMMA LockCopiedLock ==
  ASSUME LockInv, NEW h \in Handles, LockCopied(h)
  PROVE  LockInv'
<1>1. TypeInv'
  BY StoreType DEF LockInv
<1>2. access[h].node \in Nodes
  BY DEF LockCopied, LockInv, TypeInv, Access
<1>3. QED
  BY <1>1, <1>2, UtilLockStep DEF LockCopied

(* What one store adds to the nodes a transaction has written. *)
LEMMA WrittenAppend ==
  ASSUME LockInv, NEW h \in Handles, NEW old, StoreLogged(h, old)
  PROVE  /\ WrittenBy(h)' = WrittenBy(h) \cup {access[h].node}
         /\ \A k \in Handles \ {h} : WrittenBy(k)' = WrittenBy(k)
<1> DEFINE item == [node |-> access[h].node, old |-> old, new |-> access[h].value]
<1>1. log \in [Handles -> Seq(LogItem)] /\ log[h] \in Seq(LogItem)
  BY DEF LockInv, TypeInv, TypeOK
<1>2. /\ log'[h] = Append(log[h], item)
      /\ \A k \in Handles \ {h} : log'[k] = log[k]
  BY <1>1 DEF StoreLogged
<1>3. /\ DOMAIN log[h] = 1..Len(log[h]) /\ Len(log[h]) \in Nat
      /\ DOMAIN log'[h] = 1..Len(log[h]) + 1
      /\ \A i \in 1..Len(log[h]) : log'[h][i] = log[h][i]
      /\ log'[h][Len(log[h]) + 1] = item
  BY <1>1, <1>2, LenProperties
<1>4. item.node = access[h].node
  OBVIOUS
<1> HIDE DEF item
<1>5. WrittenBy(h)' = WrittenBy(h) \cup {access[h].node}
  BY SMTT(30), <1>3, <1>4 DEF WrittenBy
<1>6. QED
  BY <1>2, <1>5 DEF WrittenBy

LEMMA StoreLock ==
  ASSUME LockInv, NEW h \in Handles, Store(h) \/ StoreCopied(h)
  PROVE  LockInv'
<1>1. TypeInv'
  BY StoreType DEF LockInv
<1>2. PICK old : StoreLogged(h, old)
  BY DEF Store, StoreCopied
<1>3. pc \in [Handles -> Locations] /\ log \in [Handles -> Seq(LogItem)]
  BY DEF LockInv, TypeInv, TypeOK
<1>4. /\ pc[h] \in {"store", "storeCopied"} /\ pc'[h] = "run"
      /\ \A k \in Handles \ {h} : pc'[k] = pc[k]
      /\ UNCHANGED <<lock, acquired, time, endTime>>
  BY <1>3 DEF Store, StoreCopied, Goto
<1>5. /\ access' = [access EXCEPT ![h] = NoEntry]
      /\ \A k \in Handles \ {h} : access'[k] = access[k]
  BY DEF Store, StoreCopied, LockInv, TypeInv, TypeOK
<1>6. access[h].node \in acquired[h]
  BY <1>4 DEF LockInv
<1>7. \A k \in Handles \ {h} : log'[k] = log[k]
  BY <1>2, <1>3 DEF StoreLogged
<1>8. \A k \in Handles : Undoable(k)' => WrittenBy(k)' \subseteq acquired[k]
  BY <1>2, <1>4, <1>6, WrittenAppend DEF LockInv, LockDiscipline, Undoable
<1>9. LockDiscipline'
  BY <1>4, <1>8 DEF LockInv, LockDiscipline, IsVersion
<1>10. QED
  BY <1>1, <1>4, <1>5, <1>7, <1>9 DEF LockInv

LEMMA UndoLock ==
  ASSUME LockInv, NEW h \in Handles, Undo(h)
  PROVE  LockInv'
<1>1. TypeInv'
  BY UndoType DEF LockInv
<1>2. log \in [Handles -> Seq(LogItem)] /\ log[h] \in Seq(LogItem)
  BY DEF LockInv, TypeInv, TypeOK
<1>3. /\ log'[h] = Front(log[h])
      /\ \A k \in Handles \ {h} : log'[k] = log[k]
      /\ pc[h] \in {"undo", "undoNested"}
      /\ UNCHANGED <<pc, lock, acquired, access, time, endTime>>
  BY <1>2 DEF Undo, UndoItem
<1>4. WrittenBy(h)' \subseteq WrittenBy(h)
  <2>1. CASE log[h] = <<>>
    <3>1. Len(log[h]) = 0
      BY <2>1
    <3>2. log'[h] = <<>>
      BY <1>3, <3>1, SubSeqEmpty DEF Front
    <3>3. QED
      BY <3>2, EmptySeq DEF WrittenBy
  <2>2. CASE log[h] # <<>>
    <3>1. /\ Front(log[h]) \in Seq(LogItem)
          /\ Len(log[h]) \in Nat \ {0}
          /\ Len(Front(log[h])) = Len(log[h]) - 1
          /\ \A i \in 1..Len(log[h]) - 1 : Front(log[h])[i] = log[h][i]
      BY <1>2, <2>2, FrontTop
    <3>2. /\ DOMAIN log[h] = 1..Len(log[h])
          /\ DOMAIN log'[h] = 1..Len(log[h]) - 1
      BY <1>2, <1>3, <3>1, LenProperties
    <3>3. QED
      BY <1>3, <3>1, <3>2 DEF WrittenBy
  <2>3. QED BY <2>1, <2>2
<1>5. \A k \in Handles \ {h} : WrittenBy(k)' = WrittenBy(k)
  BY <1>3 DEF WrittenBy
<1>6. LockDiscipline'
  BY <1>3, <1>4, <1>5 DEF LockInv, LockDiscipline, Undoable, IsVersion
<1>7. QED
  BY <1>1, <1>3, <1>6 DEF LockInv

LEMMA UnlockLock ==
  ASSUME LockInv, NEW h \in Handles, NEW n \in Nodes, Unlock(h, n)
  PROVE  LockInv'
<1>1. TypeInv'
  BY UnlockType DEF LockInv
<1>2. /\ lock \in [Nodes -> Nat \cup Handles] /\ time \in Nat
      /\ acquired \in [Handles -> SUBSET Nodes]
      /\ endTime \in [Handles -> Nat]
      /\ endTime[h] \notin Handles
      /\ endTime[h] <= time
  BY ConstAssumption DEF LockInv, TypeInv, TypeOK
<1>3. lock[n] = h
  BY DEF Unlock, LockInv, LockDiscipline
<1>4. /\ lock' = [lock EXCEPT ![n] = endTime[h]]
      /\ acquired' = [acquired EXCEPT ![h] = acquired[h] \ {n}]
      /\ pc[h] \in {"unlockCommit", "unlockAbort", "unlockReadOnly"}
      /\ UNCHANGED <<pc, log, access, time, endTime>>
  BY <1>3 DEF Unlock
<1>5. \A k \in Handles, m \in Nodes : lock'[m] = k <=> m \in acquired'[k]
  <2>1. TAKE k \in Handles, m \in Nodes
  <2>2. lock[m] = k <=> m \in acquired[k]
    BY DEF LockInv, LockDiscipline
  <2>3. CASE m = n
    BY <1>2, <1>3, <1>4, <2>2, <2>3
  <2>4. CASE m # n
    BY <1>2, <1>4, <2>2, <2>4
  <2>5. QED BY <2>3, <2>4
<1>6. \A k \in Handles : WrittenBy(k)' = WrittenBy(k)
  BY <1>4 DEF WrittenBy
<1>7. Undoable(h) => WrittenBy(h) = {}
  <2>1. SUFFICES ASSUME Undoable(h) PROVE WrittenBy(h) = {}
    OBVIOUS
  <2>2. log[h] = <<>>
    BY <1>4, <2>1 DEF LockInv, Undoable
  <2>3. QED BY <2>2, EmptySeq DEF WrittenBy
<1>8. \A k \in Handles \ {h} : acquired'[k] = acquired[k]
  BY <1>2, <1>4
<1>9. \A k \in Handles : Undoable(k)' => WrittenBy(k)' \subseteq acquired'[k]
  BY <1>4, <1>6, <1>7, <1>8 DEF LockInv, LockDiscipline, Undoable
<1>10. \A m \in Nodes : IsVersion(m)' => lock'[m] <= time'
  BY <1>2, <1>4 DEF LockInv, LockDiscipline, IsVersion
<1>11. LockDiscipline'
  BY <1>5, <1>9, <1>10 DEF LockDiscipline
<1>12. \A k \in Handles :
         pc'[k] \in {"store", "storeCopied"} => access'[k].node \in acquired'[k]
  BY <1>4, <1>8 DEF LockInv
<1>13. QED
  BY <1>1, <1>4, <1>11, <1>12 DEF LockInv

LEMMA FinishLock ==
  ASSUME LockInv, NEW h \in Handles,
         FinishCommit(h) \/ FinishReadOnly(h) \/ FinishAbort(h)
  PROVE  LockInv'
<1>1. TypeInv'
  BY FinishType DEF LockInv
<1>2. /\ pc \in [Handles -> Locations] /\ time \in Nat
      /\ acquired \in [Handles -> SUBSET Nodes]
      /\ log \in [Handles -> Seq(LogItem)]
      /\ endTime \in [Handles -> Nat]
  BY DEF LockInv, TypeInv, TypeOK
<1>3. /\ Cleanup(h)
      /\ acquired[h] = {}
      /\ pc' = [pc EXCEPT ![h] = "idle"]
      /\ UNCHANGED <<lock, access, time>>
  BY DEF FinishCommit, FinishReadOnly, FinishAbort, Goto, shared
<1>4. /\ pc'[h] = "idle"
      /\ log'[h] = <<>>
      /\ endTime'[h] = 0
      /\ acquired' = acquired
      /\ \A k \in Handles \ {h} : /\ pc'[k] = pc[k]
                                  /\ log'[k] = log[k]
                                  /\ endTime'[k] = endTime[k]
  <2>1. acquired' = [acquired EXCEPT ![h] = {}]
    BY <1>3 DEF Cleanup
  <2>2. acquired' = acquired
    BY <1>2, <1>3, <2>1
  <2>3. QED
    BY <1>2, <1>3, <2>2 DEF Cleanup
<1>5. WrittenBy(h)' = {}
  BY <1>4, EmptySeq DEF WrittenBy
<1>6. \A k \in Handles \ {h} : WrittenBy(k)' = WrittenBy(k)
  BY <1>4 DEF WrittenBy
<1>7. \A k \in Handles : Undoable(k)' => WrittenBy(k)' \subseteq acquired'[k]
  BY <1>4, <1>5, <1>6 DEF LockInv, LockDiscipline, Undoable
<1>8. LockDiscipline'
  BY <1>3, <1>4, <1>7 DEF LockInv, LockDiscipline, IsVersion
<1>9. \A k \in Handles :
        pc'[k] \in {"store", "storeCopied"} => access'[k].node \in acquired'[k]
  BY <1>3, <1>4 DEF LockInv
<1>10. \A k \in Handles :
         pc'[k] \in {"idle", "unlockAbort", "unlockReadOnly"} => log'[k] = <<>>
  BY <1>4 DEF LockInv
<1>11. \A k \in Handles : endTime'[k] <= time'
  <2>1. time' = time /\ 0 <= time
    BY <1>2, <1>3
  <2>2. \A k \in Handles : endTime[k] <= time
    BY DEF LockInv
  <2>3. QED
    BY <1>4, <2>1, <2>2
<1>12. QED
  BY <1>1, <1>8, <1>9, <1>10, <1>11 DEF LockInv

LEMMA NextLock == LockInv /\ [Next]_vars => LockInv'
<1> SUFFICES ASSUME LockInv, [Next]_vars PROVE LockInv'
  OBVIOUS
<1>1. ASSUME NEW h \in Handles, UserStep(h) PROVE LockInv'
  BY <1>1, BeginLock, ReadLock, WriteLock, CommitBeginLock DEF UserStep
<1>2. ASSUME NEW h \in Handles, CallStep(h) PROVE LockInv'
  BY <1>2, CheckLock, StoreLock, LockCopiedLock, QueueLock, ValidationLock,
     UndoLock, AbortLock, UnlockLock, FinishLock
  DEF CallStep
<1>3. ASSUME NEW h \in Handles, AbortStep(h) PROVE LockInv'
  BY <1>3, AbortLock DEF AbortStep
<1>4. CASE Quiescent \/ UNCHANGED vars
  <2>1. UNCHANGED vars
    BY <1>4 DEF Quiescent
  <2>2. TypeInv'
    BY <1>4, NextType DEF LockInv, Next
  <2>3. LockDiscipline'
    BY <2>1
    DEF vars, shared, private, LockInv, LockDiscipline, WrittenBy, Undoable,
        IsVersion
  <2>4. QED
    BY <2>1, <2>2, <2>3 DEF vars, shared, private, LockInv
<1>5. QED
  BY <1>1, <1>2, <1>3, <1>4 DEF Next

(* The locks of HybridStm are sound: acquired_locks and the lock words agree,
   what may still be undone lies under locks of its own transaction, and no
   version is ahead of the clock. *)
THEOREM LocksCorrect == Spec => []LockDiscipline
<1>1. Spec => []LockInv
  BY InitLock, NextLock, PTL DEF Spec
<1>2. LockInv => LockDiscipline
  BY DEF LockInv
<1>3. QED
  BY <1>1, <1>2, PTL

-----------------------------------------------------------------------------
(* The least and the greatest of some numbers *)

LEMMA FirstExists ==
  ASSUME NEW W, W \subseteq Nat, W # {}
  PROVE  \E i \in W : \A k \in W : i <= k
<1>1. PICK i \in W : \A k \in W : ~ (<<k, i>> \in OpToRel(<, Nat))
  BY WFMin, NatLessThanWellFounded
<1>2. ASSUME NEW k \in W PROVE ~ (k < i)
  BY <1>1 DEF OpToRel
<1>3. \A k \in W : i <= k
  BY <1>2
<1> QED
  BY <1>3

LEMMA LastExists ==
  ASSUME NEW m \in Nat, NEW W, W \subseteq 1..m, W # {}
  PROVE  \E i \in W : \A k \in W : k <= i
<1> DEFINE gaps == {m - i : i \in W}
<1>1. gaps \subseteq Nat /\ gaps # {}
  OBVIOUS
<1>2. PICK d \in gaps : \A k \in gaps : d <= k
  BY <1>1, FirstExists
<1>3. PICK i \in W : d = m - i
  BY <1>2
<1>4. ASSUME NEW k \in W PROVE k <= i
  BY SMTT(30), <1>2, <1>3
<1> QED
  BY <1>4

-----------------------------------------------------------------------------
(* What a log does to a buffer and to the store *)

WrittenIn(s, p) == {s[i].node : i \in 1..p}

(* The values the first p items of s have written. *)
Prefix(s, p) == [n \in WrittenIn(s, p) |-> Outcome(SubSeq(s, 1, p), n, InitValue)]

(* What n will hold when s has been undone, if it holds v now. *)
Undone(s, n, v) ==
  LET writes == {i \in DOMAIN s : s[i].node = n}
  IN  IF writes = {} THEN v ELSE s[CHOOSE i \in writes : \A k \in writes : i <= k].old

(* Logs are made of log items. *)
LEMMA SeqFacts ==
  ASSUME NEW s \in Seq(LogItem)
  PROVE  /\ Len(s) \in Nat /\ DOMAIN s = 1..Len(s)
         /\ \A i \in 1..Len(s) : /\ s[i] \in LogItem
                                 /\ s[i].node \in Nodes /\ s[i].old \in Values /\ s[i].new \in Values
<1>1. Len(s) \in Nat /\ DOMAIN s = 1..Len(s)
  BY LenProperties
<1>2. \A i \in 1..Len(s) : s[i] \in LogItem
  BY <1>1, ElementOfSeq
<1> QED
  BY <1>1, <1>2 DEF LogItem

LEMMA UptoFacts ==
  ASSUME NEW s \in Seq(LogItem), NEW p \in 0..Len(s)
  PROVE  /\ SubSeq(s, 1, p) \in Seq(LogItem)
         /\ Len(SubSeq(s, 1, p)) = p
         /\ \A i \in 1..p : SubSeq(s, 1, p)[i] = s[i]
<1>1. Len(s) \in Nat /\ \A i \in 1..p : s[i] \in LogItem
  BY SeqFacts
<1>2. /\ SubSeq(s, 1, p) \in Seq(LogItem)
      /\ Len(SubSeq(s, 1, p)) = IF 1 <= p THEN p - 1 + 1 ELSE 0
      /\ \A i \in 1..p - 1 + 1 : SubSeq(s, 1, p)[i] = s[1 + i - 1]
  BY <1>1, SubSeqProperties
<1> QED
  BY <1>1, <1>2

(* A node that was written has a newest item ... *)
LEMMA LastWrite ==
  ASSUME NEW s \in Seq(LogItem), NEW p \in 0..Len(s), NEW n \in WrittenIn(s, p)
  PROVE  \E i \in 1..p : s[i].node = n /\ \A j \in 1..p : i < j => s[j].node # n
<1> DEFINE W == {i \in 1..p : s[i].node = n}
<1>1. W \subseteq 1..p /\ W # {} /\ p \in Nat
  BY SeqFacts DEF WrittenIn
<1>2. PICK i \in W : \A k \in W : k <= i
  BY <1>1, LastExists
<1> QED
  BY <1>2

(* ... and an oldest one. *)
LEMMA FirstWrite ==
  ASSUME NEW s \in Seq(LogItem), NEW n \in WrittenIn(s, Len(s))
  PROVE  \E i \in 1..Len(s) : s[i].node = n /\ \A j \in 1..Len(s) : j < i => s[j].node # n
<1> DEFINE W == {i \in 1..Len(s) : s[i].node = n}
<1>1. W \subseteq Nat /\ W # {}
  BY SeqFacts DEF WrittenIn
<1>2. PICK i \in W : \A k \in W : i <= k
  BY <1>1, FirstExists
<1> QED
  BY <1>2

(* The buffer holds what the newest item of a node has written. *)
LEMMA PrefixValue ==
  ASSUME NEW s \in Seq(LogItem), NEW p \in 0..Len(s), NEW i \in 1..p,
         \A j \in 1..p : i < j => s[j].node # s[i].node
  PROVE  Prefix(s, p)[s[i].node] = s[i].new
<1> DEFINE t == SubSeq(s, 1, p)
           n == s[i].node
           W == {k \in DOMAIN t : t[k].node = n}
<1>1. DOMAIN t = 1..p /\ \A k \in 1..p : t[k] = s[k]
  BY UptoFacts, SeqFacts
<1>2. i \in W /\ \A k \in W : k <= i
  BY <1>1
<1>3. W \subseteq 1..p /\ p \in Nat
  BY <1>1, SeqFacts
<1> HIDE DEF W, t
<1>4. (CHOOSE k \in W : \A l \in W : l <= k) = i
  <2>1. ASSUME NEW k \in W, \A l \in W : l <= k PROVE k = i
    BY <1>2, <1>3, <2>1
  <2> QED
    BY <1>2, <2>1
<1>5. Outcome(t, n, InitValue) = t[i].new
  BY <1>2, <1>4 DEF Outcome, W
<1>6. n \in WrittenIn(s, p)
  BY DEF WrittenIn
<1> QED
  BY <1>1, <1>5, <1>6 DEF Prefix, t

(* Items behind p do not matter to the first p. *)
LEMMA PrefixSame ==
  ASSUME NEW s \in Seq(LogItem), NEW t \in Seq(LogItem), NEW p \in Nat,
         p <= Len(s), p <= Len(t), \A i \in 1..p : s[i] = t[i]
  PROVE  Prefix(s, p) = Prefix(t, p)
<1>1. p \in 0..Len(s) /\ p \in 0..Len(t)
  BY SeqFacts
<1>2. SubSeq(s, 1, p) = SubSeq(t, 1, p)
  BY <1>1, UptoFacts, SeqEqual
<1>3. WrittenIn(s, p) = WrittenIn(t, p)
  BY DEF WrittenIn
<1> QED
  BY <1>2, <1>3 DEF Prefix

(* A write puts its value into the buffer. *)
LEMMA PrefixAppend ==
  ASSUME NEW s \in Seq(LogItem), NEW e \in LogItem
  PROVE  Prefix(Append(s, e), Len(s) + 1)
           = [m \in WrittenIn(s, Len(s)) \cup {e.node} |->
                IF m = e.node THEN e.new ELSE Prefix(s, Len(s))[m]]
<1> DEFINE t == Append(s, e)
           p == Len(s) + 1
<1>1. /\ t \in Seq(LogItem) /\ Len(t) = p /\ Len(s) \in Nat
      /\ \A i \in 1..Len(s) : t[i] = s[i]
      /\ t[p] = e
  BY AppendProperties, SeqFacts
<1> HIDE DEF t
<1>2. WrittenIn(t, p) = WrittenIn(s, Len(s)) \cup {e.node}
  BY <1>1 DEF WrittenIn
<1>3. Prefix(t, p)[e.node] = e.new
  <2>1. p \in 0..Len(t) /\ p \in 1..p /\ \A j \in 1..p : p < j => t[j].node # t[p].node
    BY <1>1
  <2>2. Prefix(t, p)[t[p].node] = t[p].new
    BY <1>1, <2>1, PrefixValue
  <2> QED
    BY <1>1, <2>2
<1>4. ASSUME NEW m \in WrittenIn(s, Len(s)), m # e.node
      PROVE  Prefix(t, p)[m] = Prefix(s, Len(s))[m]
  <2>1. PICK i \in 1..Len(s) : s[i].node = m /\ \A j \in 1..Len(s) : i < j => s[j].node # m
    BY <1>1, LastWrite
  <2>2. Prefix(s, Len(s))[m] = s[i].new
    BY <1>1, <2>1, PrefixValue
  <2>3. i \in 1..p /\ p \in 0..Len(t) /\ \A j \in 1..p : i < j => t[j].node # t[i].node
    BY <1>1, <1>4, <2>1
  <2>4. Prefix(t, p)[t[i].node] = t[i].new
    BY <1>1, <2>3, PrefixValue
  <2> QED
    BY <1>1, <2>1, <2>2, <2>4
<1>5. Prefix(t, p) = [m \in WrittenIn(t, p) |-> Prefix(t, p)[m]]
  BY DEF Prefix
<1> QED
  BY <1>2, <1>3, <1>4, <1>5 DEF t

(* An undo puts back what the oldest item of a node has overwritten. *)
LEMMA UndoneValue ==
  ASSUME NEW s \in Seq(LogItem), NEW v, NEW i \in 1..Len(s),
         \A j \in 1..Len(s) : j < i => s[j].node # s[i].node
  PROVE  Undone(s, s[i].node, v) = s[i].old
<1> DEFINE n == s[i].node
           W == {k \in DOMAIN s : s[k].node = n}
<1>1. DOMAIN s = 1..Len(s) /\ Len(s) \in Nat
  BY SeqFacts
<1>2. i \in W /\ \A k \in W : i <= k
  BY <1>1
<1>3. \A k \in W : (\A l \in W : k <= l) => k = i
  BY <1>1, <1>2
<1> HIDE DEF W
<1>4. (CHOOSE k \in W : \A l \in W : k <= l) = i
  BY <1>2, <1>3
<1> QED
  BY <1>2, <1>4 DEF Undone, W

LEMMA UndoneNone ==
  ASSUME NEW s \in Seq(LogItem), NEW v, NEW n, n \notin WrittenIn(s, Len(s))
  PROVE  Undone(s, n, v) = v
  BY SeqFacts DEF Undone, WrittenIn

(* A write changes what an undo restores only by what it logs of a node that
   was not written before. *)
LEMMA UndoneAppend ==
  ASSUME NEW s \in Seq(LogItem), NEW e \in LogItem, NEW v, NEW w, NEW n
  PROVE  /\ n \in WrittenIn(s, Len(s)) => Undone(Append(s, e), n, v) = Undone(s, n, w)
         /\ n \notin WrittenIn(s, Len(s)) /\ n = e.node => Undone(Append(s, e), n, v) = e.old
         /\ n \notin WrittenIn(s, Len(s)) /\ n # e.node => Undone(Append(s, e), n, v) = v
         /\ WrittenIn(Append(s, e), Len(s) + 1) = WrittenIn(s, Len(s)) \cup {e.node}
<1> DEFINE t == Append(s, e)
<1>1. /\ t \in Seq(LogItem) /\ Len(t) = Len(s) + 1 /\ Len(s) \in Nat
      /\ \A i \in 1..Len(s) : t[i] = s[i]
      /\ t[Len(s) + 1] = e
  BY AppendProperties, SeqFacts
<1> HIDE DEF t
<1>2. WrittenIn(t, Len(t)) = WrittenIn(s, Len(s)) \cup {e.node}
  BY <1>1 DEF WrittenIn
<1>3. ASSUME n \in WrittenIn(s, Len(s)) PROVE Undone(t, n, v) = Undone(s, n, w)
  <2>1. PICK i \in 1..Len(s) : s[i].node = n /\ \A j \in 1..Len(s) : j < i => s[j].node # n
    BY <1>3, FirstWrite
  <2>2. Undone(s, n, w) = s[i].old
    BY <2>1, UndoneValue
  <2>3. i \in 1..Len(t) /\ \A j \in 1..Len(t) : j < i => t[j].node # t[i].node
    BY <1>1, <2>1
  <2>4. Undone(t, t[i].node, v) = t[i].old
    BY <1>1, <2>3, UndoneValue
  <2> QED
    BY <1>1, <2>1, <2>2, <2>4
<1>4. ASSUME n \notin WrittenIn(s, Len(s)), n = e.node PROVE Undone(t, n, v) = e.old
  <2> DEFINE i == Len(t)
  <2>1. i \in 1..Len(t) /\ \A j \in 1..Len(t) : j < i => t[j].node # t[i].node
    BY <1>1, <1>4 DEF WrittenIn
  <2>2. Undone(t, t[i].node, v) = t[i].old
    BY <1>1, <2>1, UndoneValue
  <2> QED
    BY <1>1, <1>4, <2>2
<1>5. ASSUME n \notin WrittenIn(s, Len(s)), n # e.node PROVE Undone(t, n, v) = v
  BY <1>1, <1>2, <1>5, UndoneNone
<1> QED
  BY <1>1, <1>2, <1>3, <1>4, <1>5 DEF t

-----------------------------------------------------------------------------
(* The invariant *)

(* The newest item of a node has left what is stored, each older one what the
   next overwrote: however many are undone, the items left say what is stored. *)
ChainedItems(s, store) ==
  /\ \A i \in 1..Len(s) :
       (\A j \in 1..Len(s) : i < j => s[j].node # s[i].node) => s[i].new = store[s[i].node]
  /\ \A i, j \in 1..Len(s) :
       /\ i < j /\ s[i].node = s[j].node
       /\ \A k \in 1..Len(s) : i < k /\ k < j => s[k].node # s[i].node
       => s[i].new = s[j].old

Chained(h) == ChainedItems(log[h], mem)

(* The savepoints lie in the log, each behind the one before. *)
Ordered(h) ==
  /\ \A k \in DOMAIN nested[h] : nested[h][k].pos <= Len(log[h])
  /\ \A j, k \in DOMAIN nested[h] : j <= k => nested[h][j].pos <= nested[h][k].pos

(* k will unlock with the end time it has now. *)
EndTaken(k) ==
  \/ pc[k] \in {"unlockCommit", "unlockAbort", "unlockReadOnly"}
  \/ fastCommit /\ pc[k] \in {"push", "validate"}

(* v, loaded from node n, is still there whenever a look at the lock lets h
   use it now, or will once its owner has unlocked it. *)
Current(h, n, v) ==
  \/ v = mem[n]
  \/ /\ IsVersion(n) => lock[n] > start[h]
     /\ lock[n] # h
     /\ \A k \in Handles : lock[n] = k /\ EndTaken(k) => endTime[k] > start[h]

Loaded(h) ==
  /\ pc[h] = "check" => Current(h, access[h].node, access[h].value)
  /\ pc[h] = "copied" => Current(h, access[h].node, access[h].old)
  /\ pc[h] = "storeCopied" => access[h].old = mem[access[h].node]

AtomicityInv ==
  /\ LockInv
  /\ \A h \in Handles :
       /\ Undoable(h) => Chained(h)
       /\ Open(h) => Ordered(h)
       /\ pc[h] \in {"push", "validate"} => nested[h] = <<>>
       /\ start[h] <= time
       /\ Loaded(h)

-----------------------------------------------------------------------------
(* Functions on 1..n are sequences *)

LEMMA AsSeq ==
  ASSUME NEW n \in Nat, NEW f, f = [k \in 1..n |-> f[k]], NEW S, \A k \in 1..n : f[k] \in S
  PROVE  f \in Seq(S) /\ Len(f) = n
<1>1. f \in [1..n -> S]
  BY Zenon
<1>2. f \in Seq(S)
  BY <1>1, SeqDef
<1> QED
  BY <1>1, <1>2, LenProperties

(* f is a sequence of n elements *)
Lists(f, n) == f = [k \in 1..n |-> f[k]]

LEMMA AppendIs ==
  ASSUME NEW n \in Nat, NEW f, NEW g, NEW e, Lists(f, n), Lists(g, n + 1),
         \A k \in 1..n : g[k] = f[k], g[n + 1] = e
  PROVE  g = Append(f, e)
<1> DEFINE S == {g[k] : k \in 1..n + 1}
<1>1. g \in Seq(S) /\ Len(g) = n + 1
  BY AsSeq DEF Lists
<1>2. f \in Seq(S) /\ Len(f) = n /\ e \in S
  <2>1. ASSUME NEW k \in 1..n PROVE f[k] \in S
    <3>1. k \in 1..n + 1 /\ f[k] = g[k]
      OBVIOUS
    <3> QED
      BY <3>1
  <2>3. n + 1 \in 1..n + 1
    OBVIOUS
  <2>4. e \in S
    BY <2>3
  <2> HIDE DEF S
  <2>5. f \in Seq(S) /\ Len(f) = n
    BY <2>1, AsSeq DEF Lists
  <2> QED
    BY <2>4, <2>5
<1> HIDE DEF S
<1>3. /\ Append(f, e) \in Seq(S) /\ Len(Append(f, e)) = n + 1
      /\ \A k \in 1..n : Append(f, e)[k] = f[k]
      /\ Append(f, e)[n + 1] = e
  BY <1>2, AppendProperties
<1>4. \A k \in 1..Len(g) : g[k] = Append(f, e)[k]
  <2>1. ASSUME NEW k \in 1..n + 1 PROVE g[k] = Append(f, e)[k]
    <3>1. k \in 1..n \/ k = n + 1
      OBVIOUS
    <3> QED
      BY <1>3, <3>1
  <2> QED
    BY <1>1, <2>1
<1> QED
  BY <1>1, <1>3, <1>4, SeqEqual

(* The first n elements of a function on 1..n. *)
LEMMA SubSeqIs ==
  ASSUME NEW n \in Nat, NEW f, NEW S, \A k \in 1..n : f[k] \in S
  PROVE  /\ SubSeq(f, 1, n) \in Seq(S) /\ Len(SubSeq(f, 1, n)) = n
         /\ \A k \in 1..n : SubSeq(f, 1, n)[k] = f[k]
<1>1. /\ SubSeq(f, 1, n) \in Seq(S)
      /\ Len(SubSeq(f, 1, n)) = IF 1 <= n THEN n - 1 + 1 ELSE 0
      /\ \A k \in 1..n - 1 + 1 : SubSeq(f, 1, n)[k] = f[1 + k - 1]
  BY SubSeqProperties
<1> QED
  BY <1>1

(* The same for taking the last element away. *)
LEMMA FrontIs ==
  ASSUME NEW n \in Nat, NEW f, NEW g, Lists(f, n + 1), Lists(g, n),
         \A k \in 1..n : g[k] = f[k]
  PROVE  f # <<>> /\ Len(f) = n + 1 /\ g = SubSeq(f, 1, Len(f) - 1)
<1> DEFINE S == {f[k] : k \in 1..n + 1}
<1>1. f \in Seq(S) /\ Len(f) = n + 1
  BY AsSeq DEF Lists
<1>2. g \in Seq(S) /\ Len(g) = n
  <2>1. \A k \in 1..n : g[k] \in S
    OBVIOUS
  <2> HIDE DEF S
  <2> QED
    BY <2>1, AsSeq DEF Lists
<1>3. \A k \in 1..n : f[k] \in S
  OBVIOUS
<1> HIDE DEF S
<1>4. SubSeq(f, 1, n) \in Seq(S) /\ Len(SubSeq(f, 1, n)) = n
      /\ \A k \in 1..n : SubSeq(f, 1, n)[k] = f[k]
  BY <1>3, SubSeqIs
<1>5. \A k \in 1..n : SubSeq(f, 1, n)[k] = g[k]
  BY <1>4
<1>6. g = SubSeq(f, 1, n)
  BY <1>2, <1>4, <1>5, SeqEqual
<1>7. f # <<>>
  BY <1>1
<1> QED
  BY <1>1, <1>6, <1>7

(* A store that logs what it overwrites keeps the chain ... *)
LEMMA ChainAppend ==
  ASSUME NEW s \in Seq(LogItem), NEW e \in LogItem, NEW store \in [Nodes -> Values],
         ChainedItems(s, store), e.old = store[e.node]
  PROVE  ChainedItems(Append(s, e), [store EXCEPT ![e.node] = e.new])
<1> DEFINE t == Append(s, e)
           m == Len(s) + 1
           after == [store EXCEPT ![e.node] = e.new]
<1>1. /\ Len(s) \in Nat /\ Len(t) = m /\ e.node \in Nodes
      /\ \A i \in 1..Len(s) : t[i] = s[i] /\ s[i].node \in Nodes
      /\ t[m] = e
  <2>1. e.node \in Nodes
    BY DEF LogItem
  <2> QED
    BY <2>1, SeqFacts, AppendProperties
<1>2. \A n \in Nodes : after[n] = IF n = e.node THEN e.new ELSE store[n]
  OBVIOUS
<1> HIDE DEF t, after
<1>3. ASSUME NEW i \in 1..m, \A j \in 1..m : i < j => t[j].node # t[i].node
      PROVE  t[i].new = after[t[i].node]
  <2>1. CASE i = m
    BY <1>1, <1>2, <2>1
  <2>2. CASE i # m
    <3>1. i \in 1..Len(s) /\ s[i].node # e.node /\ t[i] = s[i]
      BY <1>1, <1>3, <2>2
    <3>2. \A j \in 1..Len(s) : i < j => s[j].node # s[i].node
      BY <1>1, <1>3, <3>1
    <3>3. s[i].new = store[s[i].node]
      BY <3>1, <3>2 DEF ChainedItems
    <3> QED
      BY <1>1, <1>2, <3>1, <3>3
  <2> QED
    BY <2>1, <2>2
<1>4. ASSUME NEW i \in 1..m, NEW j \in 1..m, i < j, t[i].node = t[j].node,
             \A k \in 1..m : i < k /\ k < j => t[k].node # t[i].node
      PROVE  t[i].new = t[j].old
  <2>1. i \in 1..Len(s) /\ t[i] = s[i]
    BY <1>1, <1>4
  <2>2. CASE j = m
    <3>1. \A k \in 1..Len(s) : i < k => s[k].node # s[i].node
      BY <1>1, <1>4, <2>1, <2>2
    <3>2. s[i].new = store[s[i].node]
      BY <2>1, <3>1 DEF ChainedItems
    <3> QED
      BY <1>1, <1>4, <2>1, <2>2, <3>2
  <2>3. CASE j # m
    <3>1. j \in 1..Len(s) /\ t[j] = s[j]
      BY <1>1, <2>3
    <3>2. \A k \in 1..Len(s) : i < k /\ k < j => s[k].node # s[i].node
      BY <1>1, <1>4, <2>1
    <3> QED
      BY <1>4, <2>1, <3>1, <3>2 DEF ChainedItems
  <2> QED
    BY <2>2, <2>3
<1>5. ChainedItems(t, after)
  BY <1>1, <1>3, <1>4 DEF ChainedItems
<1> QED
  BY <1>5 DEF t, after

(* ... and so does an undo. *)
LEMMA ChainUndo ==
  ASSUME NEW t \in Seq(LogItem), NEW e \in LogItem, NEW store \in [Nodes -> Values],
         ChainedItems(Append(t, e), store)
  PROVE  ChainedItems(t, [store EXCEPT ![e.node] = e.old])
<1> DEFINE s == Append(t, e)
           m == Len(t) + 1
           after == [store EXCEPT ![e.node] = e.old]
<1>1. /\ Len(t) \in Nat /\ Len(s) = m /\ e.node \in Nodes
      /\ \A i \in 1..Len(t) : s[i] = t[i] /\ t[i].node \in Nodes
      /\ s[m] = e
  <2>1. e.node \in Nodes
    BY DEF LogItem
  <2> QED
    BY <2>1, SeqFacts, AppendProperties
<1>2. \A n \in Nodes : after[n] = IF n = e.node THEN e.old ELSE store[n]
  OBVIOUS
<1>3. ChainedItems(s, store)
  OBVIOUS
<1> HIDE DEF s, after
<1>4. ASSUME NEW i \in 1..Len(t), \A j \in 1..Len(t) : i < j => t[j].node # t[i].node
      PROVE  t[i].new = after[t[i].node]
  <2>1. CASE t[i].node = e.node
    <3>1. \A k \in 1..m : i < k /\ k < m => s[k].node # s[i].node
      BY <1>1, <1>4
    <3>2. /\ i \in 1..Len(s) /\ m \in 1..Len(s) /\ i < m
          /\ s[i] = t[i] /\ s[i].node = s[m].node
      BY <1>1, <2>1
    <3>3. s[i].new = s[m].old
      BY ZenonT(60), <1>1, <1>3, <2>1, <3>1, <3>2 DEF ChainedItems
    <3> QED
      BY <1>1, <1>2, <2>1, <3>2, <3>3
  <2>2. CASE t[i].node # e.node
    <3>1. i \in 1..m /\ s[i] = t[i] /\ \A j \in 1..m : i < j => s[j].node # s[i].node
      BY <1>1, <1>4, <2>2
    <3>2. s[i].new = store[s[i].node]
      BY <1>1, <1>3, <3>1 DEF ChainedItems
    <3> QED
      BY <1>1, <1>2, <2>2, <3>1, <3>2
  <2> QED
    BY <2>1, <2>2
<1>5. ASSUME NEW i \in 1..Len(t), NEW j \in 1..Len(t), i < j, t[i].node = t[j].node,
             \A k \in 1..Len(t) : i < k /\ k < j => t[k].node # t[i].node
      PROVE  t[i].new = t[j].old
  <2>1. i \in 1..m /\ j \in 1..m /\ s[i] = t[i] /\ s[j] = t[j]
    BY <1>1
  <2>2. \A k \in 1..m : i < k /\ k < j => s[k].node # s[i].node
    BY <1>1, <1>5
  <2> QED
    BY <1>1, <1>3, <1>5, <2>1, <2>2 DEF ChainedItems
<1> QED
  BY <1>4, <1>5 DEF ChainedItems, after

(* Only the owner of a lock ever has something to undo under it. *)
LEMMA OneWriter ==
  ASSUME LockInv, NEW h \in Handles, NEW k \in Handles, h # k, NEW n \in Nodes,
         lock[n] = h, Undoable(k)
  PROVE  n \notin WrittenBy(k)
  BY DEF LockInv, LockDiscipline

(* WrittenBy in terms of the log. *)
LEMMA Written ==
  ASSUME LockInv, NEW h \in Handles
  PROVE  /\ log[h] \in Seq(LogItem)
         /\ WrittenBy(h) = WrittenIn(log[h], Len(log[h]))
         /\ WrittenBy(h) \subseteq Nodes
<1>1. log[h] \in Seq(LogItem)
  BY DEF LockInv, TypeInv, TypeOK
<1> QED
  BY <1>1, SeqFacts DEF WrittenBy, WrittenIn

(* The items that say what will be there after an undo, and what is there now. *)
LEMMA RolledBackIs ==
  ASSUME LockInv, NEW h \in Handles, NEW n
  PROVE  RolledBack(h, 0, n) = Undone(log[h], n, mem[n])
<1>1. log[h] \in Seq(LogItem) /\ DOMAIN log[h] = 1..Len(log[h])
  BY SeqFacts DEF LockInv, TypeInv, TypeOK
<1> DEFINE later == {i \in DOMAIN log[h] : i > 0 /\ log[h][i].node = n}
           writes == {i \in DOMAIN log[h] : log[h][i].node = n}
<1>2. later = writes
  BY <1>1
<1>3. RolledBack(h, 0, n) = IF later = {} THEN mem[n]
                            ELSE log[h][CHOOSE i \in later : \A k \in later : i <= k].old
  BY DEF RolledBack
<1>4. Undone(log[h], n, mem[n]) = IF writes = {} THEN mem[n]
                                  ELSE log[h][CHOOSE i \in writes : \A k \in writes : i <= k].old
  BY DEF Undone
<1> HIDE DEF later, writes
<1> QED
  BY <1>2, <1>3, <1>4

(* h changes an object only under its own lock, and unlocks only with the end
   time it has taken before. *)
Orderly(h) ==
  /\ fastCommit' = fastCommit
  /\ endTime' = [endTime EXCEPT ![h] = endTime'[h]]
  /\ \A j \in Handles \ {h} : pc'[j] = pc[j]
  /\ \A n \in Nodes : mem'[n] # mem[n] => lock[n] = h /\ lock'[n] = h /\ ~EndTaken(h)'
  /\ \A n \in Nodes : \/ lock'[n] = lock[n]
                      \/ lock'[n] = h /\ ~EndTaken(h)'
                      \/ lock[n] = h /\ EndTaken(h) /\ lock'[n] = endTime[h]
  /\ EndTaken(h)' => \/ EndTaken(h) /\ endTime'[h] = endTime[h]
                     \/ time < endTime'[h]

(* What k has loaded stays as good as it is, whatever another handle does. *)
LEMMA OthersCurrent ==
  ASSUME TypeOK, NEW h \in Handles, NEW k \in Handles, k # h, Orderly(h),
         start[k] <= time, start'[k] = start[k], endTime'[h] \in Nat,
         NEW n \in Nodes, NEW v, Current(k, n, v)
  PROVE  Current(k, n, v)'
<1>1. \A j \in Handles \ {h} : EndTaken(j)' = EndTaken(j) /\ endTime'[j] = endTime[j]
  BY DEF EndTaken, Orderly, TypeOK
<1>2. /\ time \in Nat /\ start[k] \in Nat /\ start[k] <= time
      /\ endTime'[h] \in Nat /\ \A j \in Handles : endTime[j] \in Nat
  BY DEF TypeOK
<1>3. CASE mem'[n] # mem[n]
  <2>1. lock'[n] = h /\ ~EndTaken(h)'
    BY <1>3 DEF Orderly
  <2> QED
    BY <2>1 DEF Current, IsVersion
<1>4. CASE mem'[n] = mem[n] /\ v = mem[n]
  BY <1>4 DEF Current
<1>5. CASE mem'[n] = mem[n] /\ v # mem[n]
  <2>1. /\ IsVersion(n) => lock[n] > start[k]
        /\ lock[n] # k
        /\ \A j \in Handles : lock[n] = j /\ EndTaken(j) => endTime[j] > start[k]
    BY <1>5 DEF Current
  <2>2. CASE lock'[n] = lock[n]
    <3>1. ASSUME NEW j \in Handles, lock'[n] = j, EndTaken(j)' PROVE endTime'[j] > start'[k]
      <4>1. CASE j = h
        BY <1>2, <2>1, <2>2, <3>1, <4>1 DEF Orderly
      <4>2. CASE j # h
        BY <1>1, <2>1, <2>2, <3>1, <4>2
      <4> QED
        BY <4>1, <4>2
    <3> QED
      BY <2>1, <2>2, <3>1 DEF Current, IsVersion
  <2>3. CASE lock'[n] = h /\ ~EndTaken(h)'
    BY <2>3 DEF Current, IsVersion
  <2>4. CASE lock[n] = h /\ EndTaken(h) /\ lock'[n] = endTime[h]
    <3>1. lock'[n] > start[k] /\ \A j \in Handles : lock'[n] # j
      BY <1>2, <2>1, <2>4, ConstAssumption
    <3> QED
      BY <3>1 DEF Current
  <2> QED
    BY <2>2, <2>3, <2>4 DEF Orderly
<1> QED
  BY <1>3, <1>4, <1>5

(* What h's step leaves of the invariant to another handle k. *)
LEMMA OthersKeep ==
  ASSUME AtomicityInv, LockInv', NEW h \in Handles, NEW k \in Handles, k # h,
         fastCommit' = fastCommit, time <= time', start'[k] = start[k],
         pc'[k] = pc[k], log'[k] = log[k], nested'[k] = nested[k], access'[k] = access[k],
         endTime' = [endTime EXCEPT ![h] = endTime'[h]],
         \A j \in Handles \ {h} : pc'[j] = pc[j],
         \A n \in Nodes : mem'[n] # mem[n] => lock[n] = h /\ lock'[n] = h /\ ~EndTaken(h)',
         \A n \in Nodes : \/ lock'[n] = lock[n]
                          \/ lock'[n] = h /\ ~EndTaken(h)'
                          \/ lock[n] = h /\ EndTaken(h) /\ lock'[n] = endTime[h],
         EndTaken(h)' => \/ EndTaken(h) /\ endTime'[h] = endTime[h]
                         \/ time < endTime'[h]
  PROVE  /\ Undoable(k)' => Chained(k)'
         /\ Open(k)' => Ordered(k)'
         /\ pc'[k] \in {"push", "validate"} => nested'[k] = <<>>
         /\ start'[k] <= time'
         /\ Loaded(k)'
<1>1. LockInv /\ TypeOK /\ TypeOK' /\ Undoable(k)' = Undoable(k) /\ Open(k)' = Open(k)
  BY DEF AtomicityInv, LockInv, TypeInv, Undoable, Open
<1>2. /\ time \in Nat /\ time' \in Nat /\ start[k] \in Nat /\ start[k] <= time
      /\ endTime'[h] \in Nat /\ \A j \in Handles : endTime[j] \in Nat
  BY <1>1 DEF AtomicityInv, TypeOK
<1>3. ASSUME Undoable(k) PROVE Chained(k)'
  <2>1. Chained(k) /\ log[k] \in Seq(LogItem)
    BY <1>1, <1>3 DEF AtomicityInv, TypeOK
  <2>2. \A i \in 1..Len(log[k]) : log[k][i].node \in WrittenBy(k) /\ log[k][i].node \in Nodes
    BY <2>1, SeqFacts DEF WrittenBy
  <2>3. \A i \in 1..Len(log[k]) : mem'[log[k][i].node] = mem[log[k][i].node]
    BY <1>1, <1>3, <2>2, OneWriter
  <2> QED
    BY <2>1, <2>3 DEF Chained, ChainedItems
<1>4. ASSUME Open(k) PROVE Ordered(k)'
  BY <1>1, <1>4 DEF AtomicityInv, Ordered
<1>5. start'[k] <= time'
  BY <1>2
<1>6. ASSUME NEW n \in Nodes, NEW v, Current(k, n, v) PROVE Current(k, n, v)'
  <2>1. Orderly(h)
    BY DEF Orderly
  <2> QED
    BY <1>1, <1>2, <1>6, <2>1, OthersCurrent
<1>7. Loaded(k)'
  <2>1. pc[k] \in {"check", "copied", "storeCopied"} => access[k].node \in Nodes
    BY DEF AtomicityInv, LockInv, TypeInv, Access
  <2>2. pc[k] = "storeCopied" => lock[access[k].node] = k
    BY <1>1, <2>1 DEF LockInv, LockDiscipline
  <2> QED
    BY <1>6, <2>1, <2>2 DEF AtomicityInv, Loaded
<1> QED
  BY <1>1, <1>3, <1>4, <1>5, <1>7 DEF AtomicityInv

(* A step of h leaves the other handles alone, but for their locks and logs. *)
OthersStay(h) ==
  \A k \in Handles \ {h} :
    /\ pc'[k] = pc[k] /\ nested'[k] = nested[k] /\ start'[k] = start[k]
    /\ access'[k] = access[k] /\ endTime'[k] = endTime[k]

(* A step of h that moves no value, lock or log keeps the invariant. *)
LEMMA QuietStepKeeps ==
  ASSUME AtomicityInv, LockInv', NEW h \in Handles,
         UNCHANGED <<fastCommit, mem, lock, log>>,
         time <= time',
         OthersStay(h),
         EndTaken(h)' => \/ EndTaken(h) /\ endTime'[h] = endTime[h]
                         \/ time < endTime'[h],
         Undoable(h)' => Undoable(h),
         Open(h)' => Ordered(h)',
         pc'[h] \in {"push", "validate"} => nested'[h] = <<>>,
         start'[h] <= time',
         Loaded(h)'
  PROVE  AtomicityInv'
<1>1. endTime' = [endTime EXCEPT ![h] = endTime'[h]]
  BY DEF AtomicityInv, LockInv, TypeInv, TypeOK, OthersStay
<1>2. ASSUME NEW k \in Handles \ {h}
      PROVE  /\ Undoable(k)' => Chained(k)'
             /\ Open(k)' => Ordered(k)'
             /\ pc'[k] \in {"push", "validate"} => nested'[k] = <<>>
             /\ start'[k] <= time'
             /\ Loaded(k)'
  <2>1. /\ pc'[k] = pc[k] /\ nested'[k] = nested[k] /\ start'[k] = start[k]
        /\ access'[k] = access[k] /\ \A j \in Handles \ {h} : pc'[j] = pc[j]
    BY DEF OthersStay
  <2> QED
    BY <1>1, <2>1, OthersKeep
<1>3. Undoable(h)' => Chained(h)'
  BY DEF AtomicityInv, Chained
<1> QED
  BY <1>2, <1>3 DEF AtomicityInv

(* Every action keeps AtomicityInv. *)
LEMMA BeginKeeps ==
  ASSUME AtomicityInv, NEW h \in Handles, Begin(h)
  PROVE  AtomicityInv'
<1>1. LockInv' /\ TypeOK /\ time \in Nat
  BY BeginLock DEF AtomicityInv, LockInv, TypeInv, TypeOK
<1>2. pc[h] = "idle" /\ pc'[h] = "run" /\ start'[h] = time
  BY <1>1 DEF Begin, Goto, TypeOK
<1>3. OthersStay(h) /\ UNCHANGED <<fastCommit, mem, lock, log, nested, time>>
  BY <1>1 DEF Begin, Goto, OthersStay, TypeOK
<1>4. Ordered(h)'
  BY <1>2, <1>3 DEF AtomicityInv, Open, Ordered
<1>5. ~EndTaken(h)' /\ Undoable(h) /\ Loaded(h)'
  BY <1>2 DEF EndTaken, Undoable, Loaded
<1> QED
  BY <1>1, <1>2, <1>3, <1>4, <1>5, QuietStepKeeps

LEMMA BeginNestedKeeps ==
  ASSUME AtomicityInv, NEW h \in Handles, BeginNested(h)
  PROVE  AtomicityInv'
<1>1. LockInv' /\ TypeOK /\ TypeOK' /\ time \in Nat
  BY BeginLock DEF AtomicityInv, LockInv, TypeInv, TypeOK
<1>2. PICK s : nested' = [nested EXCEPT ![h] = Append(nested[h], s)] /\ s.pos = Len(log[h])
  <2> DEFINE s == [readSet |-> readSet[h], pos |-> Len(log[h]), commitType |-> commitType[h],
                   seen |-> seen[h], synced |-> synced[h],
                   view |-> [n \in acquired[h] |-> mem[n]]]
  <2>1. nested' = [nested EXCEPT ![h] = Append(nested[h], s)]
    BY DEF BeginNested
  <2>2. s.pos = Len(log[h])
    OBVIOUS
  <2> HIDE DEF s
  <2> QED
    BY <2>1, <2>2
<1>3. s \in Savepoint /\ nested'[h] = Append(nested[h], s)
  <2>1. nested'[h] = Append(nested[h], s)
    BY <1>1, <1>2 DEF TypeOK
  <2>2. nested'[h] \in Seq(Savepoint)
    BY <1>1 DEF TypeOK
  <2>3. nested[h] \in Seq(Savepoint) /\ Len(nested[h]) \in Nat
    BY <1>1, LenProperties DEF TypeOK
  <2>4. nested'[h][Len(nested[h]) + 1] = s /\ Len(nested'[h]) = Len(nested[h]) + 1
    BY <2>1, <2>3
  <2>5. s \in Savepoint
    BY <2>2, <2>3, <2>4, ElementOfSeq
  <2> QED
    BY <2>1, <2>5
<1>4. pc[h] = "run" /\ pc' = pc /\ OthersStay(h)
      /\ UNCHANGED <<fastCommit, mem, lock, log, time, start, access, endTime>>
  BY <1>1, <1>2 DEF BeginNested, shared, OthersStay, TypeOK
<1>5. Ordered(h)'
  <2>1. Ordered(h)
    BY <1>4 DEF AtomicityInv, Open
  <2>2. nested[h] \in Seq(Savepoint) /\ Len(nested[h]) \in Nat /\ Len(log[h]) \in Nat
    BY <1>1, LenProperties DEF TypeOK
  <2>3. /\ DOMAIN nested[h] = 1..Len(nested[h])
        /\ DOMAIN nested'[h] = 1..Len(nested[h]) + 1
        /\ \A k \in 1..Len(nested[h]) : nested'[h][k] = nested[h][k]
        /\ nested'[h][Len(nested[h]) + 1] = s
    BY <1>3, <2>2
  <2>4. \A k \in DOMAIN nested[h] : nested[h][k].pos \in Nat
    <3>1. \A k \in DOMAIN nested[h] : nested[h][k] \in Savepoint
      BY <2>2, <2>3, ElementOfSeq
    <3> QED
      BY <3>1 DEF Savepoint
  <2>5. \A k \in DOMAIN nested'[h] : nested'[h][k].pos <= Len(log[h])
    BY <1>2, <2>1, <2>2, <2>3 DEF Ordered
  <2>6. ASSUME NEW j \in DOMAIN nested'[h], NEW k \in DOMAIN nested'[h], j <= k
        PROVE  nested'[h][j].pos <= nested'[h][k].pos
    <3>1. CASE k = Len(nested[h]) + 1
      BY <1>2, <2>3, <2>5, <3>1
    <3>2. CASE k # Len(nested[h]) + 1
      BY <2>1, <2>2, <2>3, <2>6, <3>2 DEF Ordered
    <3> QED
      BY <3>1, <3>2
  <2> QED
    BY <1>4, <2>5, <2>6 DEF Ordered
<1>6. ~EndTaken(h)' /\ Undoable(h) /\ Loaded(h)' /\ start[h] <= time
  BY <1>4 DEF EndTaken, Undoable, Loaded, AtomicityInv
<1> QED
  BY <1>1, <1>4, <1>5, <1>6, QuietStepKeeps

LEMMA ReadKeeps ==
  ASSUME AtomicityInv, NEW h \in Handles, NEW n \in Nodes,
         Load(h, n) \/ UncheckedRead(h, n)
  PROVE  AtomicityInv'
<1>1. LockInv' /\ TypeOK /\ time \in Nat /\ start[h] <= time
  BY ReadLock DEF AtomicityInv, LockInv, TypeInv, TypeOK
<1>2. pc[h] = "run" /\ OthersStay(h)
      /\ UNCHANGED <<fastCommit, mem, lock, log, nested, time, start, endTime>>
  BY <1>1 DEF Load, Goto, UncheckedRead, shared, OthersStay, TypeOK
<1>3. Ordered(h)'
  BY <1>2 DEF AtomicityInv, Open, Ordered
<1>4. pc'[h] \in {"run", "check"} /\ Loaded(h)'
  <2>1. CASE Load(h, n)
    <3>1. pc'[h] = "check" /\ access'[h].node = n /\ access'[h].value = mem[n]
      BY <1>1, <2>1 DEF Load, Goto, TypeOK
    <3> QED
      BY <1>2, <3>1 DEF Loaded, Current
  <2>2. CASE UncheckedRead(h, n)
    BY <1>2, <2>2 DEF UncheckedRead, Loaded
  <2> QED
    BY <2>1, <2>2
<1>5. ~EndTaken(h)' /\ Undoable(h)
  BY <1>2, <1>4 DEF EndTaken, Undoable
<1> QED
  BY <1>1, <1>2, <1>3, <1>4, <1>5, QuietStepKeeps

LEMMA CheckKeeps ==
  ASSUME AtomicityInv, NEW h \in Handles, Check(h)
  PROVE  AtomicityInv'
<1>1. LockInv' /\ TypeOK /\ time \in Nat /\ start[h] <= time
  BY CheckLock DEF AtomicityInv, LockInv, TypeInv, TypeOK
<1>2. pc[h] = "check" /\ pc'[h] \in {"run", "failed"} /\ OthersStay(h)
      /\ UNCHANGED <<fastCommit, mem, lock, log, nested, time, start, endTime>>
  BY <1>1 DEF Check, shared, OthersStay, TypeOK
<1>3. Ordered(h)'
  BY <1>2 DEF AtomicityInv, Open, Ordered
<1>4. ~EndTaken(h)' /\ Undoable(h) /\ Loaded(h)'
  BY <1>2 DEF EndTaken, Undoable, Loaded
<1> QED
  BY <1>1, <1>2, <1>3, <1>4, QuietStepKeeps

(* A step of h that takes a lock, or fails to. *)
LEMMA UtilLockKeeps ==
  ASSUME AtomicityInv, LockInv', NEW h \in Handles, NEW n \in Nodes,
         NEW next \in {"store", "storeCopied"}, UtilLock(h, n, next),
         OthersStay(h), pc[h] \in {"run", "copied"},
         UNCHANGED <<fastCommit, time, mem, log, nested, start, endTime>>,
         Loaded(h)'
  PROVE  AtomicityInv'
<1>1. TypeOK /\ TypeOK' /\ time \in Nat /\ start[h] <= time
  BY DEF AtomicityInv, LockInv, TypeInv, TypeOK
<1>2. pc'[h] \in {next, "failed"} /\ ~EndTaken(h)' /\ Undoable(h)
  BY <1>1 DEF UtilLock, EndTaken, Undoable, TypeOK
<1>3. \A m \in Nodes : lock'[m] = lock[m] \/ lock'[m] = h
  BY <1>1 DEF UtilLock, TypeOK
<1>4. ASSUME NEW k \in Handles \ {h}
      PROVE  /\ Undoable(k)' => Chained(k)'
             /\ Open(k)' => Ordered(k)'
             /\ pc'[k] \in {"push", "validate"} => nested'[k] = <<>>
             /\ start'[k] <= time'
             /\ Loaded(k)'
  <2>1. /\ pc'[k] = pc[k] /\ nested'[k] = nested[k] /\ start'[k] = start[k]
        /\ access'[k] = access[k] /\ \A j \in Handles \ {h} : pc'[j] = pc[j]
    BY DEF OthersStay
  <2>2. endTime' = [endTime EXCEPT ![h] = endTime'[h]]
    BY <1>1 DEF TypeOK
  <2> QED
    BY <1>1, <1>2, <1>3, <2>1, <2>2, OthersKeep
<1>5. Chained(h)' /\ Ordered(h)'
  BY <1>2 DEF AtomicityInv, Undoable, Open, Chained, Ordered
<1> QED
  BY <1>1, <1>2, <1>4, <1>5 DEF AtomicityInv

LEMMA LockForWriteKeeps ==
  ASSUME AtomicityInv, NEW h \in Handles, NEW n \in Nodes, NEW v \in Values,
         LockForWrite(h, n, v)
  PROVE  AtomicityInv'
<1>1. LockInv' /\ TypeOK
  BY WriteLock DEF AtomicityInv, LockInv, TypeInv
<1>2. pc[h] = "run" /\ UtilLock(h, n, "store") /\ OthersStay(h)
      /\ UNCHANGED <<fastCommit, time, mem, log, nested, start, endTime>>
  BY <1>1 DEF LockForWrite, UtilLock, OthersStay, TypeOK
<1>3. Loaded(h)'
  BY <1>1, <1>2 DEF UtilLock, Loaded, TypeOK
<1> QED
  BY <1>1, <1>2, <1>3, UtilLockKeeps

(* The old value that was copied before the lock was taken is still there when
   it has been taken. *)
LEMMA LockCopiedKeeps ==
  ASSUME AtomicityInv, NEW h \in Handles, LockCopied(h)
  PROVE  AtomicityInv'
<1> DEFINE n == access[h].node
<1>1. LockInv' /\ TypeOK /\ n \in Nodes
  BY LockCopiedLock DEF AtomicityInv, LockInv, TypeInv, LockCopied, Access
<1>2. pc[h] = "copied" /\ UtilLock(h, n, "storeCopied") /\ OthersStay(h)
      /\ UNCHANGED <<fastCommit, time, mem, log, nested, start, endTime, access>>
  BY <1>1 DEF LockCopied, UtilLock, OthersStay, TypeOK
<1>3. pc'[h] \in {"storeCopied", "failed"} /\ (pc'[h] = "storeCopied" => LLock(h, n))
  BY <1>1, <1>2 DEF UtilLock, TypeOK
<1>4. Current(h, n, access[h].old)
  BY <1>2 DEF AtomicityInv, Loaded
<1>5. LLock(h, n) => access[h].old = mem[n]
  BY <1>1, <1>4 DEF LLock, Current, IsVersion, TypeOK
<1>6. Loaded(h)'
  BY <1>2, <1>3, <1>5 DEF Loaded
<1> QED
  BY <1>1, <1>2, <1>6, UtilLockKeeps

LEMMA CopyOldKeeps ==
  ASSUME AtomicityInv, NEW h \in Handles, NEW n \in Nodes, NEW v \in Values,
         CopyOld(h, n, v)
  PROVE  AtomicityInv'
<1>1. LockInv' /\ TypeOK /\ time \in Nat /\ start[h] <= time
  BY WriteLock DEF AtomicityInv, LockInv, TypeInv, TypeOK
<1>2. pc[h] = "run" /\ pc'[h] = "copied" /\ OthersStay(h)
      /\ UNCHANGED <<fastCommit, mem, lock, log, nested, time, start, endTime>>
  BY <1>1 DEF CopyOld, Goto, shared, OthersStay, TypeOK
<1>3. Ordered(h)'
  BY <1>2 DEF AtomicityInv, Open, Ordered
<1>4. Loaded(h)'
  <2>1. access'[h].node = n /\ access'[h].old = mem[n]
    BY <1>1 DEF CopyOld, TypeOK
  <2> QED
    BY <1>2, <2>1 DEF Loaded, Current
<1>5. ~EndTaken(h)' /\ Undoable(h)
  BY <1>2 DEF EndTaken, Undoable
<1> QED
  BY <1>1, <1>2, <1>3, <1>4, <1>5, QuietStepKeeps

(* A store is logged with the value it overwrites. *)
LEMMA StoreItem ==
  ASSUME AtomicityInv, NEW h \in Handles, Store(h) \/ StoreCopied(h)
  PROVE  \E item \in LogItem :
           /\ item.node = access[h].node /\ item.old = mem[item.node]
           /\ item.new = access[h].value
           /\ lock[item.node] = h
           /\ log[h] \in Seq(LogItem)
           /\ log' = [log EXCEPT ![h] = Append(log[h], item)]
           /\ log'[h] = Append(log[h], item)
           /\ mem' = [mem EXCEPT ![item.node] = item.new]
           /\ pc[h] \in {"store", "storeCopied"} /\ pc'[h] = "run"
           /\ OthersStay(h)
           /\ \A k \in Handles \ {h} : log'[k] = log[k] /\ seen'[k] = seen[k]
           /\ UNCHANGED <<fastCommit, lock, nested, time, start, endTime, seen>>
<1> DEFINE a == access[h]
           item == [node |-> a.node, old |-> mem[a.node], new |-> a.value]
<1>1. TypeOK /\ a \in Access /\ log[h] \in Seq(LogItem) /\ log \in [Handles -> Seq(LogItem)]
  BY DEF Store, StoreCopied, Goto, AtomicityInv, LockInv, TypeInv, TypeOK
<1>2. a.node \in Nodes /\ a.value \in Values /\ mem[a.node] \in Values
  BY <1>1 DEF Access, TypeOK
<1>3. item \in LogItem
  BY <1>2 DEF LogItem
<1>4. pc[h] \in {"store", "storeCopied"} /\ pc'[h] = "run" /\ OthersStay(h)
      /\ UNCHANGED <<fastCommit, lock, nested, time, start, endTime, seen>>
  BY <1>1 DEF Store, StoreCopied, Goto, OthersStay, TypeOK
<1>5. lock[a.node] = h
  BY <1>2, <1>4 DEF AtomicityInv, LockInv, LockDiscipline
<1>6. StoreLogged(h, mem[a.node])
  <2>1. CASE Store(h)
    BY <2>1 DEF Store
  <2>2. CASE StoreCopied(h)
    BY <2>2 DEF StoreCopied, Goto, AtomicityInv, Loaded
  <2> QED
    BY <2>1, <2>2
<1>7. /\ log' = [log EXCEPT ![h] = Append(log[h], item)]
      /\ mem' = [mem EXCEPT ![a.node] = a.value]
  BY <1>6 DEF StoreLogged
<1>8. item.node = a.node /\ item.old = mem[a.node] /\ item.new = a.value
  OBVIOUS
<1> HIDE DEF item
<1>9. log'[h] = Append(log[h], item) /\ \A k \in Handles \ {h} : log'[k] = log[k]
  BY <1>1, <1>7
<1> QED
  BY <1>1, <1>3, <1>4, <1>5, <1>7, <1>8, <1>9

(* What a store or an undo leaves to the other handles. *)
LEMMA MemStepKeeps ==
  ASSUME AtomicityInv, LockInv', NEW h \in Handles, NEW n \in Nodes, NEW v,
         lock[n] = h, mem' = [mem EXCEPT ![n] = v],
         OthersStay(h), \A k \in Handles \ {h} : log'[k] = log[k],
         UNCHANGED <<fastCommit, time, lock, start, endTime>>,
         pc'[h] \in {"run", "undo", "undoNested"},
         Chained(h)', Open(h)' => Ordered(h)'
  PROVE  AtomicityInv'
<1>1. TypeOK /\ time \in Nat /\ start[h] <= time
  BY DEF AtomicityInv, LockInv, TypeInv, TypeOK
<1>2. ASSUME NEW k \in Handles \ {h}
      PROVE  /\ Undoable(k)' => Chained(k)'
             /\ Open(k)' => Ordered(k)'
             /\ pc'[k] \in {"push", "validate"} => nested'[k] = <<>>
             /\ start'[k] <= time'
             /\ Loaded(k)'
  <2>1. /\ pc'[k] = pc[k] /\ nested'[k] = nested[k] /\ start'[k] = start[k]
        /\ access'[k] = access[k] /\ \A j \in Handles \ {h} : pc'[j] = pc[j]
    BY DEF OthersStay
  <2>2. endTime' = [endTime EXCEPT ![h] = endTime'[h]]
    BY <1>1 DEF TypeOK
  <2>3. ~EndTaken(h)' /\ \A m \in Nodes : mem'[m] # mem[m] => m = n
    BY <1>1 DEF EndTaken, TypeOK
  <2> QED
    BY <1>1, <2>1, <2>2, <2>3, OthersKeep
<1>3. Loaded(h)'
  BY DEF Loaded
<1> QED
  BY <1>1, <1>2, <1>3 DEF AtomicityInv

LEMMA StoreKeeps ==
  ASSUME AtomicityInv, NEW h \in Handles, Store(h) \/ StoreCopied(h)
  PROVE  AtomicityInv'
<1> PICK item \in LogItem :
           /\ item.node = access[h].node /\ item.old = mem[item.node]
           /\ item.new = access[h].value
           /\ lock[item.node] = h
           /\ log[h] \in Seq(LogItem)
           /\ log' = [log EXCEPT ![h] = Append(log[h], item)]
           /\ log'[h] = Append(log[h], item)
           /\ mem' = [mem EXCEPT ![item.node] = item.new]
           /\ pc[h] \in {"store", "storeCopied"} /\ pc'[h] = "run"
           /\ OthersStay(h)
           /\ \A k \in Handles \ {h} : log'[k] = log[k] /\ seen'[k] = seen[k]
           /\ UNCHANGED <<fastCommit, lock, nested, time, start, endTime, seen>>
  BY StoreItem
<1> DEFINE s == log[h]
           m == Len(s) + 1
<1>1. LockInv' /\ item.node \in Nodes /\ mem \in [Nodes -> Values]
  BY StoreLock DEF AtomicityInv, LogItem, LockInv, TypeInv, TypeOK
<1>2. Chained(h) /\ Ordered(h)
  BY DEF AtomicityInv, Undoable, Open
<1>3. /\ Len(s) \in Nat /\ DOMAIN s = 1..Len(s) /\ DOMAIN log'[h] = 1..m /\ Len(log'[h]) = m
      /\ \A i \in 1..Len(s) : log'[h][i] = s[i] /\ s[i].node \in Nodes
      /\ log'[h][m] = item
  BY SeqFacts, AppendProperties
<1>4. Ordered(h)'
  <2>1. \A k \in DOMAIN nested[h] : nested[h][k].pos \in Nat
    <3>1. nested[h] \in Seq(Savepoint)
      BY DEF AtomicityInv, LockInv, TypeInv, TypeOK
    <3>2. \A k \in DOMAIN nested[h] : nested[h][k] \in Savepoint
      BY <3>1, LenProperties, ElementOfSeq
    <3> QED
      BY <3>2 DEF Savepoint
  <2> QED
    BY <1>2, <1>3, <2>1 DEF Ordered
<1>5. Chained(h)'
  BY <1>1, <1>2, ChainAppend DEF Chained
<1> QED
  BY <1>1, <1>4, <1>5, MemStepKeeps

(* What an undo takes from the log. *)
LEMMA UndoneItem ==
  ASSUME AtomicityInv, NEW h \in Handles, Undo(h)
  PROVE  /\ log[h] \in Seq(LogItem) /\ log[h] # <<>>
         /\ Top(log[h]) \in LogItem
         /\ Front(log[h]) \in Seq(LogItem)
         /\ log[h] = Append(Front(log[h]), Top(log[h]))
         /\ log'[h] = Front(log[h])
         /\ mem' = [mem EXCEPT ![Top(log[h]).node] = Top(log[h]).old]
         /\ Top(log[h]).node \in Nodes /\ lock[Top(log[h]).node] = h
         /\ pc[h] \in {"undo", "undoNested"} /\ pc' = pc
         /\ OthersStay(h)
         /\ \A k \in Handles \ {h} : log'[k] = log[k] /\ seen'[k] = seen[k]
         /\ UNCHANGED <<fastCommit, lock, nested, time, start, endTime, seen>>
         /\ pc[h] = "undoNested" =>
              nested[h] # <<>> /\ Top(nested[h]).pos \in Nat /\ Top(nested[h]).pos < Len(log[h])
<1>1. TypeOK /\ log[h] \in Seq(LogItem) /\ log \in [Handles -> Seq(LogItem)]
  BY DEF AtomicityInv, LockInv, TypeInv, TypeOK
<1>2. pc[h] \in {"undo", "undoNested"} /\ pc' = pc /\ OthersStay(h)
      /\ UNCHANGED <<fastCommit, lock, nested, time, start, endTime, seen>>
  BY DEF Undo, OthersStay
<1>3. pc[h] = "undoNested" =>
        nested[h] # <<>> /\ Top(nested[h]).pos \in Nat /\ Top(nested[h]).pos < Len(log[h])
  <2>1. SUFFICES ASSUME pc[h] = "undoNested"
                 PROVE  nested[h] # <<>> /\ Top(nested[h]).pos \in Nat
                        /\ Top(nested[h]).pos < Len(log[h])
    OBVIOUS
  <2>2. nested[h] # <<>> /\ nested[h] \in Seq(Savepoint)
    BY <1>1, <2>1 DEF AtomicityInv, LockInv, TypeInv, TypeOK
  <2>3. Top(nested[h]) \in Savepoint
    BY <2>2, FrontTop
  <2>4. Top(nested[h]).pos \in Nat
    BY <2>3 DEF Savepoint
  <2>5. Len(log[h]) > Top(nested[h]).pos
    BY <2>1 DEF Undo
  <2> QED
    BY <1>1, <2>2, <2>4, <2>5, SeqFacts
<1>4. log[h] # <<>>
  <2>1. CASE pc[h] = "undo"
    BY <2>1 DEF Undo
  <2>2. CASE pc[h] = "undoNested"
    <3>1. Len(log[h]) # 0
      BY <1>1, <1>3, <2>2, SeqFacts
    <3> QED
      BY <3>1
  <2> QED
    BY <1>2, <2>1, <2>2
<1>5. /\ Top(log[h]) \in LogItem /\ Front(log[h]) \in Seq(LogItem)
      /\ Len(log[h]) \in Nat \ {0} /\ Len(Front(log[h])) = Len(log[h]) - 1
      /\ \A i \in 1..Len(log[h]) - 1 : Front(log[h])[i] = log[h][i]
  BY <1>1, <1>4, FrontTop
<1>6. log[h] = Append(Front(log[h]), Top(log[h]))
  <2> DEFINE t == Append(Front(log[h]), Top(log[h]))
  <2>1. /\ t \in Seq(LogItem) /\ Len(t) = Len(log[h])
        /\ \A i \in 1..Len(log[h]) - 1 : t[i] = log[h][i]
        /\ t[Len(log[h])] = log[h][Len(log[h])]
    BY <1>5, AppendProperties DEF Top
  <2> HIDE DEF t
  <2>2. \A i \in 1..Len(log[h]) : t[i] = log[h][i]
    BY <1>5, <2>1
  <2>3. log[h] = t
    BY <1>1, <2>1, <2>2, SeqEqual
  <2> QED
    BY <2>3 DEF t
<1>7. /\ log' = [log EXCEPT ![h] = Front(log[h])]
      /\ mem' = [mem EXCEPT ![Top(log[h]).node] = Top(log[h]).old]
  BY DEF Undo, UndoItem
<1>8. Top(log[h]).node \in Nodes /\ lock[Top(log[h]).node] = h
  <2>1. Top(log[h]).node \in WrittenBy(h)
    BY <1>1, <1>5, SeqFacts DEF WrittenBy, Top
  <2>2. Undoable(h)
    BY <1>2 DEF Undoable
  <2>3. Top(log[h]).node \in Nodes
    BY <1>5 DEF LogItem
  <2> QED
    BY <2>1, <2>2, <2>3 DEF AtomicityInv, LockInv, LockDiscipline
<1>9. log'[h] = Front(log[h]) /\ \A k \in Handles \ {h} : log'[k] = log[k]
  BY <1>1, <1>7
<1> QED
  BY <1>1, <1>2, <1>3, <1>4, <1>5, <1>6, <1>7, <1>8, <1>9

LEMMA UndoKeeps ==
  ASSUME AtomicityInv, NEW h \in Handles, Undo(h)
  PROVE  AtomicityInv'
<1> DEFINE s == log[h]
           t == Front(s)
           e == Top(s)
           m == Len(s)
<1>1. /\ s \in Seq(LogItem) /\ s # <<>> /\ e \in LogItem /\ t \in Seq(LogItem)
      /\ log'[h] = t /\ s = Append(t, e)
      /\ mem' = [mem EXCEPT ![e.node] = e.old]
      /\ e.node \in Nodes /\ lock[e.node] = h
      /\ pc[h] \in {"undo", "undoNested"} /\ pc' = pc /\ OthersStay(h)
      /\ \A k \in Handles \ {h} : log'[k] = log[k]
      /\ UNCHANGED <<fastCommit, lock, nested, time, start, endTime>>
      /\ pc[h] = "undoNested" =>
              nested[h] # <<>> /\ Top(nested[h]).pos \in Nat /\ Top(nested[h]).pos < Len(log[h])
  BY UndoneItem
<1>2. LockInv' /\ mem \in [Nodes -> Values]
  BY UndoLock DEF AtomicityInv, LockInv, TypeInv, TypeOK
<1>3. /\ m \in Nat \ {0} /\ Len(t) = m - 1 /\ DOMAIN s = 1..m /\ DOMAIN t = 1..m - 1
      /\ e = s[m]
      /\ \A i \in 1..m - 1 : t[i] = s[i] /\ s[i].node \in Nodes
  BY <1>1, FrontTop, SeqFacts DEF Top
<1>4. Chained(h)
  BY <1>1 DEF AtomicityInv, Undoable
<1>5. Open(h)' => Ordered(h)'
  <2>1. SUFFICES ASSUME Open(h)' PROVE Ordered(h)'
    OBVIOUS
  <2>2. pc[h] = "undoNested" /\ Ordered(h)
    BY <1>1, <2>1 DEF Open, AtomicityInv
  <2>3. /\ nested[h] \in Seq(Savepoint) /\ Len(nested[h]) \in Nat \ {0}
        /\ DOMAIN nested[h] = 1..Len(nested[h])
    <3>1. nested[h] \in Seq(Savepoint)
      BY DEF AtomicityInv, LockInv, TypeInv, TypeOK
    <3> QED
      BY <1>1, <2>2, <3>1, FrontTop, LenProperties
  <2>4. \A k \in DOMAIN nested[h] : nested[h][k].pos \in Nat
    <3>1. \A k \in DOMAIN nested[h] : nested[h][k] \in Savepoint
      BY <2>3, ElementOfSeq
    <3> QED
      BY <3>1 DEF Savepoint
  <2>5. \A k \in DOMAIN nested[h] : nested[h][k].pos <= Top(nested[h]).pos
    BY <2>2, <2>3 DEF Ordered, Top
  <2> QED
    BY <1>1, <1>3, <2>2, <2>4, <2>5 DEF Ordered
<1>6. Chained(h)'
  BY <1>1, <1>2, <1>4, ChainUndo DEF Chained
<1> QED
  BY <1>1, <1>2, <1>5, <1>6, MemStepKeeps

(* The savepoints that are left when the innermost is dropped. *)
LEMMA FrontOrdered ==
  ASSUME AtomicityInv, NEW h \in Handles, Ordered(h), nested[h] # <<>>,
         nested'[h] = Front(nested[h]), log'[h] = log[h]
  PROVE  Ordered(h)'
<1>1. nested[h] \in Seq(Savepoint)
  BY DEF AtomicityInv, LockInv, TypeInv, TypeOK
<1>2. /\ Len(nested[h]) \in Nat \ {0} /\ DOMAIN nested[h] = 1..Len(nested[h])
      /\ DOMAIN nested'[h] = 1..Len(nested[h]) - 1
      /\ \A k \in 1..Len(nested[h]) - 1 : nested'[h][k] = nested[h][k]
  BY <1>1, FrontTop, LenProperties
<1>3. \A k \in DOMAIN nested'[h] : k \in DOMAIN nested[h] /\ nested'[h][k] = nested[h][k]
  BY <1>2
<1> QED
  BY <1>3 DEF Ordered

LEMMA CommitNestedKeeps ==
  ASSUME AtomicityInv, NEW h \in Handles, NEW ct \in CommitTypes, CommitNested(h, ct)
  PROVE  AtomicityInv'
<1>1. LockInv' /\ TypeOK /\ time \in Nat /\ start[h] <= time
  BY CommitBeginLock DEF AtomicityInv, LockInv, TypeInv, TypeOK
<1>2. pc[h] = "run" /\ pc' = pc /\ OthersStay(h)
      /\ nested[h] # <<>> /\ nested'[h] = Front(nested[h])
      /\ UNCHANGED <<fastCommit, mem, lock, log, time, start, endTime>>
  BY <1>1 DEF CommitNested, shared, OthersStay, TypeOK
<1>3. Ordered(h)'
  BY <1>2, FrontOrdered DEF AtomicityInv, Open
<1>4. ~EndTaken(h)' /\ Undoable(h) /\ Loaded(h)'
  BY <1>2 DEF EndTaken, Undoable, Loaded
<1> QED
  BY <1>1, <1>2, <1>3, <1>4, QuietStepKeeps

(* A main transaction begins to commit: an end time taken now is after every
   start. *)
LEMMA CommitBeginKeeps ==
  ASSUME AtomicityInv, NEW h \in Handles, NEW ct \in CommitTypes,
         CommitReadOnly(h, ct) \/ CommitFast(h, ct) \/ CommitLocked(h, ct)
  PROVE  AtomicityInv'
<1>1. LockInv' /\ TypeOK /\ time \in Nat /\ start[h] \in Nat /\ start[h] <= time
  BY CommitBeginLock DEF AtomicityInv, LockInv, TypeInv, TypeOK
<1>2. pc[h] = "run" /\ nested[h] = <<>> /\ OthersStay(h)
      /\ UNCHANGED <<fastCommit, mem, lock, log, nested, start>>
  BY <1>1 DEF CommitReadOnly, CommitFast, CommitLocked, Goto, Tick, OthersStay, TypeOK
<1>3. /\ pc'[h] \in {"unlockReadOnly", "push", "validate"}
      /\ pc'[h] = "validate" => ~fastCommit /\ time' = time
      /\ pc'[h] # "validate" => time' = time + 2 /\ endTime'[h] = time + 2
  BY <1>1 DEF CommitReadOnly, CommitFast, CommitLocked, Goto, Tick, TypeOK
<1>4. Ordered(h)'
  BY <1>2 DEF AtomicityInv, Open, Ordered
<1>5. time <= time' /\ start'[h] <= time' /\ (EndTaken(h)' => time < endTime'[h])
  BY <1>1, <1>2, <1>3 DEF EndTaken
<1>6. Undoable(h) /\ Loaded(h)'
  BY <1>2, <1>3 DEF Undoable, Loaded
<1> QED
  BY <1>1, <1>2, <1>3, <1>4, <1>5, <1>6, QuietStepKeeps

LEMMA ValidationKeeps ==
  ASSUME AtomicityInv, NEW h \in Handles,
         \/ Push(h)
         \/ \E n \in Nodes : ValidateOne(h, n) \/ ValidateFailed(h, n)
  PROVE  AtomicityInv'
<1>1. LockInv' /\ TypeOK /\ time \in Nat /\ start[h] <= time
  BY QueueLock, ValidationLock DEF AtomicityInv, LockInv, TypeInv, TypeOK
<1>2. pc[h] \in {"push", "validate"} /\ nested[h] = <<>> /\ OthersStay(h)
      /\ UNCHANGED <<fastCommit, mem, lock, log, nested, start, time, endTime>>
  BY <1>1
  DEF AtomicityInv, Push, ValidateOne, ValidateFailed, shared, Goto, OthersStay, TypeOK
<1>3. pc'[h] = "undo" \/ pc'[h] = "validate"
  BY <1>1 DEF Push, ValidateOne, ValidateFailed, shared, Goto, TypeOK
<1>4. Ordered(h)'
  BY <1>2 DEF AtomicityInv, Open, Ordered
<1>5. (EndTaken(h)' => EndTaken(h)) /\ Undoable(h) /\ Loaded(h)'
  BY <1>2, <1>3 DEF EndTaken, Undoable, Loaded
<1> QED
  BY <1>1, <1>2, <1>3, <1>4, <1>5, QuietStepKeeps

LEMMA ValidatedKeeps ==
  ASSUME AtomicityInv, NEW h \in Handles, Validated(h)
  PROVE  AtomicityInv'
<1>1. LockInv' /\ TypeOK /\ time \in Nat /\ start[h] \in Nat /\ start[h] <= time
  BY QueueLock DEF AtomicityInv, LockInv, TypeInv, TypeOK
<1>2. pc[h] = "validate" /\ pc'[h] = "unlockCommit" /\ OthersStay(h)
      /\ UNCHANGED <<fastCommit, mem, lock, log, nested, start>>
  BY <1>1 DEF Validated, Goto, Tick, OthersStay, TypeOK
<1>3. IF fastCommit THEN time' = time /\ endTime' = endTime
      ELSE time' = time + 2 /\ endTime'[h] = time + 2
  BY <1>1 DEF Validated, Tick, TypeOK
<1>4. time <= time' /\ start'[h] <= time'
      /\ (EndTaken(h)' => \/ EndTaken(h) /\ endTime'[h] = endTime[h]
                          \/ time < endTime'[h])
  BY <1>1, <1>2, <1>3 DEF EndTaken
<1>5. ~Open(h)' /\ ~Undoable(h)' /\ Loaded(h)'
  BY <1>2 DEF Open, Undoable, Loaded
<1> QED
  BY <1>1, <1>2, <1>4, <1>5, QuietStepKeeps

LEMMA AbortKeeps ==
  ASSUME AtomicityInv, NEW h \in Handles,
         HardAbort(h) \/ AbortNested(h) \/ AbortTick(h)
  PROVE  AtomicityInv'
<1>1. LockInv' /\ TypeOK /\ time \in Nat /\ start[h] \in Nat /\ start[h] <= time
  BY AbortLock DEF AtomicityInv, LockInv, TypeInv, TypeOK
<1>2. pc[h] \in {"run", "failed", "undo"} /\ OthersStay(h)
      /\ UNCHANGED <<fastCommit, mem, lock, log, nested, start>>
  BY <1>1 DEF HardAbort, AbortNested, AbortTick, shared, Goto, Tick, OthersStay, TypeOK
<1>3. \/ pc'[h] \in {"undo", "undoNested"} /\ time' = time
      \/ pc'[h] = "unlockAbort" /\ time' = time + 2 /\ endTime'[h] = time + 2
  BY <1>1 DEF HardAbort, AbortNested, AbortTick, shared, Goto, Tick, TypeOK
<1>4. Open(h)' => Open(h)
  BY <1>1 DEF HardAbort, AbortNested, AbortTick, Goto, Open, TypeOK
<1>5. Open(h)' => Ordered(h)'
  BY <1>2, <1>4 DEF AtomicityInv, Ordered
<1>6. time <= time' /\ start'[h] <= time' /\ (EndTaken(h)' => time < endTime'[h])
  BY <1>1, <1>2, <1>3 DEF EndTaken
<1>7. Undoable(h) /\ Loaded(h)' /\ pc'[h] \notin {"push", "validate"}
  BY <1>2, <1>3 DEF Undoable, Loaded
<1> QED
  BY <1>1, <1>2, <1>5, <1>6, <1>7, QuietStepKeeps

LEMMA NestedUndoneKeeps ==
  ASSUME AtomicityInv, NEW h \in Handles, NestedUndone(h)
  PROVE  AtomicityInv'
<1>1. LockInv' /\ TypeOK /\ time \in Nat /\ start[h] <= time
  BY AbortLock DEF AtomicityInv, LockInv, TypeInv, TypeOK
<1>2. pc[h] = "undoNested" /\ pc'[h] = "run" /\ OthersStay(h)
      /\ nested'[h] = Front(nested[h])
      /\ UNCHANGED <<fastCommit, mem, lock, log, time, start, endTime>>
  BY <1>1 DEF NestedUndone, Goto, shared, OthersStay, TypeOK
<1>3. Ordered(h)'
  <2>1. nested[h] # <<>> /\ Ordered(h)
    BY <1>2 DEF AtomicityInv, LockInv, TypeInv, Open
  <2> QED
    BY <1>2, <2>1, FrontOrdered
<1>4. ~EndTaken(h)' /\ Undoable(h) /\ Loaded(h)'
  BY <1>2 DEF EndTaken, Undoable, Loaded
<1> QED
  BY <1>1, <1>2, <1>3, <1>4, QuietStepKeeps

(* A step on the way back to idle. *)
LEMMA EndStepKeeps ==
  ASSUME AtomicityInv, LockInv', NEW h \in Handles,
         UNCHANGED <<fastCommit, mem, time>>,
         OthersStay(h), \A k \in Handles \ {h} : log'[k] = log[k],
         \A n \in Nodes : \/ lock'[n] = lock[n]
                          \/ lock[n] = h /\ EndTaken(h) /\ lock'[n] = endTime[h],
         EndTaken(h)' => EndTaken(h) /\ endTime'[h] = endTime[h],
         Undoable(h)' => Chained(h)',
         Open(h)' => Ordered(h)',
         pc'[h] \notin {"push", "validate", "check", "copied", "storeCopied"},
         start'[h] <= time'
  PROVE  AtomicityInv'
<1>1. TypeOK /\ TypeOK' /\ time \in Nat
  BY DEF AtomicityInv, LockInv, TypeInv, TypeOK
<1>2. ASSUME NEW k \in Handles \ {h}
      PROVE  /\ Undoable(k)' => Chained(k)'
             /\ Open(k)' => Ordered(k)'
             /\ pc'[k] \in {"push", "validate"} => nested'[k] = <<>>
             /\ start'[k] <= time'
             /\ Loaded(k)'
  <2>1. /\ pc'[k] = pc[k] /\ nested'[k] = nested[k] /\ start'[k] = start[k]
        /\ access'[k] = access[k] /\ \A j \in Handles \ {h} : pc'[j] = pc[j]
    BY DEF OthersStay
  <2>2. endTime' = [endTime EXCEPT ![h] = endTime'[h]]
    BY <1>1 DEF TypeOK, OthersStay
  <2> QED
    BY <1>1, <2>1, <2>2, OthersKeep
<1>3. Loaded(h)'
  BY DEF Loaded
<1> QED
  BY <1>2, <1>3 DEF AtomicityInv

LEMMA UnlockKeeps ==
  ASSUME AtomicityInv, NEW h \in Handles, NEW n \in Nodes, Unlock(h, n)
  PROVE  AtomicityInv'
<1>1. LockInv' /\ TypeOK /\ time \in Nat /\ start[h] <= time
  BY UnlockLock DEF AtomicityInv, LockInv, TypeInv, TypeOK
<1>2. pc[h] \in {"unlockCommit", "unlockAbort", "unlockReadOnly"} /\ pc' = pc /\ OthersStay(h)
      /\ UNCHANGED <<fastCommit, mem, log, nested, time, start, endTime>>
  BY <1>1 DEF Unlock, OthersStay, TypeOK
<1>3. \A m \in Nodes : lock'[m] = lock[m] \/ (lock[m] = h /\ lock'[m] = endTime[h])
  BY <1>1 DEF Unlock, TypeOK
<1>4. EndTaken(h) /\ EndTaken(h)' /\ ~Open(h)'
  BY <1>2 DEF EndTaken, Open
<1>5. Undoable(h)' => Chained(h)'
  BY <1>2 DEF AtomicityInv, Undoable, Chained
<1> QED
  BY <1>1, <1>2, <1>3, <1>4, <1>5, EndStepKeeps

LEMMA FinishKeeps ==
  ASSUME AtomicityInv, NEW h \in Handles,
         FinishCommit(h) \/ FinishReadOnly(h) \/ FinishAbort(h)
  PROVE  AtomicityInv'
<1>1. LockInv' /\ TypeOK /\ time \in Nat
  BY FinishLock DEF AtomicityInv, LockInv, TypeInv, TypeOK
<1>2. /\ pc' = [pc EXCEPT ![h] = "idle"] /\ Cleanup(h)
      /\ UNCHANGED <<fastCommit, mem, lock, time, access>>
  BY <1>1 DEF FinishCommit, FinishReadOnly, FinishAbort, Goto, shared
<1>3. OthersStay(h) /\ pc'[h] = "idle" /\ log'[h] = <<>> /\ nested'[h] = <<>> /\ start'[h] = 0
      /\ \A k \in Handles \ {h} : log'[k] = log[k]
  BY <1>1, <1>2 DEF Cleanup, OthersStay, TypeOK
<1>4. Chained(h)' /\ Ordered(h)'
  <2>1. 1..Len(log'[h]) = {} /\ DOMAIN nested'[h] = {}
    BY <1>3
  <2> QED
    BY <2>1 DEF Chained, ChainedItems, Ordered
<1>5. ~EndTaken(h)'
  BY <1>3 DEF EndTaken
<1>6. start'[h] <= time'
  BY <1>1, <1>2, <1>3
<1> QED
  BY <1>1, <1>2, <1>3, <1>4, <1>5, <1>6, EndStepKeeps

(* The invariant holds from the beginning and for ever. *)
LEMMA InitAtomicity == Init => AtomicityInv
<1> SUFFICES ASSUME Init PROVE AtomicityInv
  OBVIOUS
<1>1. LockInv
  BY InitLock
<1>2. ASSUME NEW h \in Handles
      PROVE  /\ log[h] = <<>> /\ nested[h] = <<>> /\ pc[h] = "idle" /\ start[h] <= time
             /\ 1..Len(log[h]) = {} /\ DOMAIN nested[h] = {}
  BY DEF Init
<1> QED
  BY <1>1, <1>2 DEF AtomicityInv, Chained, ChainedItems, Ordered, Loaded

LEMMA NextAtomicity == AtomicityInv /\ [Next]_vars => AtomicityInv'
<1> SUFFICES ASSUME AtomicityInv, [Next]_vars PROVE AtomicityInv'
  OBVIOUS
<1>1. ASSUME NEW h \in Handles, UserStep(h) PROVE AtomicityInv'
  BY <1>1, BeginKeeps, BeginNestedKeeps, ReadKeeps, LockForWriteKeeps, CopyOldKeeps,
     CommitNestedKeeps, CommitBeginKeeps
  DEF UserStep
<1>2. ASSUME NEW h \in Handles, CallStep(h) PROVE AtomicityInv'
  BY <1>2, CheckKeeps, StoreKeeps, LockCopiedKeeps, ValidationKeeps, ValidatedKeeps,
     UndoKeeps, NestedUndoneKeeps, AbortKeeps, UnlockKeeps, FinishKeeps
  DEF CallStep
<1>3. ASSUME NEW h \in Handles, AbortStep(h) PROVE AtomicityInv'
  BY <1>3, AbortKeeps DEF AbortStep
<1>4. CASE Quiescent \/ UNCHANGED vars
  <2>1. UNCHANGED vars
    BY <1>4 DEF Quiescent
  <2>2. LockInv'
    BY <1>4, NextLock DEF AtomicityInv, Next
  <2> QED
    BY <2>1, <2>2
    DEF vars, shared, private, AtomicityInv, Undoable, Open, Chained, Ordered, Loaded,
        Current,
        IsVersion, EndTaken
<1> QED
  BY <1>1, <1>2, <1>3, <1>4 DEF Next

-----------------------------------------------------------------------------
(* What a step of HybridStm is in AtomicStore *)

Writes(h) == Buffer(h, Kept(h))
Reads(h) == IF Open(h) THEN CheckedOnly(seen[h]) ELSE {}
Saved(h) ==
  [k \in DOMAIN Savepoints(h) |->
     [writes |-> Buffer(h, Savepoints(h)[k].pos), reads |-> CheckedOnly(Savepoints(h)[k].seen)]]

(* The other transactions look the same after a step of h. *)
OthersLook(h) ==
  \A k \in Handles \ {h} : Writes(k)' = Writes(k) /\ Reads(k)' = Reads(k) /\ Saved(k)' = Saved(k)

StoreLooks == \A n \in Nodes : Stored(n)' = Stored(n)

(* What has to be seen of a step that is one of AtomicStore. *)
LEMMA StutterMaps ==
  ASSUME NEW h \in Handles, OthersLook(h), StoreLooks,
         Writes(h)' = Writes(h), Reads(h)' = Reads(h), Saved(h)' = Saved(h)
  PROVE  UNCHANGED Abstract!vars
<1>1. \A k \in Handles : Writes(k)' = Writes(k) /\ Reads(k)' = Reads(k) /\ Saved(k)' = Saved(k)
  BY DEF OthersLook
<1>2. [n \in Nodes |-> Stored(n)]' = [n \in Nodes |-> Stored(n)]
  BY DEF StoreLooks
<1>3. [k \in Handles |-> Writes(k)]' = [k \in Handles |-> Writes(k)]
  BY <1>1
<1>4. [k \in Handles |-> Reads(k)]' = [k \in Handles |-> Reads(k)]
  BY <1>1
<1>5. [k \in Handles |-> Saved(k)]' = [k \in Handles |-> Saved(k)]
  BY <1>1
<1> QED
  BY <1>2, <1>3, <1>4, <1>5 DEF Abstract!vars, Writes, Reads, Saved

LEMMA ReadMaps ==
  ASSUME NEW h \in Handles, NEW n \in Nodes, OthersLook(h), StoreLooks,
         n \notin DOMAIN Writes(h),
         Writes(h)' = Writes(h), Saved(h)' = Saved(h),
         Reads(h)' = Reads(h) \cup {[node |-> n, value |-> Stored(n)]}
  PROVE  Abstract!Read(h, n)
<1>1. \A k \in Handles : Writes(k)' = Writes(k) /\ Saved(k)' = Saved(k)
  BY DEF OthersLook
<1>2. [m \in Nodes |-> Stored(m)]' = [m \in Nodes |-> Stored(m)]
  BY DEF StoreLooks
<1>3. [k \in Handles |-> Writes(k)]' = [k \in Handles |-> Writes(k)]
  BY <1>1
<1>4. [k \in Handles |-> Reads(k)]' = [[k \in Handles |-> Reads(k)] EXCEPT ![h] =
         @ \cup {[node |-> n, value |-> [m \in Nodes |-> Stored(m)][n]]}]
  BY DEF OthersLook
<1>5. [k \in Handles |-> Saved(k)]' = [k \in Handles |-> Saved(k)]
  BY <1>1
<1>6. n \notin DOMAIN [k \in Handles |-> Writes(k)][h]
  OBVIOUS
<1> QED
  BY <1>2, <1>3, <1>4, <1>5, <1>6 DEF Abstract!Read, Writes, Reads, Saved

LEMMA WriteMaps ==
  ASSUME NEW h \in Handles, NEW n \in Nodes, NEW v \in Values, OthersLook(h), StoreLooks,
         \A k \in Handles \ {h} : n \notin DOMAIN Writes(k),
         Writes(h)' = [m \in DOMAIN Writes(h) \cup {n} |-> IF m = n THEN v ELSE Writes(h)[m]],
         Reads(h)' = Reads(h), Saved(h)' = Saved(h)
  PROVE  Abstract!Write(h, n, v)
<1>1. \A k \in Handles : Reads(k)' = Reads(k) /\ Saved(k)' = Saved(k)
  BY DEF OthersLook
<1>2. [m \in Nodes |-> Stored(m)]' = [m \in Nodes |-> Stored(m)]
  BY DEF StoreLooks
<1>3. [k \in Handles |-> Writes(k)]' = [[k \in Handles |-> Writes(k)] EXCEPT ![h] =
         [m \in DOMAIN @ \cup {n} |-> IF m = n THEN v ELSE @[m]]]
  BY DEF OthersLook
<1>4. [k \in Handles |-> Reads(k)]' = [k \in Handles |-> Reads(k)]
  BY <1>1
<1>5. [k \in Handles |-> Saved(k)]' = [k \in Handles |-> Saved(k)]
  BY <1>1
<1>6. \A k \in Handles \ {h} : n \notin DOMAIN [j \in Handles |-> Writes(j)][k]
  OBVIOUS
<1> QED
  BY <1>2, <1>3, <1>4, <1>5, <1>6 DEF Abstract!Write, Writes, Reads, Saved

LEMMA SaveMaps ==
  ASSUME NEW h \in Handles, OthersLook(h), StoreLooks,
         Writes(h)' = Writes(h), Reads(h)' = Reads(h),
         Saved(h)' = Append(Saved(h), [writes |-> Writes(h), reads |-> Reads(h)])
  PROVE  Abstract!Save(h)
<1>1. \A k \in Handles : Writes(k)' = Writes(k) /\ Reads(k)' = Reads(k)
  BY DEF OthersLook
<1>2. [m \in Nodes |-> Stored(m)]' = [m \in Nodes |-> Stored(m)]
  BY DEF StoreLooks
<1>3. [k \in Handles |-> Writes(k)]' = [k \in Handles |-> Writes(k)]
  BY <1>1
<1>4. [k \in Handles |-> Reads(k)]' = [k \in Handles |-> Reads(k)]
  BY <1>1
<1>5. [k \in Handles |-> Saved(k)]' = [[k \in Handles |-> Saved(k)] EXCEPT ![h] =
         Append(@, [writes |-> [k \in Handles |-> Writes(k)][h],
                    reads |-> [k \in Handles |-> Reads(k)][h]])]
  BY DEF OthersLook
<1> QED
  BY <1>2, <1>3, <1>4, <1>5 DEF Abstract!Save, Writes, Reads, Saved

LEMMA KeepMaps ==
  ASSUME NEW h \in Handles, OthersLook(h), StoreLooks,
         Writes(h)' = Writes(h), Reads(h)' = Reads(h),
         Saved(h) # <<>>, Saved(h)' = SubSeq(Saved(h), 1, Len(Saved(h)) - 1)
  PROVE  Abstract!Keep(h)
<1>1. \A k \in Handles : Writes(k)' = Writes(k) /\ Reads(k)' = Reads(k)
  BY DEF OthersLook
<1>2. [m \in Nodes |-> Stored(m)]' = [m \in Nodes |-> Stored(m)]
  BY DEF StoreLooks
<1>3. [k \in Handles |-> Writes(k)]' = [k \in Handles |-> Writes(k)]
  BY <1>1
<1>4. [k \in Handles |-> Reads(k)]' = [k \in Handles |-> Reads(k)]
  BY <1>1
<1>5. /\ [k \in Handles |-> Saved(k)][h] # <<>>
      /\ [k \in Handles |-> Saved(k)]' =
           [[k \in Handles |-> Saved(k)] EXCEPT ![h] = SubSeq(@, 1, Len(@) - 1)]
  BY DEF OthersLook
<1> QED
  BY <1>2, <1>3, <1>4, <1>5 DEF Abstract!Keep, Writes, Reads, Saved

LEMMA RevertMaps ==
  ASSUME NEW h \in Handles, OthersLook(h), StoreLooks,
         Saved(h) # <<>>, Saved(h)' = SubSeq(Saved(h), 1, Len(Saved(h)) - 1),
         Writes(h)' = Saved(h)[Len(Saved(h))].writes,
         Reads(h)' = Saved(h)[Len(Saved(h))].reads
  PROVE  Abstract!Revert(h)
<1> DEFINE saved_ == [k \in Handles |-> Saved(k)]
           s == saved_[h][Len(saved_[h])]
<1>1. saved_[h] = Saved(h)
  OBVIOUS
<1>2. [m \in Nodes |-> Stored(m)]' = [m \in Nodes |-> Stored(m)]
  BY DEF StoreLooks
<1>3. [k \in Handles |-> Writes(k)]' = [[k \in Handles |-> Writes(k)] EXCEPT ![h] = s.writes]
  BY DEF OthersLook
<1>4. [k \in Handles |-> Reads(k)]' = [[k \in Handles |-> Reads(k)] EXCEPT ![h] = s.reads]
  BY DEF OthersLook
<1>5. /\ saved_[h] # <<>>
      /\ saved_' = [saved_ EXCEPT ![h] = SubSeq(@, 1, Len(@) - 1)]
  BY DEF OthersLook
<1> QED
  BY <1>2, <1>3, <1>4, <1>5 DEF Abstract!Revert, Writes, Reads, Saved

Forgotten(h) == Writes(h)' = [n \in {} |-> InitValue] /\ Reads(h)' = {} /\ Saved(h)' = <<>>

LEMMA ForgetMaps ==
  ASSUME NEW h \in Handles, OthersLook(h), Forgotten(h)
  PROVE  Abstract!Forget(h)
<1>1. [k \in Handles |-> Writes(k)]' =
         [[k \in Handles |-> Writes(k)] EXCEPT ![h] = [n \in {} |-> InitValue]]
  BY DEF OthersLook, Forgotten
<1>2. [k \in Handles |-> Reads(k)]' = [[k \in Handles |-> Reads(k)] EXCEPT ![h] = {}]
  BY DEF OthersLook, Forgotten
<1>3. [k \in Handles |-> Saved(k)]' = [[k \in Handles |-> Saved(k)] EXCEPT ![h] = <<>>]
  BY DEF OthersLook, Forgotten
<1> QED
  BY <1>1, <1>2, <1>3 DEF Abstract!Forget, Abstract!NoWrites, Writes, Reads, Saved

LEMMA AbortMaps ==
  ASSUME NEW h \in Handles, OthersLook(h), StoreLooks, Forgotten(h)
  PROVE  Abstract!Abort(h)
<1>1. [m \in Nodes |-> Stored(m)]' = [m \in Nodes |-> Stored(m)]
  BY DEF StoreLooks
<1> QED
  BY <1>1, ForgetMaps DEF Abstract!Abort

LEMMA CommitMaps ==
  ASSUME NEW h \in Handles, OthersLook(h), Forgotten(h), Saved(h) = <<>>,
         \A n \in Nodes : Stored(n)' = IF n \in DOMAIN Writes(h) THEN Writes(h)[n] ELSE Stored(n)
  PROVE  Abstract!Commit(h)
<1> DEFINE writes_ == [k \in Handles |-> Writes(k)]
           store_ == [n \in Nodes |-> Stored(n)]
<1>1. store_' = [n \in Nodes |-> IF n \in DOMAIN writes_[h] THEN writes_[h][n] ELSE store_[n]]
  OBVIOUS
<1>2. [k \in Handles |-> Saved(k)][h] = <<>>
  OBVIOUS
<1> QED
  BY <1>1, <1>2, ForgetMaps DEF Abstract!Commit, Writes, Saved

-----------------------------------------------------------------------------
(* How a handle at l looks that has log s, savepoints p and reads r *)

OpenAt(l) == l \notin {"undo", "unlockAbort", "unlockCommit", "unlockReadOnly"}

WritesOf(l, s, p) ==
  Prefix(s, IF ~OpenAt(l) THEN 0 ELSE IF l = "undoNested" THEN Top(p).pos ELSE Len(s))

ReadsOf(l, r) == IF OpenAt(l) THEN CheckedOnly(r) ELSE {}

SavedAs(s, p) ==
  [k \in DOMAIN p |-> [writes |-> Prefix(s, p[k].pos), reads |-> CheckedOnly(p[k].seen)]]

SavedOf(l, s, p) ==
  SavedAs(s, IF ~OpenAt(l) THEN <<>> ELSE IF l = "undoNested" THEN Front(p) ELSE p)

(* The mapped variables in terms of these. *)
LEMMA Looks ==
  ASSUME NEW h \in Handles
  PROVE  /\ Writes(h) = WritesOf(pc[h], log[h], nested[h])
         /\ Reads(h) = ReadsOf(pc[h], seen[h])
         /\ Saved(h) = SavedOf(pc[h], log[h], nested[h])
         /\ Writes(h)' = WritesOf(pc'[h], log'[h], nested'[h])
         /\ Reads(h)' = ReadsOf(pc'[h], seen'[h])
         /\ Saved(h)' = SavedOf(pc'[h], log'[h], nested'[h])
<1>1. /\ Writes(h) = WritesOf(pc[h], log[h], nested[h])
      /\ Writes(h)' = WritesOf(pc'[h], log'[h], nested'[h])
  BY DEF Writes, Buffer, Kept, Open, WritesOf, OpenAt, Prefix, WrittenIn
<1>2. Reads(h) = ReadsOf(pc[h], seen[h]) /\ Reads(h)' = ReadsOf(pc'[h], seen'[h])
  BY DEF Reads, Open, ReadsOf, OpenAt
<1>3. /\ Saved(h) = SavedOf(pc[h], log[h], nested[h])
      /\ Saved(h)' = SavedOf(pc'[h], log'[h], nested'[h])
  BY DEF Saved, Savepoints, Buffer, Open, SavedOf, SavedAs, OpenAt, Prefix, WrittenIn
<1> QED
  BY <1>1, <1>2, <1>3

(* A transaction without savepoints. *)
LEMMA NoneSaved == \A s : SavedAs(s, <<>>) = <<>>
<1>1. DOMAIN <<>> = {}
  OBVIOUS
<1>2. ASSUME NEW s PROVE SavedAs(s, <<>>) = [k \in {} |-> 0]
  BY <1>1 DEF SavedAs
<1>3. <<>> = [k \in {} |-> 0]
  BY <1>1
<1> QED
  BY <1>2, <1>3

(* A transaction that has ended looks like none. *)
LEMMA ClosedLooks ==
  ASSUME NEW l, ~OpenAt(l), NEW s, NEW p, NEW r
  PROVE  /\ WritesOf(l, s, p) = [n \in {} |-> InitValue]
         /\ ReadsOf(l, r) = {} /\ SavedOf(l, s, p) = <<>>
<1>1. WrittenIn(s, 0) = {}
  BY DEF WrittenIn
<1>2. Prefix(s, 0) = [n \in {} |-> InitValue]
  BY <1>1 DEF Prefix
<1> QED
  BY <1>2, NoneSaved DEF WritesOf, ReadsOf, SavedOf

(* One that goes on shows its whole log. *)
LEMMA ActiveLooks ==
  ASSUME NEW l, OpenAt(l), l # "undoNested", NEW s, NEW p, NEW r
  PROVE  /\ WritesOf(l, s, p) = Prefix(s, Len(s))
         /\ ReadsOf(l, r) = CheckedOnly(r) /\ SavedOf(l, s, p) = SavedAs(s, p)
  BY DEF WritesOf, ReadsOf, SavedOf

(* Whoever is left alone looks the same. *)
LEMMA OthersLookSame ==
  ASSUME NEW h \in Handles,
         \A k \in Handles \ {h} : /\ pc'[k] = pc[k] /\ log'[k] = log[k]
                                  /\ nested'[k] = nested[k] /\ seen'[k] = seen[k]
  PROVE  OthersLook(h)
  BY Looks DEF OthersLook

(* Savepoints are not touched by what happens to the log behind them. *)
LEMMA SavedSame ==
  ASSUME NEW s \in Seq(LogItem), NEW t \in Seq(LogItem), NEW p,
         \A k \in DOMAIN p : p[k].pos \in Nat /\ p[k].pos <= Len(s) /\ p[k].pos <= Len(t),
         \A k \in DOMAIN p : \A i \in 1..p[k].pos : s[i] = t[i]
  PROVE  SavedAs(s, p) = SavedAs(t, p)
<1>1. \A k \in DOMAIN p : Prefix(s, p[k].pos) = Prefix(t, p[k].pos)
  BY PrefixSame
<1> QED
  BY <1>1 DEF SavedAs

(* A savepoint is set ... *)
LEMMA SavedAppend ==
  ASSUME NEW s, NEW p \in Seq(Savepoint), NEW x \in Savepoint
  PROVE  SavedAs(s, Append(p, x))
           = Append(SavedAs(s, p), [writes |-> Prefix(s, x.pos), reads |-> CheckedOnly(x.seen)])
<1> DEFINE q == Append(p, x)
           e == [writes |-> Prefix(s, x.pos), reads |-> CheckedOnly(x.seen)]
           f == SavedAs(s, p)
           g == SavedAs(s, q)
<1>1. /\ Len(p) \in Nat /\ DOMAIN p = 1..Len(p) /\ DOMAIN q = 1..Len(p) + 1
      /\ \A k \in 1..Len(p) : q[k] = p[k]
      /\ q[Len(p) + 1] = x
  BY LenProperties, AppendProperties
<1> HIDE DEF q
<1>2. Lists(f, Len(p)) /\ Lists(g, Len(p) + 1)
  BY <1>1 DEF SavedAs, Lists
<1>3. \A k \in 1..Len(p) : k \in 1..Len(p) + 1 /\ g[k] = f[k]
  BY <1>1 DEF SavedAs
<1>4. g[Len(p) + 1] = e
  <2>1. Len(p) + 1 \in 1..Len(p) + 1
    BY <1>1
  <2> QED
    BY <1>1, <2>1 DEF SavedAs
<1> HIDE DEF f, g, e
<1>5. g = Append(f, e)
  BY <1>1, <1>2, <1>3, <1>4, AppendIs
<1> QED
  BY <1>5 DEF f, g, e, q

(* ... and dropped. *)
LEMMA SavedFront ==
  ASSUME NEW s, NEW p \in Seq(Savepoint), p # <<>>
  PROVE  LET f == SavedAs(s, p) IN
           /\ f # <<>>
           /\ SavedAs(s, Front(p)) = SubSeq(f, 1, Len(f) - 1)
           /\ f[Len(f)] = [writes |-> Prefix(s, Top(p).pos), reads |-> CheckedOnly(Top(p).seen)]
<1> DEFINE f == SavedAs(s, p)
           g == SavedAs(s, Front(p))
           n == Len(p) - 1
<1>1. /\ n \in Nat /\ DOMAIN p = 1..n + 1 /\ DOMAIN Front(p) = 1..n
      /\ \A k \in 1..n : Front(p)[k] = p[k]
      /\ Top(p) = p[n + 1]
  BY FrontTop, LenProperties DEF Top
<1> HIDE DEF n
<1>2. Lists(f, n + 1) /\ Lists(g, n)
  BY <1>1 DEF SavedAs, Lists
<1>3. \A k \in 1..n : k \in 1..n + 1 /\ g[k] = f[k]
  BY <1>1 DEF SavedAs
<1>4. f[n + 1] = [writes |-> Prefix(s, Top(p).pos), reads |-> CheckedOnly(Top(p).seen)]
  <2>1. n + 1 \in 1..n + 1
    BY <1>1
  <2> QED
    BY <1>1, <2>1 DEF SavedAs
<1> HIDE DEF f, g
<1>5. f # <<>> /\ Len(f) = n + 1 /\ g = SubSeq(f, 1, Len(f) - 1)
  BY <1>1, <1>2, <1>3, FrontIs
<1> QED
  BY <1>4, <1>5 DEF f, g

-----------------------------------------------------------------------------
(* The store *)

Writers(n) == {h \in Handles : n \in WrittenBy(h) /\ Undoable(h)}

(* What is stored under a lock nobody has written under, and under h's own. *)
StoredIs ==
  /\ \A n \in Nodes : Writers(n) = {} => Stored(n) = mem[n]
  /\ \A h \in Handles, n \in Nodes :
       LockInv /\ Undoable(h) /\ lock[n] = h => Stored(n) = Undone(log[h], n, mem[n])

LEMMA StoredFacts == StoredIs
<1>1. \A n \in Nodes : Writers(n) = {} => Stored(n) = mem[n]
  BY DEF Stored, Writers
<1>2. ASSUME NEW h \in Handles, NEW n \in Nodes, LockInv, Undoable(h), lock[n] = h
      PROVE  Stored(n) = Undone(log[h], n, mem[n])
  <2>1. \A k \in Writers(n) : k = h
    BY <1>2, OneWriter DEF Writers
  <2>2. CASE Writers(n) = {}
    <3>1. n \notin WrittenBy(h)
      BY <1>2, <2>2 DEF Writers
    <3>2. Undone(log[h], n, mem[n]) = mem[n]
      BY <1>2, <3>1, Written, UndoneNone
    <3> QED
      BY <1>1, <2>2, <3>2
  <2>3. CASE Writers(n) # {}
    <3>1. (CHOOSE k \in Writers(n) : TRUE) = h
      BY <2>1, <2>3
    <3>2. Stored(n) = RolledBack(h, 0, n)
      BY <2>3, <3>1 DEF Stored, Writers
    <3> QED
      BY <1>2, <3>2, RolledBackIs
  <2> QED
    BY <2>2, <2>3
<1> QED
  BY <1>1, <1>2 DEF StoredIs

LEMMA StoredFactsNext == StoredIs'
  BY StoredFacts, PTL

AWriter(n) == CHOOSE h \in Writers(n) : TRUE

LEMMA StoredCases ==
  ASSUME NEW n
  PROVE  /\ Stored(n) = IF Writers(n) = {} THEN mem[n] ELSE RolledBack(AWriter(n), 0, n)
         /\ Stored(n)' = IF Writers(n)' = {} THEN mem'[n]
                         ELSE RolledBack(AWriter(n), 0, n)'
  BY DEF Stored, Writers, AWriter

(* RolledBack with the log and the object's value for parameters *)
BackOf(s, p, n, v) ==
  LET later == {i \in DOMAIN s : i > p /\ s[i].node = n}
  IN  IF later = {} THEN v ELSE s[CHOOSE i \in later : \A k \in later : i <= k].old

LEMMA RolledBackOf ==
  ASSUME NEW h, NEW p, NEW n
  PROVE  /\ RolledBack(h, p, n) = BackOf(log[h], p, n, mem[n])
         /\ RolledBack(h, p, n)' = BackOf(log'[h], p, n, mem'[n])
  BY DEF RolledBack, BackOf

(* What is stored moves only with the owner of its lock. *)
LEMMA StoredOthers ==
  ASSUME NEW h \in Handles, NEW n \in Nodes, mem'[n] = mem[n],
         \A k \in Handles \ {h} : pc'[k] = pc[k] /\ log'[k] = log[k],
         h \notin Writers(n), h \notin Writers(n)'
  PROVE  Stored(n)' = Stored(n)
<1>1. Writers(n)' = Writers(n)
  BY DEF Writers, WrittenBy, Undoable
<1>2. ASSUME NEW k \in Writers(n) PROVE RolledBack(k, 0, n)' = RolledBack(k, 0, n)
  <2>1. log'[k] = log[k]
    BY DEF Writers
  <2> QED
    BY <2>1, RolledBackOf
<1>3. /\ Stored(n) = IF Writers(n) = {} THEN mem[n]
                     ELSE RolledBack(AWriter(n), 0, n)
      /\ Stored(n)' = IF Writers(n)' = {} THEN mem'[n]
                      ELSE RolledBack(AWriter(n), 0, n)'
  BY StoredCases
<1>4. AWriter(n)' = AWriter(n) /\ (Writers(n) # {} => AWriter(n) \in Writers(n))
  BY <1>1 DEF AWriter
<1> QED
  BY <1>1, <1>2, <1>3, <1>4

(* A step that moves neither memory nor logs moves nothing that is stored. *)
LEMMA StoreQuiet ==
  ASSUME UNCHANGED <<mem, log>>, \A k \in Handles : Undoable(k)' = Undoable(k)
  PROVE  StoreLooks
<1>1. ASSUME NEW n \in Nodes PROVE Writers(n)' = Writers(n)
  BY DEF Writers, WrittenBy
<1>2. ASSUME NEW n \in Nodes, NEW k \in Handles PROVE RolledBack(k, 0, n)' = RolledBack(k, 0, n)
  BY DEF RolledBack
<1>3. ASSUME NEW n \in Nodes PROVE Stored(n)' = Stored(n)
  <2>1. /\ Stored(n) = IF Writers(n) = {} THEN mem[n]
                       ELSE RolledBack(AWriter(n), 0, n)
        /\ Stored(n)' = IF Writers(n)' = {} THEN mem'[n]
                        ELSE RolledBack(AWriter(n), 0, n)'
    BY StoredCases
  <2>2. AWriter(n)' = AWriter(n) /\ (Writers(n) # {} => AWriter(n) \in Handles)
    BY <1>1 DEF Writers, AWriter
  <2> QED
    BY <1>1, <1>2, <2>1, <2>2
<1> QED
  BY <1>3 DEF StoreLooks

(* A store or an undo under h's own lock changes nothing for anybody else: what
   h would put back stays what it was. *)
LEMMA StoreUnderLock ==
  ASSUME LockInv, LockInv', NEW h \in Handles, Undoable(h), Undoable(h)', lock' = lock,
         \A k \in Handles \ {h} : pc'[k] = pc[k] /\ log'[k] = log[k],
         \A n \in Nodes : mem'[n] # mem[n] => lock[n] = h,
         \A n \in Nodes : lock[n] = h => Undone(log'[h], n, mem'[n]) = Undone(log[h], n, mem[n])
  PROVE  StoreLooks
<1>1. ASSUME NEW n \in Nodes, lock[n] = h PROVE Stored(n)' = Stored(n)
  BY <1>1, StoredFacts, StoredFactsNext DEF StoredIs
<1>2. ASSUME NEW n \in Nodes, lock[n] # h PROVE Stored(n)' = Stored(n)
  <2>1. h \notin Writers(n) /\ h \notin Writers(n)'
    BY <1>2 DEF Writers, LockInv, LockDiscipline
  <2> QED
    BY <1>2, <2>1, StoredOthers
<1> QED
  BY <1>1, <1>2 DEF StoreLooks

(* What an open transaction has written. *)
LEMMA DomainWrites ==
  ASSUME AtomicityInv, NEW h \in Handles
  PROVE  /\ DOMAIN Writes(h) \subseteq WrittenBy(h)
         /\ ~Open(h) => DOMAIN Writes(h) = {}
         /\ Open(h) /\ pc[h] # "undoNested" => DOMAIN Writes(h) = WrittenBy(h)
<1>1. WrittenBy(h) = WrittenIn(log[h], Len(log[h])) /\ Len(log[h]) \in Nat
  BY Written, SeqFacts DEF AtomicityInv
<1>2. DOMAIN Writes(h) = WrittenIn(log[h], Kept(h))
  BY DEF Writes, Buffer, WrittenIn
<1>3. WrittenIn(log[h], 0) = {}
  BY DEF WrittenIn
<1>4. CASE Open(h) /\ pc[h] = "undoNested"
  <2>1. nested[h] # <<>> /\ nested[h] \in Seq(Savepoint) /\ Ordered(h)
    BY <1>4 DEF AtomicityInv, LockInv, TypeInv, TypeOK
  <2>2. Top(nested[h]) \in Savepoint /\ Len(nested[h]) \in DOMAIN nested[h]
    BY <2>1, FrontTop, LenProperties
  <2>3. Top(nested[h]).pos \in Nat /\ Top(nested[h]).pos <= Len(log[h])
    BY <2>1, <2>2 DEF Ordered, Top, Savepoint
  <2>4. WrittenIn(log[h], Top(nested[h]).pos) \subseteq WrittenIn(log[h], Len(log[h]))
    BY <1>1, <2>3 DEF WrittenIn
  <2> QED
    BY <1>1, <1>2, <1>4, <2>4 DEF Kept
<1> QED
  BY <1>1, <1>2, <1>3, <1>4 DEF Kept

-----------------------------------------------------------------------------
(* The steps *)

Stutter == UNCHANGED Abstract!vars

(* A transaction goes on without having changed anything. *)
LEMMA ActiveStutters ==
  ASSUME NEW h \in Handles, UNCHANGED <<mem, log>>, OthersStay(h),
         \A k \in Handles \ {h} : seen'[k] = seen[k],
         Open(h), Open(h)', pc[h] # "undoNested", pc'[h] # "undoNested",
         nested'[h] = nested[h], CheckedOnly(seen'[h]) = CheckedOnly(seen[h])
  PROVE  Stutter
<1>1. OthersLook(h)
  BY OthersLookSame DEF OthersStay
<1>2. StoreLooks
  <2>1. \A k \in Handles : Undoable(k)' = Undoable(k)
    BY DEF Undoable, Open, OthersStay
  <2> QED
    BY <2>1, StoreQuiet
<1>3. Writes(h)' = Writes(h) /\ Reads(h)' = Reads(h) /\ Saved(h)' = Saved(h)
  BY Looks, ActiveLooks DEF Open, OpenAt
<1> QED
  BY <1>1, <1>2, <1>3, StutterMaps DEF Stutter

(* A handle whose transaction has ended. *)
LEMMA ClosedHandle ==
  ASSUME NEW h \in Handles
  PROVE  /\ ~Open(h) => Writes(h) = [n \in {} |-> InitValue] /\ Reads(h) = {} /\ Saved(h) = <<>>
         /\ ~Open(h)' => Forgotten(h)
<1>1. ASSUME NEW l, ~OpenAt(l), NEW s, NEW p, NEW r
      PROVE  /\ WritesOf(l, s, p) = [n \in {} |-> InitValue]
             /\ ReadsOf(l, r) = {} /\ SavedOf(l, s, p) = <<>>
  BY <1>1, ClosedLooks
<1>2. /\ ~OpenAt(pc[h]) => /\ WritesOf(pc[h], log[h], nested[h]) = [n \in {} |-> InitValue]
                           /\ ReadsOf(pc[h], seen[h]) = {}
                           /\ SavedOf(pc[h], log[h], nested[h]) = <<>>
      /\ ~OpenAt(pc'[h]) => /\ WritesOf(pc'[h], log'[h], nested'[h]) = [n \in {} |-> InitValue]
                            /\ ReadsOf(pc'[h], seen'[h]) = {}
                            /\ SavedOf(pc'[h], log'[h], nested'[h]) = <<>>
  BY <1>1, Zenon
<1>3. (~Open(h) => ~OpenAt(pc[h])) /\ (~Open(h)' => ~OpenAt(pc'[h]))
  BY DEF Open, OpenAt
<1> QED
  BY <1>2, <1>3, Looks DEF Forgotten

(* The same for a handle that only cleans up. *)
LEMMA ClosedStutters ==
  ASSUME NEW h \in Handles, OthersLook(h), StoreLooks, ~Open(h), ~Open(h)'
  PROVE  Stutter
<1>1. Writes(h)' = Writes(h) /\ Reads(h)' = Reads(h) /\ Saved(h)' = Saved(h)
  BY ClosedHandle DEF Forgotten
<1> QED
  BY <1>1, StutterMaps DEF Stutter

LEMMA QuietStutters ==
  ASSUME AtomicityInv, NEW h \in Handles,
         \/ Begin(h) \/ LockCopied(h) \/ Push(h)
         \/ \E n \in Nodes : Load(h, n) \/ UncheckedRead(h, n) \/ ValidateOne(h, n)
         \/ \E n \in Nodes, v \in Values : LockForWrite(h, n, v) \/ CopyOld(h, n, v)
         \/ \E ct \in CommitTypes : CommitFast(h, ct) \/ CommitLocked(h, ct)
  PROVE  Stutter
<1>1. TypeOK
  BY DEF AtomicityInv, LockInv, TypeInv
<1>2. /\ UNCHANGED <<mem, log, nested>> /\ OthersStay(h)
      /\ \A k \in Handles \ {h} : seen'[k] = seen[k]
  BY ZenonT(60), <1>1
  DEF Begin, LockCopied, Push, Load, UncheckedRead, ValidateOne, LockForWrite, CopyOld,
     CommitFast, CommitLocked, UtilLock, Tick, Goto, shared, OthersStay, TypeOK
<1>3. /\ pc[h] \in {"idle", "run", "copied", "push", "validate"}
      /\ pc'[h] \in {"run", "check", "store", "copied", "storeCopied", "failed", "push", "validate"}
  BY <1>1
  DEF Begin, LockCopied, Push, Load, UncheckedRead, ValidateOne, LockForWrite, CopyOld,
     CommitFast, CommitLocked, UtilLock, Goto, shared, TypeOK
<1>4. CheckedOnly(seen'[h]) = CheckedOnly(seen[h])
  <2>1. CASE seen' = seen
    BY <2>1
  <2>2. ASSUME NEW n \in Nodes, UncheckedRead(h, n) PROVE CheckedOnly(seen'[h]) = CheckedOnly(seen[h])
    <3>1. seen'[h] = Noted(h, n, mem[n], FALSE)
      BY <1>1, <2>2 DEF UncheckedRead, TypeOK
    <3>2. {r \in Noted(h, n, mem[n], FALSE) : r.checked} = {r \in seen[h] : r.checked}
      BY DEF Noted
    <3> QED
      BY <3>1, <3>2 DEF CheckedOnly
  <2> QED
    BY <2>1, <2>2 DEF Begin, LockCopied, Push, Load, ValidateOne, LockForWrite, CopyOld,
     CommitFast, CommitLocked
<1>5. Open(h) /\ Open(h)' /\ pc[h] # "undoNested" /\ pc'[h] # "undoNested"
  BY <1>3 DEF Open
<1> QED
  BY <1>2, <1>4, <1>5, ActiveStutters

(* A handle whose transaction goes on. *)
LEMMA ActiveHandle ==
  ASSUME NEW h \in Handles
  PROVE  /\ Open(h) /\ pc[h] # "undoNested" =>
              /\ Writes(h) = Prefix(log[h], Len(log[h]))
              /\ Reads(h) = CheckedOnly(seen[h])
              /\ Saved(h) = SavedAs(log[h], nested[h])
         /\ Open(h)' /\ pc'[h] # "undoNested" =>
              /\ Writes(h)' = Prefix(log'[h], Len(log'[h]))
              /\ Reads(h)' = CheckedOnly(seen'[h])
              /\ Saved(h)' = SavedAs(log'[h], nested'[h])
<1>1. ASSUME NEW l, OpenAt(l), l # "undoNested", NEW s, NEW p, NEW r
      PROVE  /\ WritesOf(l, s, p) = Prefix(s, Len(s))
             /\ ReadsOf(l, r) = CheckedOnly(r) /\ SavedOf(l, s, p) = SavedAs(s, p)
  BY <1>1, ActiveLooks
<1>2. /\ OpenAt(pc[h]) /\ pc[h] # "undoNested" =>
           /\ WritesOf(pc[h], log[h], nested[h]) = Prefix(log[h], Len(log[h]))
           /\ ReadsOf(pc[h], seen[h]) = CheckedOnly(seen[h])
           /\ SavedOf(pc[h], log[h], nested[h]) = SavedAs(log[h], nested[h])
      /\ OpenAt(pc'[h]) /\ pc'[h] # "undoNested" =>
           /\ WritesOf(pc'[h], log'[h], nested'[h]) = Prefix(log'[h], Len(log'[h]))
           /\ ReadsOf(pc'[h], seen'[h]) = CheckedOnly(seen'[h])
           /\ SavedOf(pc'[h], log'[h], nested'[h]) = SavedAs(log'[h], nested'[h])
  BY <1>1, Zenon
<1>3. (Open(h) => OpenAt(pc[h])) /\ (Open(h)' => OpenAt(pc'[h]))
  BY DEF Open, OpenAt
<1> QED
  BY <1>2, <1>3, Looks

LEMMA BeginNestedMaps ==
  ASSUME AtomicityInv, NEW h \in Handles, BeginNested(h)
  PROVE  Abstract!Save(h)
<1> DEFINE view == [n \in acquired[h] |-> mem[n]]
           x == [readSet |-> readSet[h], pos |-> Len(log[h]), commitType |-> commitType[h],
                 seen |-> seen[h], synced |-> synced[h], view |-> view]
<1>1. TypeOK /\ nested[h] \in Seq(Savepoint)
  BY DEF AtomicityInv, LockInv, TypeInv, TypeOK
<1>2. x.pos = Len(log[h]) /\ x.seen = seen[h]
  OBVIOUS
<1>3. x \in Savepoint
  <2>1. view \in UNION {[S -> Values] : S \in SUBSET Nodes}
    BY <1>1 DEF TypeOK
  <2>2. Len(log[h]) \in Nat
    BY <1>1, LenProperties DEF TypeOK
  <2> QED
    BY <1>1, <2>1, <2>2 DEF Savepoint, TypeOK
<1>4. nested'[h] = Append(nested[h], x)
  BY <1>1 DEF BeginNested, TypeOK
<1>5. /\ pc[h] = "run" /\ UNCHANGED <<pc, mem, log, seen>>
      /\ \A k \in Handles \ {h} : nested'[k] = nested[k]
  BY <1>1 DEF BeginNested, shared, TypeOK
<1> HIDE DEF x
<1>6. OthersLook(h)
  BY <1>5, OthersLookSame
<1>7. StoreLooks
  BY <1>5, StoreQuiet DEF Undoable
<1>8. Open(h) /\ Open(h)' /\ pc'[h] = "run"
  BY <1>5 DEF Open
<1>9. SavedAs(log[h], Append(nested[h], x)) =
        Append(SavedAs(log[h], nested[h]),
               [writes |-> Prefix(log[h], Len(log[h])), reads |-> CheckedOnly(seen[h])])
  BY <1>1, <1>2, <1>3, SavedAppend
<1>10. /\ Writes(h)' = Writes(h) /\ Reads(h)' = Reads(h)
       /\ Saved(h)' = Append(Saved(h), [writes |-> Writes(h), reads |-> Reads(h)])
  BY <1>4, <1>5, <1>8, <1>9, ActiveHandle
<1> QED
  BY <1>6, <1>7, <1>10, SaveMaps

(* What the look at the lock lets through is what is stored. *)
LEMMA CheckMaps ==
  ASSUME AtomicityInv, NEW h \in Handles, Check(h)
  PROVE  Stutter \/ \E n \in Nodes : Abstract!Read(h, n)
<1> DEFINE n == access[h].node
           v == access[h].value
           r == [node |-> n, value |-> v, checked |-> TRUE]
<1>1. TypeOK /\ n \in Nodes /\ LockInv
  BY DEF AtomicityInv, LockInv, TypeInv, Check, Access
<1>2. /\ pc[h] = "check" /\ pc'[h] \in {"run", "failed"}
      /\ OthersStay(h) /\ UNCHANGED <<mem, log, nested>>
      /\ \A k \in Handles \ {h} : seen'[k] = seen[k]
  BY <1>1 DEF Check, shared, OthersStay, TypeOK
<1>3. Open(h) /\ Open(h)'
  BY <1>2 DEF Open
<1>4. CASE LCheck(h, n) /\ pc'[h] = "run" /\ n \notin WrittenBy(h)
  <2>1. seen'[h] = seen[h] \cup {r}
    BY <1>1, <1>4 DEF Check, Noted, TypeOK
  <2>2. v = mem[n]
    <3>1. Current(h, n, v)
      BY <1>2 DEF AtomicityInv, Loaded
    <3>2. start[h] \in Nat /\ lock[n] \in Nat \cup Handles
      BY <1>1 DEF TypeOK
    <3> HIDE DEF n, v
    <3>3. (IsVersion(n) => lock[n] > start[h]) /\ lock[n] # h => FALSE
      BY <1>4, <3>2 DEF LCheck, IsVersion
    <3> QED
      BY <3>1, <3>3 DEF Current
  <2>3. Writers(n) = {}
    <3>1. ASSUME NEW k \in Writers(n) PROVE FALSE
      <4>1. k \in Handles /\ n \in WrittenBy(k) /\ lock[n] = k
        BY <1>1 DEF Writers, LockInv, LockDiscipline
      <4>2. k # h
        BY <1>4, <4>1
      <4> QED
        BY <1>4, <4>1, <4>2 DEF LCheck, IsVersion
    <3> QED
      BY <3>1
  <2>4. v = Stored(n)
    BY <1>1, <2>2, <2>3, StoredFacts DEF StoredIs
  <2>5. CheckedOnly(seen'[h]) = CheckedOnly(seen[h]) \cup {[node |-> n, value |-> v]}
    <3>1. r.node = n /\ r.value = v /\ r.checked = TRUE
      OBVIOUS
    <3> HIDE DEF r, n, v
    <3>2. {q \in seen'[h] : q.checked} = {q \in seen[h] : q.checked} \cup {r}
      BY <2>1, <3>1
    <3> QED
      BY <3>1, <3>2 DEF CheckedOnly
  <2>6. OthersLook(h)
    BY <1>2, OthersLookSame DEF OthersStay
  <2>7. StoreLooks
    BY <1>2, StoreQuiet DEF Undoable, OthersStay
  <2>8. n \notin DOMAIN Writes(h)
    BY <1>4, DomainWrites
  <2> HIDE DEF n, v, r
  <2>9. /\ Writes(h)' = Writes(h) /\ Saved(h)' = Saved(h)
        /\ Reads(h)' = Reads(h) \cup {[node |-> n, value |-> Stored(n)]}
    BY <1>2, <1>3, <2>4, <2>5, ActiveHandle
  <2>10. Abstract!Read(h, n)
    BY <1>1, <2>6, <2>7, <2>8, <2>9, ReadMaps
  <2> QED
    BY <1>1, <2>10
<1>5. CASE seen' = seen \/ n \in WrittenBy(h)
  <2>1. seen'[h] = seen[h]
    BY <1>1, <1>5 DEF Check, Noted, TypeOK
  <2> QED
    BY <1>2, <1>3, <2>1, ActiveStutters
<1>6. \/ LCheck(h, n) /\ pc'[h] = "run"
      \/ seen' = seen
  BY <1>1 DEF Check, TypeOK
<1> QED
  BY <1>4, <1>5, <1>6

(* A transaction that has done nothing. *)
LEMMA EmptyLooks ==
  /\ Prefix(<<>>, Len(<<>>)) = [n \in {} |-> InitValue]
  /\ CheckedOnly({}) = {}
  /\ SavedAs(<<>>, <<>>) = <<>>
<1>1. Len(<<>>) = 0 /\ WrittenIn(<<>>, 0) = {}
  BY DEF WrittenIn
<1>2. Prefix(<<>>, 0) = [n \in {} |-> InitValue]
  BY <1>1 DEF Prefix
<1>3. CheckedOnly({}) = {}
  BY DEF CheckedOnly
<1> QED
  BY <1>1, <1>2, <1>3, NoneSaved

(* A store under the lock is a write to the buffer. *)
LEMMA StoreMaps ==
  ASSUME AtomicityInv, NEW h \in Handles, Store(h) \/ StoreCopied(h)
  PROVE  \E n \in Nodes, v \in Values : Abstract!Write(h, n, v)
<1> DEFINE s == log[h]
<1>1. PICK item \in LogItem :
           /\ item.old = mem[item.node]
           /\ lock[item.node] = h
           /\ log[h] \in Seq(LogItem)
           /\ log'[h] = Append(log[h], item)
           /\ mem' = [mem EXCEPT ![item.node] = item.new]
           /\ pc[h] \in {"store", "storeCopied"} /\ pc'[h] = "run"
           /\ OthersStay(h)
           /\ \A k \in Handles \ {h} : log'[k] = log[k] /\ seen'[k] = seen[k]
           /\ UNCHANGED <<lock, nested, seen>>
  BY StoreItem
<1>2. LockInv /\ LockInv' /\ mem \in [Nodes -> Values]
      /\ item.node \in Nodes /\ item.new \in Values
  BY StoreLock DEF AtomicityInv, LogItem, LockInv, TypeInv, TypeOK
<1>3. Open(h) /\ Open(h)' /\ Undoable(h) /\ Undoable(h)' /\ Ordered(h)
  BY <1>1 DEF Open, Undoable, AtomicityInv
<1>4. OthersLook(h)
  BY <1>1, OthersLookSame DEF OthersStay
<1>5. StoreLooks
  <2>1. \A n \in Nodes : mem'[n] # mem[n] => lock[n] = h
    BY <1>1, <1>2
  <2>2. ASSUME NEW n \in Nodes, lock[n] = h
        PROVE  Undone(log'[h], n, mem'[n]) = Undone(log[h], n, mem[n])
    <3>1. CASE n \in WrittenIn(s, Len(s))
      BY <1>1, <3>1, UndoneAppend
    <3>2. CASE n \notin WrittenIn(s, Len(s)) /\ n = item.node
      BY <1>1, <3>2, UndoneAppend, UndoneNone
    <3>3. CASE n \notin WrittenIn(s, Len(s)) /\ n # item.node
      <4>1. mem'[n] = mem[n]
        BY <1>1, <1>2, <3>3
      <4> QED
        BY <1>1, <3>3, <4>1, UndoneAppend, UndoneNone
    <3> QED
      BY <3>1, <3>2, <3>3
  <2> QED
    BY <1>1, <1>2, <1>3, <2>1, <2>2, StoreUnderLock DEF OthersStay
<1>6. Writes(h)' = [m \in DOMAIN Writes(h) \cup {item.node} |->
                      IF m = item.node THEN item.new ELSE Writes(h)[m]]
  <2>1. Prefix(Append(s, item), Len(s) + 1)
           = [m \in WrittenIn(s, Len(s)) \cup {item.node} |->
                IF m = item.node THEN item.new ELSE Prefix(s, Len(s))[m]]
    BY <1>1, PrefixAppend
  <2>2. Len(log'[h]) = Len(s) + 1
    BY <1>1, AppendProperties
  <2>3. Writes(h) = Prefix(s, Len(s)) /\ Writes(h)' = Prefix(log'[h], Len(log'[h]))
    BY <1>1, <1>3, ActiveHandle
  <2>4. DOMAIN Prefix(s, Len(s)) = WrittenIn(s, Len(s))
    BY DEF Prefix
  <2> QED
    BY <1>1, <2>1, <2>2, <2>3, <2>4
<1>7. Reads(h)' = Reads(h) /\ Saved(h)' = Saved(h)
  <2>1. nested[h] \in Seq(Savepoint) /\ Len(s) \in Nat
    BY <1>1, LenProperties DEF AtomicityInv, LockInv, TypeInv, TypeOK
  <2>2. \A k \in DOMAIN nested[h] : nested[h][k] \in Savepoint
    BY <2>1, LenProperties, ElementOfSeq
  <2>3. \A k \in DOMAIN nested[h] : nested[h][k].pos \in Nat /\ nested[h][k].pos <= Len(s)
    BY <1>3, <2>2 DEF Savepoint, Ordered
  <2>4. /\ log'[h] \in Seq(LogItem) /\ Len(log'[h]) = Len(s) + 1
        /\ \A i \in 1..Len(s) : log'[h][i] = s[i]
    BY <1>1, AppendProperties
  <2>5. SavedAs(s, nested[h]) = SavedAs(log'[h], nested[h])
    <3>1. \A k \in DOMAIN nested[h] :
            nested[h][k].pos \in Nat /\ nested[h][k].pos <= Len(s) /\ nested[h][k].pos <= Len(log'[h])
      BY <2>1, <2>3, <2>4
    <3>2. \A k \in DOMAIN nested[h] : \A i \in 1..nested[h][k].pos : s[i] = log'[h][i]
      BY <2>1, <2>3, <2>4
    <3> QED
      BY <1>1, <2>4, <3>1, <3>2, SavedSame
  <2> QED
    BY <1>1, <1>3, <2>5, ActiveHandle
<1>8. \A k \in Handles \ {h} : item.node \notin DOMAIN Writes(k)
  <2>1. ASSUME NEW k \in Handles \ {h}, item.node \in DOMAIN Writes(k) PROVE FALSE
    <3>1. item.node \in WrittenBy(k) /\ Open(k)
      BY <2>1, DomainWrites
    <3>2. Undoable(k)
      BY <3>1 DEF Open, Undoable
    <3> QED
      BY <1>1, <1>2, <3>1, <3>2, OneWriter
  <2> QED
    BY <2>1
<1>9. Abstract!Write(h, item.node, item.new)
  BY <1>2, <1>4, <1>5, <1>6, <1>7, <1>8, WriteMaps
<1> QED
  BY <1>2, <1>9

LEMMA CommitNestedMaps ==
  ASSUME AtomicityInv, NEW h \in Handles, NEW ct \in CommitTypes, CommitNested(h, ct)
  PROVE  Abstract!Keep(h)
<1>1. TypeOK /\ nested[h] \in Seq(Savepoint)
  BY DEF AtomicityInv, LockInv, TypeInv, TypeOK
<1>2. /\ pc[h] = "run" /\ UNCHANGED <<pc, mem, log, seen>>
      /\ nested[h] # <<>> /\ nested'[h] = Front(nested[h])
      /\ \A k \in Handles \ {h} : nested'[k] = nested[k]
  BY <1>1 DEF CommitNested, shared, TypeOK
<1>3. OthersLook(h)
  BY <1>2, OthersLookSame
<1>4. StoreLooks
  BY <1>2, StoreQuiet DEF Undoable
<1>5. Open(h) /\ Open(h)' /\ pc'[h] = "run"
  BY <1>2 DEF Open
<1>6. LET f == SavedAs(log[h], nested[h])
      IN  f # <<>> /\ SavedAs(log[h], Front(nested[h])) = SubSeq(f, 1, Len(f) - 1)
  BY <1>1, <1>2, SavedFront
<1>7. /\ Writes(h)' = Writes(h) /\ Reads(h)' = Reads(h)
      /\ Saved(h) # <<>> /\ Saved(h)' = SubSeq(Saved(h), 1, Len(Saved(h)) - 1)
  BY <1>2, <1>5, <1>6, ActiveHandle
<1> QED
  BY <1>3, <1>4, <1>7, KeepMaps

(* A transaction that wrote nothing commits nothing. *)
LEMMA CommitReadOnlyMaps ==
  ASSUME AtomicityInv, NEW h \in Handles, NEW ct \in CommitTypes, CommitReadOnly(h, ct)
  PROVE  Abstract!Commit(h)
<1>1. TypeOK
  BY DEF AtomicityInv, LockInv, TypeInv
<1>2. /\ pc[h] = "run" /\ pc'[h] = "unlockReadOnly" /\ nested[h] = <<>> /\ log[h] = <<>>
      /\ OthersStay(h) /\ UNCHANGED <<mem, log, seen>>
  BY <1>1 DEF CommitReadOnly, Goto, Tick, OthersStay, TypeOK
<1>3. OthersLook(h)
  BY <1>2, OthersLookSame DEF OthersStay
<1>4. StoreLooks
  BY <1>2, StoreQuiet DEF Undoable, OthersStay
<1>5. Open(h) /\ ~Open(h)'
  BY <1>2 DEF Open
<1>6. Forgotten(h)
  BY <1>5, ClosedHandle
<1>7. Saved(h) = <<>>
  BY <1>2, <1>5, ActiveHandle, NoneSaved
<1>8. DOMAIN Writes(h) = {}
  <2>1. WrittenBy(h) = {}
    BY <1>2 DEF WrittenBy
  <2> QED
    BY <2>1, DomainWrites
<1>9. \A n \in Nodes : Stored(n)' = IF n \in DOMAIN Writes(h) THEN Writes(h)[n] ELSE Stored(n)
  BY <1>4, <1>8 DEF StoreLooks
<1> QED
  BY <1>3, <1>6, <1>7, <1>9, CommitMaps

(* The writes of a transaction are in place; from now on nobody undoes them. *)
LEMMA ValidatedStored ==
  ASSUME AtomicityInv, NEW h \in Handles, Validated(h), NEW n \in Nodes
  PROVE  Stored(n)' = IF n \in WrittenBy(h) THEN Prefix(log[h], Len(log[h]))[n] ELSE Stored(n)
<1> DEFINE s == log[h]
<1>1. TypeOK /\ LockInv /\ s \in Seq(LogItem)
  BY DEF AtomicityInv, LockInv, TypeInv, TypeOK
<1>2. pc[h] = "validate" /\ pc'[h] = "unlockCommit" /\ OthersStay(h) /\ UNCHANGED <<mem, log>>
  BY <1>1 DEF Validated, Goto, Tick, OthersStay, TypeOK
<1>3. Undoable(h) /\ ~Undoable(h)' /\ Chained(h)
  BY <1>2 DEF Undoable, AtomicityInv
<1>4. WrittenBy(h) = WrittenIn(s, Len(s)) /\ Len(s) \in Nat
  BY <1>1, Written, SeqFacts
<1>5. ASSUME n \in WrittenBy(h) PROVE Stored(n)' = Prefix(s, Len(s))[n]
  <2>1. lock[n] = h
    BY <1>1, <1>3, <1>5 DEF LockInv, LockDiscipline
  <2>2. Writers(n)' = {}
    <3>1. ASSUME NEW k \in Handles \ {h}, Undoable(k)' PROVE n \notin WrittenBy(k)'
      <4>1. Undoable(k)
        BY <1>2, <3>1 DEF Undoable, OthersStay
      <4>2. n \notin WrittenBy(k)
        BY <1>1, <2>1, <4>1, OneWriter
      <4> QED
        BY <1>2, <4>2 DEF WrittenBy
    <3> QED
      BY <1>3, <3>1 DEF Writers
  <2>3. Stored(n)' = mem[n]
    BY <1>2, <2>2, StoredFactsNext DEF StoredIs
  <2>4. PICK i \in 1..Len(s) : s[i].node = n /\ \A j \in 1..Len(s) : i < j => s[j].node # n
    BY <1>1, <1>4, <1>5, LastWrite
  <2>5. Prefix(s, Len(s))[s[i].node] = s[i].new
    BY <1>1, <1>4, <2>4, PrefixValue
  <2>6. s[i].new = mem[n]
    BY <1>3, <2>4 DEF Chained, ChainedItems
  <2> QED
    BY <2>3, <2>4, <2>5, <2>6
<1>6. ASSUME n \notin WrittenBy(h) PROVE Stored(n)' = Stored(n)
  <2>1. h \notin Writers(n) /\ h \notin Writers(n)'
    BY <1>3, <1>6 DEF Writers
  <2> QED
    BY <1>2, <2>1, StoredOthers DEF OthersStay
<1> QED
  BY <1>5, <1>6

(* In AtomicStore that is the commit. *)
LEMMA ValidatedMaps ==
  ASSUME AtomicityInv, NEW h \in Handles, Validated(h)
  PROVE  Abstract!Commit(h)
<1> DEFINE s == log[h]
<1>1. TypeOK /\ LockInv /\ s \in Seq(LogItem)
  BY DEF AtomicityInv, LockInv, TypeInv, TypeOK
<1>2. /\ pc[h] = "validate" /\ pc'[h] = "unlockCommit" /\ nested[h] = <<>>
      /\ OthersStay(h) /\ UNCHANGED <<mem, log, seen>>
  BY <1>1 DEF AtomicityInv, Validated, Goto, Tick, OthersStay, TypeOK
<1>3. OthersLook(h)
  BY <1>2, OthersLookSame DEF OthersStay
<1>4. Open(h) /\ ~Open(h)'
  BY <1>2 DEF Open
<1>5. Forgotten(h)
  BY <1>4, ClosedHandle
<1>6. Writes(h) = Prefix(s, Len(s)) /\ Saved(h) = <<>>
  BY <1>2, <1>4, ActiveHandle, NoneSaved
<1>7. DOMAIN Writes(h) = WrittenBy(h)
  BY <1>2, <1>4, DomainWrites
<1>8. \A n \in Nodes : Stored(n)' = IF n \in DOMAIN Writes(h) THEN Writes(h)[n] ELSE Stored(n)
  BY <1>6, <1>7, ValidatedStored
<1> QED
  BY <1>3, <1>5, <1>6, <1>8, CommitMaps

(* A main transaction that is given up is gone before its undo begins. *)
LEMMA MainAbortMaps ==
  ASSUME AtomicityInv, NEW h \in Handles,
         HardAbort(h) \/ \E n \in Nodes : ValidateFailed(h, n)
  PROVE  Abstract!Abort(h)
<1>1. TypeOK
  BY DEF AtomicityInv, LockInv, TypeInv
<1>2. /\ pc[h] \in {"run", "failed", "validate"} /\ pc'[h] = "undo"
      /\ OthersStay(h) /\ UNCHANGED <<mem, log>>
      /\ \A k \in Handles \ {h} : seen'[k] = seen[k]
  BY <1>1 DEF HardAbort, ValidateFailed, Goto, shared, OthersStay, TypeOK
<1>3. OthersLook(h)
  BY <1>2, OthersLookSame DEF OthersStay
<1>4. StoreLooks
  BY <1>2, StoreQuiet DEF Undoable, OthersStay
<1>5. Forgotten(h)
  BY <1>2, ClosedHandle DEF Open
<1> QED
  BY <1>3, <1>4, <1>5, AbortMaps

(* How a handle looks that takes a nested transaction back. *)
LEMMA NestedHandle ==
  ASSUME NEW h \in Handles
  PROVE  /\ pc[h] = "undoNested" =>
              /\ Writes(h) = Prefix(log[h], Top(nested[h]).pos)
              /\ Reads(h) = CheckedOnly(seen[h])
              /\ Saved(h) = SavedAs(log[h], Front(nested[h]))
         /\ pc'[h] = "undoNested" =>
              /\ Writes(h)' = Prefix(log'[h], Top(nested'[h]).pos)
              /\ Reads(h)' = CheckedOnly(seen'[h])
              /\ Saved(h)' = SavedAs(log'[h], Front(nested'[h]))
<1>1. /\ \A s, p : WritesOf("undoNested", s, p) = Prefix(s, Top(p).pos)
      /\ \A r : ReadsOf("undoNested", r) = CheckedOnly(r)
      /\ \A s, p : SavedOf("undoNested", s, p) = SavedAs(s, Front(p))
  BY DEF WritesOf, ReadsOf, SavedOf, OpenAt
<1> QED
  BY <1>1, Looks

(* A nested one is back at its savepoint before its undo begins. *)
LEMMA AbortNestedMaps ==
  ASSUME AtomicityInv, NEW h \in Handles, AbortNested(h)
  PROVE  Abstract!Revert(h)
<1>1. TypeOK /\ nested[h] \in Seq(Savepoint)
  BY DEF AtomicityInv, LockInv, TypeInv, TypeOK
<1>2. /\ pc[h] \in {"run", "failed"} /\ pc'[h] = "undoNested"
      /\ nested[h] # <<>> /\ OthersStay(h) /\ UNCHANGED <<mem, log, nested>>
      /\ seen'[h] = Top(nested[h]).seen
      /\ \A k \in Handles \ {h} : seen'[k] = seen[k]
  BY <1>1 DEF AbortNested, shared, OthersStay, TypeOK
<1>3. OthersLook(h)
  BY <1>2, OthersLookSame DEF OthersStay
<1>4. StoreLooks
  BY <1>2, StoreQuiet DEF Undoable, OthersStay
<1> DEFINE f == SavedAs(log[h], nested[h])
<1>5. /\ f # <<>> /\ SavedAs(log[h], Front(nested[h])) = SubSeq(f, 1, Len(f) - 1)
      /\ f[Len(f)] = [writes |-> Prefix(log[h], Top(nested[h]).pos),
                      reads |-> CheckedOnly(Top(nested[h]).seen)]
  BY <1>1, <1>2, SavedFront
<1> HIDE DEF f
<1>6. Saved(h) = f
  BY <1>2, ActiveHandle DEF Open, f
<1>7. /\ Writes(h)' = Prefix(log[h], Top(nested[h]).pos)
      /\ Reads(h)' = CheckedOnly(Top(nested[h]).seen)
      /\ Saved(h)' = SubSeq(f, 1, Len(f) - 1)
  BY <1>2, <1>5, NestedHandle
<1>8. Writes(h)' = f[Len(f)].writes /\ Reads(h)' = f[Len(f)].reads
  BY <1>5, <1>7
<1> QED
  BY <1>3, <1>4, <1>5, <1>6, <1>7, <1>8, RevertMaps

LEMMA NestedUndoneStutters ==
  ASSUME AtomicityInv, NEW h \in Handles, NestedUndone(h)
  PROVE  Stutter
<1>1. TypeOK
  BY DEF AtomicityInv, LockInv, TypeInv
<1>2. /\ pc[h] = "undoNested" /\ pc'[h] = "run" /\ OthersStay(h)
      /\ nested'[h] = Front(nested[h]) /\ Len(log[h]) = Top(nested[h]).pos
      /\ UNCHANGED <<mem, log, seen>>
  BY <1>1 DEF NestedUndone, Goto, shared, OthersStay, TypeOK
<1>3. OthersLook(h)
  BY <1>2, OthersLookSame DEF OthersStay
<1>4. StoreLooks
  BY <1>2, StoreQuiet DEF Undoable, OthersStay
<1>5. Open(h)'
  BY <1>2 DEF Open
<1>6. Writes(h)' = Writes(h) /\ Reads(h)' = Reads(h) /\ Saved(h)' = Saved(h)
  BY <1>2, <1>5, NestedHandle, ActiveHandle
<1> QED
  BY <1>3, <1>4, <1>6, StutterMaps DEF Stutter

(* Undoing is a private matter. *)
LEMMA UndoStutters ==
  ASSUME AtomicityInv, NEW h \in Handles, Undo(h)
  PROVE  Stutter
<1> DEFINE s == log[h]
           t == Front(log[h])
           e == Top(log[h])
<1>1. /\ s \in Seq(LogItem) /\ s # <<>> /\ e \in LogItem /\ t \in Seq(LogItem) /\ log'[h] = t
      /\ s = Append(t, e)
      /\ mem' = [mem EXCEPT ![e.node] = e.old]
      /\ e.node \in Nodes /\ lock[e.node] = h
      /\ pc[h] \in {"undo", "undoNested"} /\ pc' = pc /\ OthersStay(h)
      /\ \A k \in Handles \ {h} : log'[k] = log[k] /\ seen'[k] = seen[k]
      /\ UNCHANGED <<lock, nested, seen>>
      /\ pc[h] = "undoNested" =>
              nested[h] # <<>> /\ Top(nested[h]).pos \in Nat /\ Top(nested[h]).pos < Len(s)
  BY UndoneItem
<1>2. LockInv /\ LockInv' /\ mem \in [Nodes -> Values]
  BY UndoLock DEF AtomicityInv, LockInv, TypeInv, TypeOK
<1>3. Len(s) \in Nat /\ Len(t) = Len(s) - 1 /\ \A i \in 1..Len(s) - 1 : t[i] = s[i]
  BY <1>1, FrontTop
<1> HIDE DEF s, t, e
<1>4. OthersLook(h)
  BY <1>1, OthersLookSame DEF OthersStay
<1>5. StoreLooks
  <2>1. \A n \in Nodes : mem'[n] # mem[n] => lock[n] = h
    BY <1>1, <1>2
  <2>2. ASSUME NEW n \in Nodes, lock[n] = h
        PROVE  Undone(t, n, mem'[n]) = Undone(s, n, mem[n])
    <3>1. CASE n \in WrittenIn(t, Len(t))
      BY <1>1, <3>1, UndoneAppend
    <3>2. CASE n \notin WrittenIn(t, Len(t)) /\ n = e.node
      <4>1. mem'[n] = e.old
        BY <1>1, <1>2, <3>2
      <4> QED
        BY <1>1, <3>2, <4>1, UndoneAppend, UndoneNone
    <3>3. CASE n \notin WrittenIn(t, Len(t)) /\ n # e.node
      <4>1. mem'[n] = mem[n]
        BY <1>1, <1>2, <3>3
      <4> QED
        BY <1>1, <3>3, <4>1, UndoneAppend, UndoneNone
    <3> QED
      BY <3>1, <3>2, <3>3
  <2>3. Undoable(h) /\ Undoable(h)'
    BY <1>1 DEF Undoable
  <2>4. \A n \in Nodes : lock[n] = h => Undone(log'[h], n, mem'[n]) = Undone(log[h], n, mem[n])
    BY <1>1, <2>2 DEF s
  <2> QED
    BY <1>1, <1>2, <2>1, <2>3, <2>4, StoreUnderLock DEF OthersStay
<1>6. CASE pc[h] = "undo"
  <2>1. ~Open(h) /\ ~Open(h)'
    BY <1>1, <1>6 DEF Open
  <2> QED
    BY <1>4, <1>5, <2>1, ClosedStutters
<1>7. CASE pc[h] = "undoNested"
  <2> DEFINE p == nested[h]
             q == Front(nested[h])
  <2>1. p \in Seq(Savepoint) /\ p # <<>> /\ Ordered(h)
    BY <1>1, <1>7 DEF AtomicityInv, LockInv, TypeInv, TypeOK, Open
  <2>2. /\ Len(p) \in Nat \ {0} /\ DOMAIN p = 1..Len(p) /\ DOMAIN q = 1..Len(p) - 1
        /\ \A k \in 1..Len(p) - 1 : q[k] = p[k]
    BY <2>1, FrontTop, LenProperties
  <2>3. \A k \in DOMAIN p : p[k] \in Savepoint
    BY <2>1, <2>2, ElementOfSeq
  <2>4. ASSUME NEW k \in DOMAIN q
        PROVE  q[k].pos \in Nat /\ q[k].pos <= Top(p).pos
    <3>1. k \in DOMAIN p /\ k <= Len(p) /\ Len(p) \in DOMAIN p /\ q[k] = p[k]
      BY <2>2
    <3>2. p[k].pos <= p[Len(p)].pos
      BY <2>1, <3>1 DEF Ordered
    <3>3. p[k].pos \in Nat
      BY <2>3, <3>1 DEF Savepoint
    <3> QED
      BY <3>1, <3>2, <3>3 DEF Top
  <2>5. Top(p).pos \in Nat /\ Top(p).pos <= Len(t) /\ Top(p).pos <= Len(s)
    BY <1>1, <1>3, <1>7
  <2>6. Prefix(s, Top(p).pos) = Prefix(t, Top(p).pos)
    <3>1. \A i \in 1..Top(p).pos : s[i] = t[i]
      BY <1>3, <2>5
    <3> QED
      BY <1>1, <2>5, <3>1, PrefixSame
  <2>7. SavedAs(s, q) = SavedAs(t, q)
    <3>1. \A k \in DOMAIN q : q[k].pos \in Nat /\ q[k].pos <= Len(s) /\ q[k].pos <= Len(t)
      BY <1>3, <2>4, <2>5
    <3>2. \A k \in DOMAIN q : \A i \in 1..q[k].pos : s[i] = t[i]
      BY <1>3, <2>4, <2>5
    <3> QED
      BY ZenonT(60), <1>1, <3>1, <3>2, SavedSame
  <2>8. Writes(h)' = Writes(h) /\ Reads(h)' = Reads(h) /\ Saved(h)' = Saved(h)
    BY <1>1, <1>7, <2>6, <2>7, NestedHandle DEF s
  <2> QED
    BY <1>4, <1>5, <2>8, StutterMaps DEF Stutter
<1> QED
  BY <1>1, <1>6, <1>7

LEMMA EndStutters ==
  ASSUME AtomicityInv, NEW h \in Handles, AbortTick(h) \/ \E n \in Nodes : Unlock(h, n)
  PROVE  Stutter
<1>1. TypeOK
  BY DEF AtomicityInv, LockInv, TypeInv
<1>2. /\ OthersStay(h) /\ UNCHANGED <<mem, log, seen>>
      /\ \/ pc[h] = "undo" /\ pc'[h] = "unlockAbort"
         \/ pc[h] \in {"unlockCommit", "unlockAbort", "unlockReadOnly"} /\ pc'[h] = pc[h]
  BY <1>1 DEF AbortTick, Unlock, Goto, Tick, OthersStay, TypeOK
<1>3. OthersLook(h)
  BY <1>2, OthersLookSame DEF OthersStay
<1>4. StoreLooks
  BY <1>2, StoreQuiet DEF Undoable, OthersStay
<1> QED
  BY <1>2, <1>3, <1>4, ClosedStutters DEF Open

(* A handle that is idle again looks as it did since its transaction ended. *)
LEMMA FinishStutters ==
  ASSUME AtomicityInv, NEW h \in Handles,
         FinishCommit(h) \/ FinishReadOnly(h) \/ FinishAbort(h)
  PROVE  Stutter
<1>1. TypeOK /\ LockInv
  BY DEF AtomicityInv, LockInv, TypeInv
<1>2. /\ Cleanup(h) /\ mem' = mem /\ acquired[h] = {}
      /\ pc' = [pc EXCEPT ![h] = "idle"]
      /\ pc[h] \in {"unlockCommit", "unlockAbort", "unlockReadOnly"}
  BY DEF FinishCommit, FinishReadOnly, FinishAbort, Goto, shared
<1>3. /\ pc'[h] = "idle" /\ log'[h] = <<>> /\ nested'[h] = <<>> /\ seen'[h] = {}
      /\ \A k \in Handles \ {h} : /\ pc'[k] = pc[k] /\ log'[k] = log[k]
                                  /\ nested'[k] = nested[k] /\ seen'[k] = seen[k]
  BY <1>1, <1>2 DEF Cleanup, TypeOK
<1>4. OthersLook(h)
  BY <1>3, OthersLookSame
<1>5. StoreLooks
  <2>1. ASSUME NEW n \in Nodes PROVE h \notin Writers(n) /\ h \notin Writers(n)'
    <3>1. Undoable(h) => WrittenBy(h) = {}
      BY <1>1, <1>2 DEF LockInv, LockDiscipline
    <3>2. WrittenBy(h)' = {}
      BY <1>3 DEF WrittenBy
    <3> QED
      BY <3>1, <3>2 DEF Writers
  <2> QED
    BY <1>2, <1>3, <2>1, StoredOthers DEF StoreLooks
<1>6. ~Open(h) /\ Open(h)'
  BY <1>2, <1>3 DEF Open
<1>7. Writes(h) = [n \in {} |-> InitValue] /\ Reads(h) = {} /\ Saved(h) = <<>>
  BY <1>6, ClosedHandle
<1>8. Writes(h)' = [n \in {} |-> InitValue] /\ Reads(h)' = {} /\ Saved(h)' = <<>>
  BY <1>3, <1>6, ActiveHandle, EmptyLooks
<1> QED
  BY <1>4, <1>5, <1>7, <1>8, StutterMaps DEF Stutter

(* Every step of HybridStm is one of AtomicStore, or none. *)
LEMMA NextMaps == AtomicityInv /\ [Next]_vars => [Abstract!Next]_(Abstract!vars)
<1> SUFFICES ASSUME AtomicityInv, [Next]_vars PROVE Abstract!Next \/ Stutter
  BY DEF Stutter
<1>1. ASSUME NEW h \in Handles, UserStep(h) PROVE Abstract!Next \/ Stutter
  BY <1>1, QuietStutters, BeginNestedMaps, CommitNestedMaps, CommitReadOnlyMaps
  DEF UserStep, Abstract!Next
<1>2. ASSUME NEW h \in Handles, CallStep(h) PROVE Abstract!Next \/ Stutter
  BY <1>2, QuietStutters, CheckMaps, StoreMaps, MainAbortMaps, ValidatedMaps, UndoStutters,
     NestedUndoneStutters, EndStutters, FinishStutters
  DEF CallStep, Abstract!Next
<1>3. ASSUME NEW h \in Handles, AbortStep(h) PROVE Abstract!Next \/ Stutter
  BY <1>3, MainAbortMaps, AbortNestedMaps DEF AbortStep, Abstract!Next
<1>4. CASE Quiescent \/ UNCHANGED vars
  <2>1. UNCHANGED vars
    BY <1>4 DEF Quiescent
  <2>2. /\ OthersStay(CHOOSE h \in Handles : TRUE)
        /\ UNCHANGED <<pc, mem, log, nested, seen>>
    BY <2>1 DEF vars, shared, private, OthersStay
  <2>3. StoreLooks
    BY <2>2, StoreQuiet DEF Undoable
  <2>4. \A h \in Handles : Writes(h)' = Writes(h) /\ Reads(h)' = Reads(h) /\ Saved(h)' = Saved(h)
    BY <2>2, Looks
  <2>5. /\ [n \in Nodes |-> Stored(n)]' = [n \in Nodes |-> Stored(n)]
        /\ [h \in Handles |-> Writes(h)]' = [h \in Handles |-> Writes(h)]
        /\ [h \in Handles |-> Reads(h)]' = [h \in Handles |-> Reads(h)]
        /\ [h \in Handles |-> Saved(h)]' = [h \in Handles |-> Saved(h)]
    BY <2>3, <2>4 DEF StoreLooks
  <2> QED
    BY <2>5 DEF Stutter, Abstract!vars, Writes, Reads, Saved
<1> QED
  BY <1>1, <1>2, <1>3, <1>4 DEF Next

(* The database is opened with the initial store. *)
LEMMA InitMaps == Init => Abstract!Init
<1> SUFFICES ASSUME Init PROVE Abstract!Init
  OBVIOUS
<1>1. ASSUME NEW n \in Nodes PROVE Stored(n) = InitValue
  <2>1. Writers(n) = {}
    BY DEF Init, Writers, WrittenBy
  <2> QED
    BY <2>1, StoredFacts DEF StoredIs, Init
<1>2. ASSUME NEW h \in Handles
      PROVE  Writes(h) = [n \in {} |-> InitValue] /\ Reads(h) = {} /\ Saved(h) = <<>>
  <2>1. Open(h) /\ pc[h] = "idle" /\ log[h] = <<>> /\ nested[h] = <<>> /\ seen[h] = {}
    BY DEF Init, Open
  <2> QED
    BY <2>1, ActiveHandle, EmptyLooks
<1>3. /\ [n \in Nodes |-> Stored(n)] = [n \in Nodes |-> InitValue]
      /\ [h \in Handles |-> Writes(h)] = [h \in Handles |-> [n \in {} |-> InitValue]]
      /\ [h \in Handles |-> Reads(h)] = [h \in Handles |-> {}]
      /\ [h \in Handles |-> Saved(h)] = [h \in Handles |-> <<>>]
  BY <1>1, <1>2
<1> QED
  BY <1>3 DEF Abstract!Init, Abstract!NoWrites, Writes, Reads, Saved

(* For every set of handles, objects and values and every bound: the locks, the
   in-place writes and the undo log of the code are invisible.  A commit moves
   all writes of a transaction into the store in one step, an abort none of
   them, a nested abort takes back exactly what was done since its savepoint,
   and trRead returns what is in the store at that moment. *)
THEOREM AtomicRefinement == Spec => ImplementsAtomicStore
<1>1. Init => AtomicityInv /\ Abstract!Init
  BY InitAtomicity, InitMaps
<1>2. AtomicityInv /\ [Next]_vars => AtomicityInv' /\ [Abstract!Next]_(Abstract!vars)
  BY NextAtomicity, NextMaps
<1> QED
  BY <1>1, <1>2, PTL DEF Spec, ImplementsAtomicStore, Abstract!Spec

-----------------------------------------------------------------------------
(* The invariant of the savepoints *)

(* What the savepoints of h say can still be brought about, under locks h has. *)
SavepointsHold(h) ==
  \A k \in DOMAIN nested[h] : \A n \in DOMAIN nested[h][k].view :
    n \in acquired[h] /\ RolledBack(h, nested[h][k].pos, n) = nested[h][k].view[n]

(* A main transaction that is given up does not need them any more, and one that
   commits has none. *)
GivenUp(h) == pc[h] \in {"undo", "unlockAbort"}

SavepointInv ==
  /\ AtomicityInv
  /\ \A h \in Handles :
       /\ pc[h] \in {"unlockCommit", "unlockReadOnly"} => nested[h] = <<>>
       /\ ~GivenUp(h) => SavepointsHold(h)

-----------------------------------------------------------------------------
(* Rolling back to a position in the log *)

(* The oldest item of n behind p says what n was there ... *)
LEMMA BackValue ==
  ASSUME NEW s \in Seq(LogItem), NEW p \in Nat, NEW v, NEW i \in 1..Len(s), p < i,
         \A j \in 1..Len(s) : p < j /\ j < i => s[j].node # s[i].node
  PROVE  BackOf(s, p, s[i].node, v) = s[i].old
<1> DEFINE n == s[i].node
           W == {k \in DOMAIN s : k > p /\ s[k].node = n}
<1>1. DOMAIN s = 1..Len(s) /\ Len(s) \in Nat
  BY SeqFacts
<1>2. i \in W /\ \A k \in W : i <= k
  BY <1>1
<1>3. \A k \in W : (\A l \in W : k <= l) => k = i
  BY <1>1, <1>2
<1> HIDE DEF W
<1>4. (CHOOSE k \in W : \A l \in W : k <= l) = i
  BY <1>2, <1>3
<1> QED
  BY <1>2, <1>4 DEF BackOf, W

(* ... and if there is none, n is still what it was. *)
LEMMA BackNone ==
  ASSUME NEW s \in Seq(LogItem), NEW p, NEW v, NEW n,
         \A i \in 1..Len(s) : p < i => s[i].node # n, p \in Nat
  PROVE  BackOf(s, p, n, v) = v
<1>1. DOMAIN s = 1..Len(s) /\ Len(s) \in Nat
  BY SeqFacts
<1> QED
  BY <1>1 DEF BackOf

(* A write that logs the old value does not move what lies before it. *)
LEMMA BackAppend ==
  ASSUME NEW s \in Seq(LogItem), NEW e \in LogItem, NEW p \in Nat, p <= Len(s),
         NEW n, NEW v, NEW w, n = e.node => v = e.old, n # e.node => w = v
  PROVE  BackOf(Append(s, e), p, n, w) = BackOf(s, p, n, v)
<1> DEFINE t == Append(s, e)
           W == {i \in 1..Len(s) : p < i /\ s[i].node = n}
<1>1. /\ t \in Seq(LogItem) /\ Len(t) = Len(s) + 1 /\ Len(s) \in Nat
      /\ \A i \in 1..Len(s) : t[i] = s[i]
      /\ t[Len(s) + 1] = e
  BY AppendProperties, SeqFacts
<1> HIDE DEF t
<1>2. CASE W # {}
  <2>1. W \subseteq Nat
    OBVIOUS
  <2>2. PICK i \in W : \A k \in W : i <= k
    BY <1>2, <2>1, FirstExists
  <2>3. i \in 1..Len(s) /\ p < i /\ s[i].node = n
        /\ \A j \in 1..Len(s) : p < j /\ j < i => s[j].node # n
    BY <1>1, <2>2
  <2>4. BackOf(s, p, n, v) = s[i].old
    BY <2>3, BackValue
  <2>5. i \in 1..Len(t) /\ \A j \in 1..Len(t) : p < j /\ j < i => t[j].node # t[i].node
    BY <1>1, <2>3
  <2>6. BackOf(t, p, t[i].node, w) = t[i].old
    BY <1>1, <2>3, <2>5, BackValue
  <2> QED
    BY <1>1, <2>3, <2>4, <2>6 DEF t
<1>3. CASE W = {}
  <2>1. BackOf(s, p, n, v) = v
    BY <1>3, BackNone
  <2>2. CASE n = e.node
    <3> DEFINE i == Len(t)
    <3>1. i \in 1..Len(t) /\ p < i /\ \A j \in 1..Len(t) : p < j /\ j < i => t[j].node # t[i].node
      BY <1>1, <1>3, <2>2
    <3>2. BackOf(t, p, t[i].node, w) = t[i].old
      BY <1>1, <3>1, BackValue
    <3> QED
      BY <1>1, <2>1, <2>2, <3>2 DEF t
  <2>3. CASE n # e.node
    <3>1. \A i \in 1..Len(t) : p < i => t[i].node # n
      BY <1>1, <1>3, <2>3
    <3>2. BackOf(t, p, n, w) = w
      BY <1>1, <3>1, BackNone
    <3> QED
      BY <2>1, <2>3, <3>2 DEF t
  <2> QED
    BY <2>2, <2>3
<1> QED
  BY <1>2, <1>3

-----------------------------------------------------------------------------
(* Steps *)

(* Whoever h is not: its savepoints lie under its own locks. *)
LEMMA OthersSaved ==
  ASSUME SavepointInv, NEW h \in Handles, OthersStay(h),
         \A k \in Handles \ {h} : log'[k] = log[k] /\ acquired'[k] = acquired[k],
         \A n \in Nodes : mem'[n] # mem[n] => lock[n] = h
  PROVE  \A k \in Handles \ {h} :
           /\ pc'[k] \in {"unlockCommit", "unlockReadOnly"} => nested'[k] = <<>>
           /\ ~GivenUp(k)' => SavepointsHold(k)'
<1> SUFFICES ASSUME NEW k \in Handles \ {h}
             PROVE  /\ pc'[k] \in {"unlockCommit", "unlockReadOnly"} => nested'[k] = <<>>
                    /\ ~GivenUp(k)' => SavepointsHold(k)'
  OBVIOUS
<1>1. pc'[k] = pc[k] /\ nested'[k] = nested[k] /\ log'[k] = log[k] /\ acquired'[k] = acquired[k]
  BY DEF OthersStay
<1>2. \A n \in acquired[k] : n \in Nodes /\ mem'[n] = mem[n]
  BY SMTT(30) DEF SavepointInv, AtomicityInv, LockInv, TypeInv, TypeOK, LockDiscipline
<1>3. ASSUME SavepointsHold(k) PROVE SavepointsHold(k)'
  <2>1. ASSUME NEW i \in DOMAIN nested[k], NEW n \in DOMAIN nested[k][i].view
        PROVE  /\ n \in acquired[k]
               /\ RolledBack(k, nested[k][i].pos, n)' = nested[k][i].view[n]
    <3>1. n \in acquired[k] /\ RolledBack(k, nested[k][i].pos, n) = nested[k][i].view[n]
      BY <1>3 DEF SavepointsHold
    <3> QED
      BY <1>1, <1>2, <3>1, RolledBackOf
  <2> QED
    BY <1>1, <2>1, RolledBackOf DEF SavepointsHold
<1> QED
  BY <1>1, <1>3 DEF SavepointInv, GivenUp

(* AtomicityInv is kept anyway. *)
LEMMA NextAtomicityOf ==
  ASSUME SavepointInv, NEW h \in Handles, UserStep(h) \/ CallStep(h) \/ AbortStep(h)
  PROVE  AtomicityInv'
  BY NextAtomicity DEF SavepointInv, Next

(* A step of h that writes nothing, unlocks nothing and sets no savepoint. *)
LEMMA QuietSaved ==
  ASSUME SavepointInv, AtomicityInv', NEW h \in Handles, UNCHANGED <<mem, log>>, OthersStay(h),
         \A k \in Handles \ {h} : acquired'[k] = acquired[k],
         nested'[h] = nested[h], acquired[h] \subseteq acquired'[h],
         GivenUp(h) => GivenUp(h)',
         pc'[h] \in {"unlockCommit", "unlockReadOnly"} => nested'[h] = <<>>
  PROVE  SavepointInv'
<1>1. ASSUME ~GivenUp(h)' PROVE SavepointsHold(h)'
  <2>1. SavepointsHold(h)
    BY <1>1 DEF SavepointInv
  <2>2. \A p, n : RolledBack(h, p, n)' = RolledBack(h, p, n)
    BY RolledBackOf
  <2> QED
    BY <2>1, <2>2 DEF SavepointsHold
<1> QED
  BY <1>1, OthersSaved DEF SavepointInv

LEMMA QuietStepSaved ==
  ASSUME SavepointInv, NEW h \in Handles,
         \/ Begin(h) \/ Check(h) \/ LockCopied(h) \/ Push(h) \/ Validated(h)
         \/ HardAbort(h) \/ AbortNested(h) \/ AbortTick(h)
         \/ \E n \in Nodes : Load(h, n) \/ UncheckedRead(h, n)
         \/ \E n \in Nodes : ValidateOne(h, n) \/ ValidateFailed(h, n)
         \/ \E n \in Nodes, v \in Values : LockForWrite(h, n, v) \/ CopyOld(h, n, v)
         \/ \E ct \in CommitTypes : \/ CommitReadOnly(h, ct)
                                    \/ CommitFast(h, ct)
                                    \/ CommitLocked(h, ct)
  PROVE  SavepointInv'
<1>1. AtomicityInv' /\ TypeOK
  BY NextAtomicityOf
  DEF SavepointInv, AtomicityInv, LockInv, TypeInv, UserStep, CallStep, AbortStep
<1>2. /\ UNCHANGED <<mem, log, nested>> /\ OthersStay(h)
      /\ acquired[h] \subseteq acquired'[h]
      /\ \A k \in Handles \ {h} : acquired'[k] = acquired[k]
  <2>1. UNCHANGED <<mem, log, nested>>
    BY DEF Begin, Check, LockCopied, Push, Validated, HardAbort, AbortNested, AbortTick, Load,
       UncheckedRead, ValidateOne, ValidateFailed, LockForWrite, CopyOld, CommitReadOnly,
       CommitFast, CommitLocked, shared
  <2>2. ASSUME NEW n \in Nodes, NEW next, UtilLock(h, n, next)
        PROVE  /\ acquired[h] \subseteq acquired'[h]
               /\ \A k \in Handles \ {h} : acquired'[k] = acquired[k]
    BY <1>1, <2>2 DEF UtilLock, TypeOK
  <2>3. \/ acquired' = acquired
        \/ \E n \in Nodes : UtilLock(h, n, "store")
        \/ UtilLock(h, access[h].node, "storeCopied") /\ pc[h] = "copied"
    BY DEF Begin, Check, LockCopied, Push, Validated, HardAbort, AbortNested, AbortTick, Load,
       UncheckedRead, ValidateOne, ValidateFailed, LockForWrite, CopyOld, CommitReadOnly,
       CommitFast, CommitLocked
  <2>4. pc[h] = "copied" => access[h].node \in Nodes
    BY DEF SavepointInv, AtomicityInv, LockInv, TypeInv, Access
  <2>5. /\ acquired[h] \subseteq acquired'[h]
        /\ \A k \in Handles \ {h} : acquired'[k] = acquired[k]
    BY <2>2, <2>3, <2>4
  <2>6. CASE \/ Begin(h) \/ Check(h)
             \/ \E n \in Nodes : Load(h, n) \/ UncheckedRead(h, n)
    BY <1>1, <2>1, <2>6
    DEF Begin, Check, Load, UncheckedRead, Goto, OthersStay, TypeOK
  <2>7. CASE \/ LockCopied(h)
             \/ \E n \in Nodes, v \in Values : LockForWrite(h, n, v) \/ CopyOld(h, n, v)
    BY SMTT(30), <1>1, <2>1, <2>7
    DEF LockCopied, LockForWrite, CopyOld, UtilLock, Goto, OthersStay, TypeOK
  <2>8. CASE \/ Push(h) \/ Validated(h)
             \/ \E n \in Nodes : ValidateOne(h, n) \/ ValidateFailed(h, n)
    BY ZenonT(60), <1>1, <2>1, <2>8
    DEF Push, Validated, ValidateOne, ValidateFailed, Tick, Goto, OthersStay, TypeOK
  <2>9. CASE \/ HardAbort(h) \/ AbortNested(h) \/ AbortTick(h)
             \/ \E ct \in CommitTypes : \/ CommitReadOnly(h, ct)
                                        \/ CommitFast(h, ct)
                                        \/ CommitLocked(h, ct)
    BY <1>1, <2>1, <2>9
    DEF HardAbort, AbortNested, AbortTick, CommitReadOnly, CommitFast, CommitLocked,
        Tick, Goto, OthersStay, TypeOK
  <2> QED
    BY <2>1, <2>5, <2>6, <2>7, <2>8, <2>9
<1>3. /\ GivenUp(h) => GivenUp(h)'
      /\ pc'[h] \in {"unlockCommit", "unlockReadOnly"} => Validated(h) \/ nested[h] = <<>>
  BY ZenonT(60), <1>1 DEF Begin, Check, LockCopied, Push, Validated, HardAbort, AbortNested, AbortTick, Load,
     UncheckedRead, ValidateOne, ValidateFailed, LockForWrite, CopyOld, CommitReadOnly,
     CommitFast, CommitLocked, UtilLock, Goto, shared, TypeOK, GivenUp
<1>4. Validated(h) => nested[h] = <<>>
  BY DEF Validated, Goto, SavepointInv, AtomicityInv
<1> QED
  BY <1>1, <1>2, <1>3, <1>4, QuietSaved

(* Locks are released when no savepoint counts any more. *)
LEMMA EndSaved ==
  ASSUME SavepointInv, NEW h \in Handles,
         \/ \E n \in Nodes : Unlock(h, n)
         \/ FinishCommit(h) \/ FinishReadOnly(h) \/ FinishAbort(h)
  PROVE  SavepointInv'
<1>1. AtomicityInv' /\ TypeOK
  BY NextAtomicityOf DEF SavepointInv, AtomicityInv, LockInv, TypeInv, CallStep
<1>2. /\ mem' = mem /\ OthersStay(h)
      /\ \A k \in Handles \ {h} : log'[k] = log[k] /\ acquired'[k] = acquired[k]
  BY <1>1 DEF Unlock, FinishCommit, FinishReadOnly, FinishAbort, Cleanup, Goto, shared,
     OthersStay, TypeOK
<1>3. GivenUp(h)' \/ nested'[h] = <<>>
  <2>1. CASE nested' = nested
    BY <1>1, <2>1 DEF Unlock, FinishCommit, FinishReadOnly, FinishAbort, Cleanup, TypeOK,
       GivenUp, SavepointInv
  <2>2. CASE nested' # nested
    BY <1>1, <2>2 DEF Unlock, FinishCommit, FinishReadOnly, FinishAbort, Cleanup, TypeOK
  <2> QED
    BY <2>1, <2>2
<1>4. pc'[h] \in {"unlockCommit", "unlockReadOnly"} => nested'[h] = <<>>
  BY <1>3 DEF GivenUp
<1>5. nested'[h] = <<>> => SavepointsHold(h)'
  <2>1. DOMAIN <<>> = {}
    OBVIOUS
  <2> QED
    BY <2>1 DEF SavepointsHold
<1> QED
  BY <1>1, <1>2, <1>3, <1>4, <1>5, OthersSaved DEF SavepointInv

(* The savepoint that is set says what memory holds. *)
LEMMA BeginNestedSaved ==
  ASSUME SavepointInv, NEW h \in Handles, BeginNested(h)
  PROVE  SavepointInv'
<1> DEFINE view == [n \in acquired[h] |-> mem[n]]
           x == [readSet |-> readSet[h], pos |-> Len(log[h]), commitType |-> commitType[h],
                 seen |-> seen[h], synced |-> synced[h], view |-> view]
<1>1. /\ AtomicityInv' /\ TypeOK /\ nested[h] \in Seq(Savepoint)
      /\ log[h] \in Seq(LogItem) /\ Len(log[h]) \in Nat
  BY NextAtomicityOf, LenProperties
  DEF SavepointInv, AtomicityInv, LockInv, TypeInv, TypeOK, UserStep
<1>2. /\ nested' = [nested EXCEPT ![h] = Append(nested[h], x)]
      /\ UNCHANGED <<pc, mem, log, acquired, start, access, endTime>> /\ pc[h] = "run"
  BY DEF BeginNested, shared
<1>3. x.pos = Len(log[h]) /\ x.view = view
  OBVIOUS
<1> HIDE DEF x
<1>4. nested'[h] = Append(nested[h], x) /\ OthersStay(h)
  BY <1>1, <1>2 DEF OthersStay, TypeOK
<1>5. x \in Savepoint
  <2>1. nested'[h] \in Seq(Savepoint)
    BY <1>1 DEF AtomicityInv, LockInv, TypeInv, TypeOK
  <2> DEFINE m == Len(nested[h])
  <2>2. m \in Nat /\ nested'[h][m + 1] = x /\ Len(nested'[h]) = m + 1
    BY <1>1, <1>4, LenProperties
  <2> QED
    BY <2>1, <2>2, ElementOfSeq
<1>6. SavepointsHold(h)'
  <2> DEFINE m == Len(nested[h])
  <2>1. /\ m \in Nat /\ DOMAIN nested[h] = 1..m /\ DOMAIN nested'[h] = 1..m + 1
        /\ \A k \in 1..m : nested'[h][k] = nested[h][k]
        /\ nested'[h][m + 1] = x
    BY <1>1, <1>4, <1>5, LenProperties, AppendProperties
  <2>2. \A p, n : RolledBack(h, p, n)' = RolledBack(h, p, n)
    BY <1>2, RolledBackOf
  <2>3. SavepointsHold(h)
    BY <1>2 DEF SavepointInv, GivenUp
  <2>4. ASSUME NEW n \in acquired[h] PROVE RolledBack(h, Len(log[h]), n) = view[n]
    <3>1. BackOf(log[h], Len(log[h]), n, mem[n]) = mem[n]
      BY <1>1, BackNone
    <3> QED
      BY <3>1, RolledBackOf
  <2>5. ASSUME NEW k \in DOMAIN nested'[h], NEW n \in DOMAIN nested'[h][k].view
        PROVE  /\ n \in acquired[h]
               /\ RolledBack(h, nested'[h][k].pos, n) = nested'[h][k].view[n]
    <3>1. CASE k \in 1..m
      BY <2>1, <2>3, <2>5, <3>1 DEF SavepointsHold
    <3>2. CASE k = m + 1
      BY <1>3, <2>1, <2>4, <2>5, <3>2
    <3> QED
      BY <2>1, <3>1, <3>2
  <2> QED
    BY <1>2, <2>2, <2>5 DEF SavepointsHold
<1> QED
  BY <1>1, <1>2, <1>4, <1>6, OthersSaved DEF SavepointInv

(* One savepoint fewer *)
LEMMA FrontSaved ==
  ASSUME SavepointInv, NEW h \in Handles,
         NestedUndone(h) \/ \E ct \in CommitTypes : CommitNested(h, ct)
  PROVE  SavepointInv'
<1>1. /\ AtomicityInv' /\ TypeOK /\ nested[h] \in Seq(Savepoint)
      /\ pc[h] = "undoNested" => nested[h] # <<>>
  BY NextAtomicityOf
  DEF SavepointInv, AtomicityInv, LockInv, TypeInv, TypeOK, UserStep, CallStep
<1>2. /\ nested[h] # <<>> /\ nested'[h] = Front(nested[h])
      /\ UNCHANGED <<mem, log, acquired>> /\ pc[h] \in {"run", "undoNested"} /\ pc'[h] = "run"
      /\ OthersStay(h)
  BY <1>1 DEF NestedUndone, CommitNested, Goto, shared, OthersStay, TypeOK
<1>3. SavepointsHold(h)'
  <2> DEFINE m == Len(nested[h])
  <2>1. /\ m \in Nat \ {0} /\ DOMAIN nested[h] = 1..m /\ DOMAIN nested'[h] = 1..m - 1
        /\ \A k \in 1..m - 1 : nested'[h][k] = nested[h][k]
    BY <1>1, <1>2, FrontTop, LenProperties
  <2>2. \A p, n : RolledBack(h, p, n)' = RolledBack(h, p, n)
    BY <1>2, RolledBackOf
  <2>3. SavepointsHold(h)
    BY <1>2 DEF SavepointInv, GivenUp
  <2>4. \A k \in DOMAIN nested'[h] : k \in DOMAIN nested[h] /\ nested'[h][k] = nested[h][k]
    BY <2>1
  <2> QED
    BY <1>2, <2>2, <2>3, <2>4 DEF SavepointsHold
<1> QED
  BY <1>1, <1>2, <1>3, OthersSaved DEF SavepointInv

SavepointPositions ==
  \A h \in Handles : AtomicityInv /\ Open(h) =>
    \A k \in DOMAIN nested[h] : nested[h][k].pos \in Nat /\ nested[h][k].pos <= Len(log[h])

(* Savepoints of an open transaction lie within its log. *)
LEMMA SavepointFacts == SavepointPositions
<1> SUFFICES ASSUME AtomicityInv, NEW h \in Handles, Open(h)
             PROVE  \A k \in DOMAIN nested[h] :
                      nested[h][k].pos \in Nat /\ nested[h][k].pos <= Len(log[h])
  BY DEF SavepointPositions
<1>1. nested[h] \in Seq(Savepoint)
  BY DEF AtomicityInv, LockInv, TypeInv, TypeOK
<1>2. \A k \in DOMAIN nested[h] : nested[h][k] \in Savepoint
  BY <1>1, LenProperties, ElementOfSeq
<1> QED
  BY <1>2 DEF AtomicityInv, Ordered, Savepoint

LEMMA SavepointFactsNext == SavepointPositions'
  BY SavepointFacts, PTL

(* A write logs the old value behind every savepoint ... *)
LEMMA StoreSaved ==
  ASSUME SavepointInv, NEW h \in Handles, Store(h) \/ StoreCopied(h)
  PROVE  SavepointInv'
<1>1. AtomicityInv' /\ AtomicityInv /\ mem \in [Nodes -> Values]
  BY NextAtomicityOf DEF SavepointInv, AtomicityInv, LockInv, TypeInv, TypeOK, CallStep
<1>2. PICK item \in LogItem :
           /\ item.old = mem[item.node]
           /\ lock[item.node] = h
           /\ log[h] \in Seq(LogItem)
           /\ log'[h] = Append(log[h], item)
           /\ mem' = [mem EXCEPT ![item.node] = item.new]
           /\ pc[h] \in {"store", "storeCopied"} /\ pc'[h] = "run"
           /\ OthersStay(h)
           /\ \A k \in Handles \ {h} : log'[k] = log[k] /\ seen'[k] = seen[k]
           /\ UNCHANGED <<lock, nested, seen>>
  BY <1>1, StoreItem
<1>3. acquired' = acquired /\ \A n \in Nodes : mem'[n] # mem[n] => n = item.node
  BY <1>1, <1>2 DEF Store, StoreCopied
<1>4. SavepointsHold(h) /\ Open(h)
  BY <1>2 DEF SavepointInv, GivenUp, Open
<1>5. SavepointsHold(h)'
  <2>1. ASSUME NEW k \in DOMAIN nested[h], NEW n \in DOMAIN nested[h][k].view
        PROVE  BackOf(log'[h], nested[h][k].pos, n, mem'[n])
                 = BackOf(log[h], nested[h][k].pos, n, mem[n])
    <3> DEFINE p == nested[h][k].pos
    <3>1. p \in Nat /\ p <= Len(log[h])
      BY <1>1, <1>4, SavepointFacts DEF SavepointPositions
    <3>2. n \in Nodes
      BY <1>1, <1>4, <2>1
      DEF SavepointsHold, AtomicityInv, LockInv, TypeInv, TypeOK
    <3>3. /\ n = item.node => mem[n] = item.old
          /\ n # item.node => mem'[n] = mem[n]
      BY <1>2, <1>3, <3>2
    <3> HIDE DEF p
    <3>4. BackOf(log'[h], p, n, mem'[n]) = BackOf(log[h], p, n, mem[n])
      BY <1>2, <3>1, <3>3, BackAppend
    <3> QED
      BY <3>4 DEF p
  <2>2. SavepointsHold(h)' <=>
          \A k \in DOMAIN nested[h] : \A n \in DOMAIN nested[h][k].view :
            /\ n \in acquired[h]
            /\ BackOf(log'[h], nested[h][k].pos, n, mem'[n]) = nested[h][k].view[n]
    BY <1>2, <1>3 DEF SavepointsHold, RolledBack, BackOf
  <2> QED
    BY <1>4, <2>1, <2>2, RolledBackOf DEF SavepointsHold
<1> QED
  BY <1>1, <1>2, <1>3, <1>5, OthersSaved DEF SavepointInv

(* ... and the nested rollback stops at the newest one. *)
LEMMA UndoSaved ==
  ASSUME SavepointInv, NEW h \in Handles, Undo(h)
  PROVE  SavepointInv'
<1> DEFINE s == log[h]
           t == Front(log[h])
           e == Top(log[h])
<1>1. AtomicityInv' /\ AtomicityInv /\ mem \in [Nodes -> Values]
  BY NextAtomicityOf DEF SavepointInv, AtomicityInv, LockInv, TypeInv, TypeOK, CallStep
<1>2. /\ s \in Seq(LogItem) /\ e \in LogItem /\ t \in Seq(LogItem) /\ log'[h] = t
      /\ s = Append(t, e)
      /\ mem' = [mem EXCEPT ![e.node] = e.old]
      /\ lock[e.node] = h
      /\ pc[h] \in {"undo", "undoNested"} /\ pc' = pc /\ OthersStay(h)
      /\ \A k \in Handles \ {h} : log'[k] = log[k]
      /\ UNCHANGED <<lock, nested>>
  BY <1>1, UndoneItem
<1> HIDE DEF s, t, e
<1>3. acquired' = acquired /\ \A n \in Nodes : mem'[n] # mem[n] => n = e.node
  BY <1>1, <1>2 DEF Undo
<1>4. CASE pc[h] = "undo"
  BY <1>1, <1>2, <1>3, <1>4, OthersSaved DEF SavepointInv, GivenUp
<1>5. CASE pc[h] = "undoNested"
  <2>1. SavepointsHold(h) /\ Open(h)'
    BY <1>2, <1>5 DEF SavepointInv, GivenUp, Open
  <2>2. \A k \in DOMAIN nested[h] : nested[h][k].pos \in Nat /\ nested[h][k].pos <= Len(t)
    <3>1. \A k \in DOMAIN nested'[h] :
            nested'[h][k].pos \in Nat /\ nested'[h][k].pos <= Len(log'[h])
      BY <1>1, <2>1, SavepointFactsNext DEF SavepointPositions
    <3> QED
      BY <1>2, <3>1
  <2>3. ASSUME NEW k \in DOMAIN nested[h], NEW n \in DOMAIN nested[h][k].view
        PROVE  BackOf(log'[h], nested[h][k].pos, n, mem'[n])
                 = BackOf(log[h], nested[h][k].pos, n, mem[n])
    <3> DEFINE p == nested[h][k].pos
    <3>1. p \in Nat /\ p <= Len(t)
      BY <2>2
    <3>2. n \in Nodes
      BY <1>1, <2>1, <2>3
      DEF SavepointsHold, AtomicityInv, LockInv, TypeInv, TypeOK
    <3>3. /\ n = e.node => mem'[n] = e.old
          /\ n # e.node => mem[n] = mem'[n]
      BY <1>1, <1>2, <1>3, <3>2
    <3> HIDE DEF p
    <3>4. BackOf(s, p, n, mem[n]) = BackOf(t, p, n, mem'[n])
      BY <1>2, <3>1, <3>3, BackAppend
    <3> QED
      BY <1>2, <3>4 DEF p, s
  <2>4. SavepointsHold(h)' <=>
          \A k \in DOMAIN nested[h] : \A n \in DOMAIN nested[h][k].view :
            /\ n \in acquired[h]
            /\ BackOf(log'[h], nested[h][k].pos, n, mem'[n]) = nested[h][k].view[n]
    BY <1>2, <1>3 DEF SavepointsHold, RolledBack, BackOf
  <2>5. SavepointsHold(h)'
    BY <2>1, <2>3, <2>4, RolledBackOf DEF SavepointsHold
  <2> QED
    BY <1>1, <1>2, <1>3, <1>5, <2>5, OthersSaved DEF SavepointInv
<1> QED
  BY <1>2, <1>4, <1>5

LEMMA InitSaved == Init => SavepointInv
<1>1. ASSUME Init, NEW h \in Handles PROVE DOMAIN nested[h] = {} /\ nested[h] = <<>>
  BY <1>1 DEF Init
<1> QED
  BY <1>1, InitAtomicity DEF SavepointInv, SavepointsHold

LEMMA NextSaved == SavepointInv /\ [Next]_vars => SavepointInv'
<1> SUFFICES ASSUME SavepointInv, [Next]_vars PROVE SavepointInv'
  OBVIOUS
<1>1. ASSUME NEW h \in Handles, UserStep(h) PROVE SavepointInv'
  BY <1>1, QuietStepSaved, BeginNestedSaved, FrontSaved DEF UserStep
<1>2. ASSUME NEW h \in Handles, CallStep(h) PROVE SavepointInv'
  BY <1>2, QuietStepSaved, StoreSaved, UndoSaved, FrontSaved, EndSaved DEF CallStep
<1>3. ASSUME NEW h \in Handles, AbortStep(h) PROVE SavepointInv'
  BY <1>3, QuietStepSaved DEF AbortStep
<1>4. CASE Quiescent \/ UNCHANGED vars
  <2>1. UNCHANGED vars
    BY <1>4 DEF Quiescent
  <2>2. AtomicityInv'
    BY NextAtomicity DEF SavepointInv
  <2>3. \A h, p, n : RolledBack(h, p, n)' = RolledBack(h, p, n)
    BY <2>1, RolledBackOf DEF vars, shared, private
  <2> QED
    BY <2>1, <2>2, <2>3 DEF vars, private, SavepointInv, SavepointsHold, GivenUp
<1> QED
  BY <1>1, <1>2, <1>3, <1>4 DEF Next

(* Rolling back to a savepoint gives back what the enclosing transaction had
   written when the nested one began (tr_begin, tr_abort, log_undo_item), for every
   set of handles, objects and values, every nesting and every order of nested
   commits and aborts. *)
THEOREM SavepointsIntact == Spec => []SavepointIntact
<1>1. SavepointInv => SavepointIntact
  BY DEF SavepointInv, SavepointsHold, SavepointIntact, GivenUp
<1> QED
  BY <1>1, InitSaved, NextSaved, PTL DEF Spec

-----------------------------------------------------------------------------
(* The wish for a synchronous commit *)

(* A synchronous commit is remembered in one of the first k savepoints of q. *)
Wished(q, k) == \E j \in 1..k : q[j].synced

(* Every savepoint has the wish of its moment; while code runs, H->commit_type has
   that of the present; during a nested rollback that of the savepoint is to come
   back; an idle handle has none. *)
WishHolds(h) ==
  /\ \A k \in DOMAIN nested[h] : nested[h][k].commitType = "SYNC" <=> Wished(nested[h], k)
  /\ pc[h] \in {"run", "check", "store", "copied", "storeCopied", "failed"} =>
       (commitType[h] = "SYNC" <=> synced[h] \/ Wished(nested[h], Len(nested[h])))
  /\ pc[h] = "undoNested" => (synced[h] <=> Top(nested[h]).synced)
  /\ pc[h] = "idle" => commitType[h] = "ASYNC" /\ ~synced[h] /\ nested[h] = <<>>

(* The invariant. *)
WishInv == TypeInv /\ \A h \in Handles : WishHolds(h)

(* What h does leaves the wishes of the others alone. *)
WishAlone(h) ==
  \A k \in Handles \ {h} : /\ pc'[k] = pc[k] /\ nested'[k] = nested[k]
                           /\ commitType'[k] = commitType[k] /\ synced'[k] = synced[k]

(* Everything but nesting and the end of a transaction. *)
WishQuiet(h) ==
  /\ UNCHANGED <<nested, commitType, synced>>
  /\ pc'[h] \in {"run", "check", "store", "copied", "storeCopied", "failed"} =>
       pc[h] \in {"idle", "run", "check", "store", "copied", "storeCopied", "failed"}
  /\ pc'[h] = "undoNested" => pc[h] = "undoNested"
  /\ pc'[h] = "idle" => pc[h] = "idle"

(* Which steps are the other ones. *)
LEMMA WishSteps ==
  ASSUME TypeInv, NEW h \in Handles, UserStep(h) \/ CallStep(h) \/ AbortStep(h)
  PROVE  \/ WishQuiet(h)
         \/ BeginNested(h) \/ NestedUndone(h) \/ AbortNested(h) \/ AbortTick(h)
         \/ \E ct \in CommitTypes : CommitNested(h, ct)
         \/ FinishCommit(h) \/ FinishReadOnly(h) \/ FinishAbort(h)
<1>1. TypeOK
  BY DEF TypeInv
<1>2. ASSUME NEW n, NEW next \in {"store", "storeCopied"}, UtilLock(h, n, next)
      PROVE  pc'[h] \in {"store", "storeCopied", "failed"}
  BY <1>1, <1>2 DEF UtilLock, TypeOK
<1>3. CASE \/ LockCopied(h) \/ \E n \in Nodes, v \in Values : LockForWrite(h, n, v)
  <2>1. pc'[h] \in {"store", "storeCopied", "failed"} /\ pc[h] \in {"run", "copied"}
    BY <1>2, <1>3 DEF LockCopied, LockForWrite
  <2>2. UNCHANGED <<nested, commitType, synced>>
    BY <1>3 DEF LockCopied, LockForWrite
  <2> QED
    BY <2>1, <2>2 DEF WishQuiet
<1>4. CASE \/ Begin(h) \/ Check(h) \/ Store(h) \/ StoreCopied(h)
           \/ \E n \in Nodes : Load(h, n) \/ UncheckedRead(h, n)
           \/ \E n \in Nodes, v \in Values : CopyOld(h, n, v)
  BY <1>1, <1>4 DEF Begin, Check, Store, StoreCopied, Load, UncheckedRead, CopyOld, Goto, shared,
     TypeOK, WishQuiet
<1>5. CASE \/ Push(h) \/ Validated(h) \/ HardAbort(h) \/ Undo(h)
           \/ \E n \in Nodes : ValidateOne(h, n) \/ ValidateFailed(h, n)
           \/ \E n \in Nodes : Unlock(h, n)
           \/ \E ct \in CommitTypes : \/ CommitReadOnly(h, ct)
                                      \/ CommitFast(h, ct)
                                      \/ CommitLocked(h, ct)
  BY ZenonT(60), <1>1, <1>5 DEF Push, Validated, HardAbort, Undo, ValidateOne, ValidateFailed, Unlock,
     CommitReadOnly, CommitFast, CommitLocked, Goto, shared, TypeOK, WishQuiet
<1> QED
  BY <1>3, <1>4, <1>5 DEF UserStep, CallStep, AbortStep

(* No step touches the wishes of another handle ... *)
LEMMA WishStepAlone ==
  ASSUME TypeInv, NEW h \in Handles, UserStep(h) \/ CallStep(h) \/ AbortStep(h)
  PROVE  WishAlone(h)
<1>1. TypeOK
  BY DEF TypeInv
<1>2. CASE WishQuiet(h)
  <2>1. \A k \in Handles \ {h} : pc'[k] = pc[k]
    BY ZenonT(60), <1>1 DEF UserStep, CallStep, AbortStep, Begin, BeginNested, CommitNested, Load,
       UncheckedRead, Check, Store, StoreCopied, LockForWrite, LockCopied, CopyOld, Push,
       ValidateOne, ValidateFailed, CommitReadOnly, CommitFast, CommitLocked, Validated,
       HardAbort, AbortNested, Undo, NestedUndone, AbortTick, FinishCommit, FinishReadOnly,
       FinishAbort, Unlock, UtilLock, Goto, shared, TypeOK
  <2> QED
    BY <1>2, <2>1 DEF WishAlone, WishQuiet
<1>3. CASE \/ BeginNested(h) \/ NestedUndone(h) \/ AbortNested(h) \/ AbortTick(h)
           \/ \E ct \in CommitTypes : CommitNested(h, ct)
           \/ FinishCommit(h) \/ FinishReadOnly(h) \/ FinishAbort(h)
  BY <1>1, <1>3 DEF BeginNested, NestedUndone, AbortNested, AbortTick, CommitNested, FinishCommit,
     FinishReadOnly, FinishAbort, Cleanup, Goto, TypeOK, WishAlone
<1> QED
  BY <1>2, <1>3, WishSteps

(* ... so they are kept ... *)
LEMMA WishOfOthers ==
  ASSUME NEW h \in Handles, WishAlone(h), NEW k \in Handles \ {h}, WishHolds(k)
  PROVE  WishHolds(k)'
<1>1. nested'[k] = nested[k] /\ pc'[k] = pc[k] /\ commitType'[k] = commitType[k]
      /\ synced'[k] = synced[k]
  BY DEF WishAlone
<1> QED
  BY <1>1 DEF WishHolds, Wished

(* ... and those of the handle that takes the step, too. *)
LEMMA WishOfOwn ==
  ASSUME TypeInv, TypeInv', NEW h \in Handles, WishHolds(h),
         "FORCE_ASYNC" \notin CommitTypes, UserStep(h) \/ CallStep(h) \/ AbortStep(h)
  PROVE  WishHolds(h)'
<1> DEFINE q == nested[h]
<1>1. /\ TypeOK /\ q \in Seq(Savepoint) /\ Len(q) \in Nat /\ DOMAIN q = 1..Len(q)
      /\ \A k \in 1..Len(q) : q[k] \in Savepoint
  BY LenProperties, ElementOfSeq DEF TypeInv, TypeOK
<1>2. CASE WishQuiet(h)
  <2>1. pc[h] = "idle" => ~Wished(q, Len(nested[h]))
    BY <1>1 DEF WishHolds, Wished
  <2>2. \A k : Wished(nested'[h], k) = Wished(q, k)
    BY <1>2 DEF WishQuiet, Wished
  <2> QED
    BY <1>2, <2>1, <2>2 DEF WishQuiet, WishHolds
<1>3. CASE BeginNested(h)
  <2> DEFINE p == [readSet |-> readSet[h], pos |-> Len(log[h]), commitType |-> commitType[h],
                   seen |-> seen[h], synced |-> synced[h], view |-> [n \in acquired[h] |-> mem[n]]]
  <2>1. /\ pc[h] = "run" /\ pc'[h] = "run" /\ nested'[h] = Append(q, p) /\ ~synced'[h]
        /\ commitType'[h] = commitType[h]
    BY <1>1, <1>3 DEF BeginNested, TypeOK
  <2>2. p.commitType = commitType[h] /\ (p.synced <=> synced[h])
    OBVIOUS
  <2> HIDE DEF p
  <2>3. /\ Len(nested'[h]) = Len(q) + 1 /\ DOMAIN nested'[h] = 1..Len(q) + 1
        /\ \A k \in 1..Len(q) : nested'[h][k] = q[k]
        /\ nested'[h][Len(q) + 1] = p
    <3>1. nested'[h] \in Seq(Savepoint)
      BY DEF TypeInv, TypeOK
    <3>2. nested'[h][Len(q) + 1] = p /\ Len(nested'[h]) = Len(q) + 1
      BY <1>1, <2>1, LenProperties
    <3>3. p \in Savepoint
      BY <1>1, <3>1, <3>2, ElementOfSeq
    <3> QED
      BY <1>1, <2>1, <3>3, AppendProperties, LenProperties
  <2>4. ASSUME NEW k \in 1..Len(q) PROVE Wished(nested'[h], k) <=> Wished(q, k)
    <3>1. \A j \in 1..k : j \in 1..Len(q)
      BY <1>1
    <3> QED
      BY <2>3, <3>1 DEF Wished
  <2>5. Wished(nested'[h], Len(q) + 1) <=> Wished(q, Len(q)) \/ synced[h]
    <3>1. \A j \in 1..Len(q) + 1 : j \in 1..Len(q) \/ j = Len(q) + 1
      BY <1>1
    <3>2. 1..Len(q) \subseteq 1..Len(q) + 1 /\ Len(q) + 1 \in 1..Len(q) + 1
      BY <1>1
    <3>3. p.synced <=> synced[h]
      BY <2>2
    <3> QED
      BY <2>3, <3>1, <3>2, <3>3 DEF Wished
  <2>6. commitType[h] = "SYNC" <=> synced[h] \/ Wished(q, Len(q))
    BY <2>1 DEF WishHolds
  <2>7. \A k \in DOMAIN nested'[h] : nested'[h][k].commitType = "SYNC" <=> Wished(nested'[h], k)
    <3> SUFFICES ASSUME NEW k \in DOMAIN nested'[h]
                 PROVE  nested'[h][k].commitType = "SYNC" <=> Wished(nested'[h], k)
      OBVIOUS
    <3>1. CASE k = Len(q) + 1
      BY <2>2, <2>3, <2>5, <2>6, <3>1
    <3>2. CASE k # Len(q) + 1
      <4>1. k \in 1..Len(q)
        BY <1>1, <2>3, <3>2
      <4> QED
        BY <1>1, <2>3, <2>4, <4>1 DEF WishHolds
    <3> QED
      BY <3>1, <3>2
  <2> QED
    BY <2>1, <2>3, <2>5, <2>6, <2>7 DEF WishHolds
<1>4. ASSUME q # <<>>, nested'[h] = Front(q)
      PROVE  /\ \A k \in DOMAIN nested'[h] :
                  nested'[h][k].commitType = "SYNC" <=> Wished(nested'[h], k)
             /\ Wished(q, Len(q)) <=> Wished(nested'[h], Len(nested'[h])) \/ Top(q).synced
             /\ Top(q).commitType = "SYNC" <=> Wished(q, Len(q))
  <2>1. /\ Len(q) - 1 \in Nat /\ Len(q) \in 1..Len(q) /\ Len(nested'[h]) = Len(q) - 1
        /\ DOMAIN nested'[h] = 1..Len(q) - 1
        /\ \A k \in 1..Len(q) - 1 : nested'[h][k] = q[k] /\ k \in 1..Len(q)
        /\ Top(q) = q[Len(q)]
    BY <1>1, <1>4, FrontTop DEF Top
  <2>2. ASSUME NEW k \in 1..Len(q) - 1 PROVE Wished(nested'[h], k) <=> Wished(q, k)
    <3>1. \A j \in 1..k : j \in 1..Len(q) - 1
      BY <2>1
    <3> QED
      BY <2>1, <3>1 DEF Wished
  <2>3. Wished(nested'[h], Len(q) - 1) <=> \E j \in 1..Len(q) - 1 : q[j].synced
    BY <2>1 DEF Wished
  <2>4. Wished(q, Len(q)) <=> (\E j \in 1..Len(q) - 1 : q[j].synced) \/ q[Len(q)].synced
    BY <1>1, <2>1 DEF Wished
  <2>5. \A k \in 1..Len(q) : q[k].commitType = "SYNC" <=> Wished(q, k)
    BY <1>1 DEF WishHolds
  <2> QED
    BY <2>1, <2>2, <2>3, <2>4, <2>5
<1>5. CASE NestedUndone(h)
  <2>1. /\ pc[h] = "undoNested" /\ pc'[h] = "run" /\ nested'[h] = Front(q) /\ q # <<>>
        /\ commitType'[h] = Top(q).commitType /\ (synced'[h] <=> synced[h])
    BY <1>1, <1>5 DEF NestedUndone, Goto, TypeInv, TypeOK
  <2>2. synced[h] <=> Top(q).synced
    BY <2>1 DEF WishHolds
  <2> QED
    BY <1>4, <2>1, <2>2 DEF WishHolds
<1>6. CASE \E ct \in CommitTypes : CommitNested(h, ct)
  <2>1. PICK ct \in {"SYNC", "ASYNC"} : CommitNested(h, ct)
    BY <1>6, ConstAssumption
  <2>2. /\ pc[h] = "run" /\ pc'[h] = "run" /\ q # <<>> /\ nested'[h] = Front(q)
        /\ synced'[h] <=> Top(q).synced \/ ct = "SYNC" \/ synced[h]
    BY <1>1, <2>1 DEF CommitNested, TypeOK
  <2>3. commitType'[h] = IF ct = "SYNC" THEN "SYNC" ELSE commitType[h]
    BY <1>1, <2>1 DEF CommitNested, TypeOK
  <2>4. commitType[h] = "SYNC" <=> synced[h] \/ Wished(q, Len(q))
    BY <2>2 DEF WishHolds
  <2> QED
    BY <1>4, <2>2, <2>3, <2>4 DEF WishHolds
<1>7. CASE AbortNested(h)
  <2>1. /\ pc'[h] = "undoNested" /\ nested' = nested /\ (synced'[h] <=> Top(q).synced)
    BY <1>1, <1>7 DEF AbortNested, TypeOK
  <2>2. \A k : Wished(nested'[h], k) = Wished(q, k)
    BY <2>1 DEF Wished
  <2> QED
    BY <2>1, <2>2 DEF WishHolds
<1>8. CASE AbortTick(h)
  <2>1. pc'[h] = "unlockAbort" /\ nested' = nested
    BY <1>1, <1>8 DEF AbortTick, Goto, TypeOK
  <2>2. \A k : Wished(nested'[h], k) = Wished(q, k)
    BY <2>1 DEF Wished
  <2> QED
    BY <2>1, <2>2 DEF WishHolds
<1>9. CASE FinishCommit(h) \/ FinishReadOnly(h) \/ FinishAbort(h)
  <2>1. pc'[h] = "idle" /\ nested'[h] = <<>> /\ commitType'[h] = "ASYNC" /\ ~synced'[h]
    BY <1>1, <1>9 DEF FinishCommit, FinishReadOnly, FinishAbort, Cleanup, Goto, TypeOK
  <2>2. DOMAIN nested'[h] = {}
    BY <2>1
  <2> QED
    BY <2>1, <2>2 DEF WishHolds
<1> QED
  BY <1>2, <1>3, <1>5, <1>6, <1>7, <1>8, <1>9, WishSteps

(* Within a transaction H->commit_type tells, for every instance in which nobody
   uses CT_FORCE_ASYNC, whether a synchronous nested transaction has been committed
   and not been taken back since (tr_begin, tr_commit, tr_abort). *)
THEOREM WishesKept == "FORCE_ASYNC" \notin CommitTypes => (Spec => []WishKept)
<1> SUFFICES ASSUME "FORCE_ASYNC" \notin CommitTypes PROVE Spec => []WishKept
  OBVIOUS
<1>1. Init => WishInv
  <2>1. ASSUME Init, NEW h \in Handles PROVE WishHolds(h)
    BY <2>1 DEF Init, WishHolds
  <2> QED
    BY <2>1, InitType DEF WishInv
<1>2. WishInv /\ [Next]_vars => WishInv'
  <2> SUFFICES ASSUME WishInv, [Next]_vars PROVE WishInv'
    OBVIOUS
  <2>1. TypeInv /\ TypeInv' /\ \A k \in Handles : WishHolds(k)
    BY NextType DEF WishInv
  <2>2. ASSUME NEW h \in Handles, UserStep(h) \/ CallStep(h) \/ AbortStep(h) PROVE WishInv'
    <3>1. WishHolds(h)' /\ WishAlone(h)
      BY <2>1, <2>2, WishOfOwn, WishStepAlone
    <3>2. \A k \in Handles \ {h} : WishHolds(k)'
      BY <2>1, <3>1, WishOfOthers
    <3> QED
      BY <2>1, <3>1, <3>2 DEF WishInv
  <2>3. CASE UNCHANGED vars
    BY <2>1, <2>3 DEF vars, private, WishInv, WishHolds, Wished
  <2> QED
    BY <2>2, <2>3 DEF Next, Quiescent
<1>3. WishInv => WishKept
  <2> SUFFICES ASSUME WishInv, NEW h \in Handles, pc[h] = "run"
               PROVE  commitType[h] = "SYNC" <=>
                        synced[h] \/ \E k \in DOMAIN nested[h] : nested[h][k].synced
    BY DEF WishKept
  <2>1. DOMAIN nested[h] = 1..Len(nested[h])
    BY LenProperties DEF WishInv, TypeInv, TypeOK
  <2> QED
    BY <2>1 DEF WishInv, WishHolds, Wished
<1> QED
  BY <1>1, <1>2, <1>3, PTL DEF Spec
=============================================================================
