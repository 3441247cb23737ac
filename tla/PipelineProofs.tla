--------------------------- MODULE PipelineProofs ---------------------------
(***************************************************************************)
(* The path of a committed transaction to the disk, for every number of    *)
(* handles, admins and pending jobs and every number of calls: what the    *)
(* runs of CommitPipeline check on small instances follows from one        *)
(* inductive invariant, PipeInv.                                           *)
(***************************************************************************)
EXTENDS CommitPipeline, FiniteSetTheorems, SequenceTheorems, TLAPS

Kinds == Commits \cup {"SYNC_ME", "START_DUMP", "CREATE_NEW_FILE",
                       "COLLECT_GARBAGE", "PAUSE"}
JobType == [by : Handles \cup Admins \cup {Service}, kind : Kinds,
            lock : Semaphores \cup {NoSem}, ready : BOOLEAN, full : BOOLEAN]

TypeInv ==
  /\ fastCommit \in BOOLEAN
  /\ queue \in Seq(JobType)
  /\ counter \in Nat
  /\ sem \in [Semaphores -> Nat]
  /\ hpc \in [Handles -> {"none", "idle", "postFast", "validate", "fill",
                          "postReadOnly", "wait", "reap", "gone"}]
  /\ mine \in [Handles -> Nat]
  /\ mode \in [Handles -> {"SYNC", "ASYNC"}]
  /\ reaped \in [Handles -> Nat]
  /\ failures \in [Handles -> Nat]
  /\ apc \in [Admins -> {"idle", "post", "postOnly", "postPause", "answer",
                         "paused", "waitDump", "inDumpMutex"}]
  /\ answer \in [Admins -> {"none", "SUCCESS", "CANNOT_CREATE_NEW_FILE",
                            "DUMP_RUNNING"}]
  /\ registry \in Seq(Handles)
  /\ closer = "handles" => closeAt \in Nat \ {0}
  /\ tpc \in {"off", "post", "asleep"}
  /\ closer \in {"open", "handles", "post", "join", "closed"}
  /\ svc \in {"sleep", "next", "job", "post", "lockDump", "dump", "exit", "done"}
  /\ cur \in 0..Len(queue)
  /\ svc \in {"job", "post", "lockDump"} => cur > 0
  /\ dumping \in BOOLEAN
  /\ stream \in Seq(Nat)
  /\ durable \in 0..Len(stream)

-----------------------------------------------------------------------------
(* What waits for what depends on the kind of a job. *)
Shape(j) ==
  /\ j.kind = "SYNC_COMMIT" => j.by \in Handles /\ j.lock = Written(j.by)
  /\ j.kind = "COMMIT" => j.by \in Handles /\ j.lock = Pending(j.by)
  /\ j.kind = "SYNC_ME" => \/ j.lock = NoSem
                           \/ j.by \in Handles /\ j.lock = Written(j.by)
  /\ j.kind \in {"START_DUMP", "CREATE_NEW_FILE"} =>
       j.by \in Admins /\ j.lock = Signal(j.by)
  /\ j.kind = "COLLECT_GARBAGE" => j.lock = NoSem
  /\ j.kind = "PAUSE" => j.lock = PauseSem
  /\ j.full => j.kind \in Commits /\ j.ready

Shaped == \A i \in DOMAIN queue : Shape(queue[i])

(* The service thread has written the records of job i, if it has any. *)
Passed(i) == i < cur \/ (i = cur /\ svc # "job")

(* The job of h is linked and not ready. *)
Filling(h) == \/ hpc[h] = "fill"
              \/ fastCommit /\ hpc[h] \in {"postFast", "validate"}

OwnJob(h) ==
  /\ mine[h] \in DOMAIN queue
  /\ queue[mine[h]].by = h
  /\ queue[mine[h]].kind = IF mode[h] = "SYNC" THEN "SYNC_COMMIT" ELSE "COMMIT"

OwnPart(h) ==
  /\ hpc[h] = "postFast" => fastCommit
  /\ hpc[h] = "postReadOnly" => mode[h] = "SYNC"
  /\ Filling(h) => OwnJob(h) /\ ~queue[mine[h]].ready
  /\ hpc[h] = "wait" => OwnJob(h) \/ (mode[h] = "SYNC" /\ mine[h] = 0)
  /\ hpc[h] \in {"none", "idle", "postReadOnly"} => mine[h] = 0

Owned == \A h \in Handles : OwnPart(h)

(* Nothing is passed over, nothing is written twice or out of order, and what
   somebody may have been told about is on the disk. *)
Ordered ==
  /\ \A i \in DOMAIN queue : Passed(i) =>
       /\ queue[i].kind \in Commits => queue[i].ready
       /\ queue[i].full => \E k \in DOMAIN stream : stream[k] = i
       /\ queue[i].kind = "SYNC_COMMIT" => DurableUpTo(i)
  /\ \A k \in DOMAIN stream : stream[k] \in DOMAIN queue /\ Passed(stream[k])
  /\ \A k \in 1..Len(stream) - 1 : stream[k] < stream[k + 1]

(* Jobs after which the service thread will post s. *)
Waiting(s) == {i \in DOMAIN queue : Outstanding(i) /\ queue[i].lock = s}

(* s is posted once for the one job that is to post it. *)
OneToken(s) == \/ sem[s] = 0 /\ \E i \in DOMAIN queue : Waiting(s) = {i}
               \/ sem[s] = 1 /\ Waiting(s) = {}
NoToken(s)  == sem[s] = 0 /\ Waiting(s) = {}

SignalPart(a) ==
  /\ apc[a] \in {"post", "answer"} => OneToken(Signal(a))
  /\ apc[a] \notin {"post", "answer"} => NoToken(Signal(a))
  /\ sem[Signal(a)] > 0 => answer[a] # "none"
  /\ svc \in {"post", "lockDump"} /\ queue[cur].lock = Signal(a) => answer[a] # "none"

Signals == \A a \in Admins : SignalPart(a)

Dumps ==
  /\ svc = "lockDump" => /\ queue[cur].kind = "START_DUMP"
                         /\ dumpOf = queue[cur].by
                         /\ ~dumping
  /\ dumping => dumpMutex = Service
  /\ dumpOf # Free => svc = "lockDump" \/ dumping
  /\ \A a \in Admins : apc[a] = "inDumpMutex" => dumpMutex = a

(* h waits for the disk, or will. *)
SyncCall(h) == /\ mode[h] = "SYNC"
               /\ Filling(h) \/ hpc[h] \in {"postReadOnly", "wait"}
(* h waits for a place, or will. *)
AsyncCall(h) == mode[h] = "ASYNC" /\ (Filling(h) \/ hpc[h] = "wait")

SyncPart(h) ==
  Untroubled(h) => /\ SyncCall(h) => OneToken(Written(h))
                   /\ ~SyncCall(h) => NoToken(Written(h))

SyncTokens == \A h \in Handles : SyncPart(h)

AsyncPart(h) ==
  Untroubled(h) => sem[Pending(h)] + Cardinality(Waiting(Pending(h))) + reaped[h]
                     = MaxPending + (IF AsyncCall(h) THEN 1 ELSE 0)

AsyncTokens == \A h \in Handles : AsyncPart(h)

Reaped == \A h \in Handles : hpc[h] = "gone" => reaped[h] = MaxPending

(* Who has linked a job and not posted D->counter yet. *)
SendingHandles == {h \in Handles : hpc[h] \in {"postFast", "postReadOnly"}}
SendingAdmins  == {a \in Admins : apc[a] \in {"post", "postOnly", "postPause"}}

(* One token per job, and one of database_close. *)
Counted ==
  /\ counter + Cardinality(SendingHandles) + Cardinality(SendingAdmins)
       + (IF tpc = "post" THEN 1 ELSE 0) + cur + (IF svc = "next" THEN 1 ELSE 0)
       + (IF svc \in {"exit", "done"} THEN 1 ELSE 0)
     = Len(queue) + (IF closer \in {"join", "closed"} THEN 1 ELSE 0)
  /\ svc \in {"exit", "done"} => closer \in {"join", "closed"} /\ cur = Len(queue)
  /\ closer # "open" => /\ SendingHandles = {} /\ SendingAdmins = {}
                        /\ \A h \in Handles : hpc[h] \in {"none", "idle", "reap", "gone"}
                        /\ \A a \in Admins : apc[a] = "idle"
  /\ closer \in {"post", "join", "closed"} => tpc # "post"
  /\ svc = "done" => durable = Len(stream)

PipeInv ==
  /\ TypeInv /\ Shaped /\ Owned /\ Ordered /\ Signals /\ Dumps
  /\ SyncTokens /\ AsyncTokens /\ Reaped /\ Counted

-----------------------------------------------------------------------------
(* Sequences and semaphores *)

(* A sequence and the same with one element more. *)
LEMMA AppendFacts ==
  ASSUME NEW S, NEW s \in Seq(S), NEW e \in S
  PROVE  /\ Append(s, e) \in Seq(S)
         /\ Len(s) \in Nat /\ Len(Append(s, e)) = Len(s) + 1
         /\ DOMAIN s = 1..Len(s) /\ DOMAIN Append(s, e) = 1..Len(s) + 1
         /\ Append(s, e)[Len(s) + 1] = e
         /\ \A i \in 1..Len(s) : Append(s, e)[i] = s[i]
<1>1. Append(s, e) \in Seq(S) /\ Len(Append(s, e)) = Len(s) + 1
  OBVIOUS
<1>2. Len(s) \in Nat /\ DOMAIN s = 1..Len(s) /\ DOMAIN Append(s, e) = 1..Len(Append(s, e))
  BY <1>1, LenProperties
<1> QED
  BY <1>1, <1>2

(* What the users of the queue do with it: they link a job, or declare one
   ready that they have linked. *)
Linked(j) == j \in JobType /\ Shape(j) /\ ~j.full /\ queue' = Append(queue, j)

Readied(m) ==
  /\ m \in DOMAIN queue
  /\ queue' \in Seq(JobType) /\ Len(queue') = Len(queue) /\ DOMAIN queue' = DOMAIN queue
  /\ \A i \in DOMAIN queue \ {m} : queue'[i] = queue[i]
  /\ queue'[m].by = queue[m].by /\ queue'[m].kind = queue[m].kind
  /\ queue'[m].lock = queue[m].lock /\ queue'[m].ready

QueueStep == \/ UNCHANGED queue
             \/ \E j : Linked(j)
             \/ \E h \in Handles : Filling(h) /\ Readied(mine[h])

SvcStill == UNCHANGED <<fastCommit, svc, cur, dumping, dumpOf, stream, durable>>

(* A job changes its buffer only. *)
LEMMA ReadyFacts ==
  ASSUME TypeInv, NEW m \in DOMAIN queue, NEW j \in JobType,
         j.by = queue[m].by, j.kind = queue[m].kind, j.lock = queue[m].lock, j.ready,
         queue' = [queue EXCEPT ![m] = j]
  PROVE  Readied(m)
<1>1. Len(queue) \in Nat /\ DOMAIN queue = 1..Len(queue) /\ queue \in Seq(JobType)
  BY LenProperties DEF TypeInv
<1>2. /\ queue' \in Seq(JobType) /\ Len(queue') = Len(queue)
      /\ \A i \in 1..Len(queue) : queue'[i] = IF i = m THEN j ELSE queue[i]
  BY <1>1, ExceptSeq
<1>3. DOMAIN queue' = 1..Len(queue')
  BY <1>2, LenProperties
<1> QED
  BY <1>1, <1>2, <1>3 DEF Readied

(* No two semaphores are the same one. *)
LEMMA SemaphoresDiffer ==
  /\ \A h \in Handles : /\ Written(h) \in Semaphores /\ Pending(h) \in Semaphores
                        /\ Written(h)[1] # "pending_transactions"
                        /\ Pending(h)[1] = "pending_transactions"
  /\ \A a \in Admins : Signal(a) \in Semaphores /\ Signal(a)[1] # "pending_transactions"
  /\ PauseSem \in Semaphores
  /\ \A h, k \in Handles : /\ Written(h) # Pending(k)
                           /\ Written(h) = Written(k) => h = k
                           /\ Pending(h) = Pending(k) => h = k
  /\ \A h \in Handles, a \in Admins : Written(h) # Signal(a) /\ Pending(h) # Signal(a)
  /\ \A a, b \in Admins : Signal(a) = Signal(b) => a = b
  /\ \A h \in Handles : /\ Written(h) \notin {PauseSem, NoSem}
                        /\ Pending(h) \notin {PauseSem, NoSem}
  /\ \A a \in Admins : Signal(a) \notin {PauseSem, NoSem}
  /\ NoSem \notin Semaphores /\ NoSem # PauseSem
<1>1. /\ \A h \in Handles : Written(h) \in Semaphores /\ Pending(h) \in Semaphores
      /\ \A a \in Admins : Signal(a) \in Semaphores
      /\ PauseSem \in Semaphores
  BY DEF Semaphores
<1>2. /\ \A h : /\ Written(h) = <<"write_finished", h>>
                /\ Pending(h) = <<"pending_transactions", h>>
                /\ Signal(h) = <<"signal", h>>
      /\ PauseSem = <<"service_thread_pause", Service>> /\ NoSem = <<"none", Service>>
  BY DEF Written, Pending, Signal, PauseSem, NoSem
<1>3. \A x \in Semaphores : x[1] # "none"
  BY <1>2 DEF Semaphores
<1> QED
  BY <1>1, <1>2, <1>3

(* What TypeInv says of the queue, job by job. *)
LEMMA QueueFacts ==
  ASSUME TypeInv
  PROVE  /\ Len(queue) \in Nat /\ DOMAIN queue = 1..Len(queue) /\ queue \in Seq(JobType)
         /\ cur \in Nat /\ cur <= Len(queue)
         /\ \A i \in DOMAIN queue :
              /\ queue[i] \in JobType
              /\ queue[i].by \in Handles \cup Admins \cup {Service}
              /\ queue[i].kind \in Kinds
              /\ queue[i].lock \in Semaphores \cup {NoSem}
              /\ queue[i].ready \in BOOLEAN /\ queue[i].full \in BOOLEAN
<1>1. Len(queue) \in Nat /\ DOMAIN queue = 1..Len(queue) /\ queue \in Seq(JobType)
  BY LenProperties DEF TypeInv
<1>2. \A i \in DOMAIN queue : queue[i] \in JobType
  BY <1>1, ElementOfSeq
<1> QED
  BY <1>1, <1>2 DEF JobType, TypeInv

(* The same for what has been written. *)
LEMMA StreamFacts ==
  ASSUME TypeInv
  PROVE  /\ Len(stream) \in Nat /\ DOMAIN stream = 1..Len(stream)
         /\ stream \in Seq(Nat) /\ durable \in 0..Len(stream)
         /\ \A k \in DOMAIN stream : stream[k] \in Nat
<1>1. stream \in Seq(Nat) /\ durable \in 0..Len(stream)
  BY DEF TypeInv
<1>2. Len(stream) \in Nat /\ DOMAIN stream = 1..Len(stream)
  BY <1>1, LenProperties
<1> QED
  BY <1>1, <1>2, ElementOfSeq

(* A queue with one job more. *)
LEMMA LinkedFacts ==
  ASSUME TypeInv, NEW j, Linked(j)
  PROVE  /\ queue' \in Seq(JobType) /\ Len(queue') = Len(queue) + 1
         /\ DOMAIN queue' = 1..Len(queue) + 1
         /\ queue'[Len(queue) + 1] = j
         /\ \A i \in DOMAIN queue : queue'[i] = queue[i]
  BY QueueFacts, AppendFacts DEF Linked

(* The jobs somebody waits for, before and after. *)
LEMMA WaitingStill ==
  ASSUME UNCHANGED <<queue, cur, svc>>
  PROVE  \A s : Waiting(s)' = Waiting(s)
  BY DEF Waiting, Outstanding

(* A job that becomes ready is still waited for. *)
LEMMA WaitingReadied ==
  ASSUME TypeInv, NEW m, Readied(m), SvcStill
  PROVE  \A s : Waiting(s)' = Waiting(s)
<1>1. \A i \in DOMAIN queue : queue'[i].lock = queue[i].lock
  BY DEF Readied
<1> QED
  BY <1>1 DEF Waiting, Outstanding, Readied, SvcStill

(* The jobs somebody waits for can be counted. *)
LEMMA WaitingFinite ==
  ASSUME TypeInv
  PROVE  \A s : /\ IsFiniteSet(Waiting(s)) /\ Cardinality(Waiting(s)) \in Nat
                /\ Waiting(s) \subseteq 1..Len(queue)
<1>1. IsFiniteSet(1..Len(queue))
  BY QueueFacts, FS_Interval
<1>2. \A s : Waiting(s) \subseteq 1..Len(queue)
  BY QueueFacts DEF Waiting
<1>3. ASSUME NEW s PROVE IsFiniteSet(Waiting(s))
  BY <1>1, <1>2, FS_Subset
<1> QED
  BY <1>2, <1>3, FS_CardinalityType

(* A new job is waited for, by its own semaphore only. *)
LEMMA WaitingLinked ==
  ASSUME TypeInv, NEW j, Linked(j), SvcStill
  PROVE  /\ Len(queue) + 1 \notin DOMAIN queue
         /\ Waiting(j.lock)' = Waiting(j.lock) \cup {Len(queue) + 1}
         /\ \A s : s # j.lock => Waiting(s)' = Waiting(s)
         /\ Len(queue) + 1 \in DOMAIN queue'
         /\ Cardinality(Waiting(j.lock)') = Cardinality(Waiting(j.lock)) + 1
<1>1. Len(queue) + 1 > cur /\ Len(queue) + 1 \notin DOMAIN queue
  BY QueueFacts
<1>2. DOMAIN queue' = DOMAIN queue \cup {Len(queue) + 1}
  <2>1. \A n \in Nat : 1..n + 1 = (1..n) \cup {n + 1}
    OBVIOUS
  <2> QED
    BY <2>1, QueueFacts, LinkedFacts
<1>3. \A i : Outstanding(i)' <=> Outstanding(i)
  BY DEF Outstanding, SvcStill
<1>4. /\ Waiting(j.lock)' = Waiting(j.lock) \cup {Len(queue) + 1}
      /\ \A s : s # j.lock => Waiting(s)' = Waiting(s)
  BY <1>1, <1>2, <1>3, LinkedFacts DEF Waiting, Outstanding
<1>5. Len(queue) + 1 \notin Waiting(j.lock)
  BY <1>1 DEF Waiting
<1>6. IsFiniteSet(Waiting(j.lock))
  BY WaitingFinite
<1>7. Cardinality(Waiting(j.lock) \cup {Len(queue) + 1}) = Cardinality(Waiting(j.lock)) + 1
  BY <1>5, <1>6, FS_AddElement
<1>8. Len(queue) + 1 \in DOMAIN queue'
  BY <1>2
<1> QED
  BY <1>1, <1>4, <1>7, <1>8

(* Jobs and stream, whatever the users do. *)
LEMMA UserShaped ==
  ASSUME TypeInv, Shaped, Owned, QueueStep, SvcStill
  PROVE  Shaped' /\ queue' \in Seq(JobType) /\ Len(queue) <= Len(queue')
<1>1. CASE UNCHANGED queue
  BY <1>1, QueueFacts DEF Shaped, Shape
<1>2. ASSUME NEW j, Linked(j) PROVE Shaped' /\ Len(queue) <= Len(queue')
  <2>1. ASSUME NEW i \in DOMAIN queue' PROVE Shape(queue'[i])
    <3>1. CASE i \in DOMAIN queue
      BY <1>2, <3>1, LinkedFacts DEF Shaped
    <3>2. CASE i = Len(queue) + 1
      BY <1>2, <3>2, LinkedFacts DEF Linked
    <3> QED
      BY <1>2, <2>1, <3>1, <3>2, LinkedFacts, QueueFacts
  <2> QED
    BY <1>2, <2>1, LinkedFacts, QueueFacts DEF Shaped, Shape
<1>3. ASSUME NEW h \in Handles, Filling(h), Readied(mine[h])
      PROVE  Shaped' /\ Len(queue) <= Len(queue')
  <2>1. queue[mine[h]].kind \in Commits
    BY <1>3 DEF Owned, OwnPart, OwnJob, Commits
  <2>2. ASSUME NEW i \in DOMAIN queue PROVE Shape(queue'[i])
    <3>1. CASE i # mine[h]
      BY <1>3, <3>1 DEF Shaped, Readied
    <3>2. CASE i = mine[h]
      BY <1>3, <2>1, <3>2 DEF Shaped, Shape, Readied
    <3> QED
      BY <3>1, <3>2
  <2> QED
    BY <1>3, <2>2, QueueFacts DEF Shaped, Shape, Readied
<1> QED
  BY <1>1, <1>2, <1>3, LinkedFacts, QueueFacts DEF QueueStep, Readied

(* Nobody but the service thread disturbs what has been written. *)
LEMMA UserOrdered ==
  ASSUME TypeInv, Shaped, Owned, Ordered, QueueStep, SvcStill
  PROVE  Ordered'
<1>1. /\ DOMAIN queue \subseteq DOMAIN queue'
      /\ \A i \in DOMAIN queue' \ DOMAIN queue : i \in Nat /\ i > cur
  BY QueueFacts, LinkedFacts DEF QueueStep, Readied
<1>2. /\ \A i : Passed(i)' <=> Passed(i)
      /\ \A i \in DOMAIN queue' : Passed(i) => i \in DOMAIN queue
  <2>1. \A i : Passed(i)' <=> Passed(i)
    BY DEF Passed, SvcStill
  <2>2. \A i \in DOMAIN queue' \ DOMAIN queue : ~Passed(i)
    BY <1>1, QueueFacts DEF Passed
  <2> QED
    BY <2>1, <2>2
<1>3. \A i \in DOMAIN queue : Passed(i) => queue'[i] = queue[i]
  <2>1. ASSUME NEW h \in Handles, Filling(h), Readied(mine[h]),
               NEW i \in DOMAIN queue, Passed(i)
        PROVE  queue'[i] = queue[i]
    <3>1. i # mine[h]
      BY <2>1 DEF Ordered, Owned, OwnPart, OwnJob, Commits
    <3> QED
      BY <2>1, <3>1 DEF Readied
  <2> QED
    BY <2>1, LinkedFacts DEF QueueStep
<1>4. ASSUME NEW i \in DOMAIN queue', Passed(i), NEW k \in 1..i
      PROVE  k \in DOMAIN queue /\ Passed(k) /\ queue'[k] = queue[k]
  BY <1>2, <1>3, <1>4, QueueFacts DEF Passed
<1>5. ASSUME NEW i \in DOMAIN queue', Passed(i), DurableUpTo(i) PROVE DurableUpTo(i)'
  BY <1>4, <1>5 DEF DurableUpTo, OnDisk, SvcStill
<1> QED
  BY <1>1, <1>2, <1>3, <1>5 DEF Ordered, SvcStill

-----------------------------------------------------------------------------
(* The jobs that are linked *)

CommitJob(h, m) ==
  JobWith(h, IF m = "SYNC" THEN "SYNC_COMMIT" ELSE "COMMIT",
          IF m = "SYNC" THEN Written(h) ELSE Pending(h), FALSE)

(* The job of a commit posts what the commit will wait for. *)
LEMMA CommitLinks ==
  ASSUME NEW h \in Handles, NEW m \in {"SYNC", "ASYNC"},
         queue' = Append(queue, CommitJob(h, m))
  PROVE  /\ Linked(CommitJob(h, m))
         /\ CommitJob(h, m).by = h
         /\ CommitJob(h, m).kind = (IF m = "SYNC" THEN "SYNC_COMMIT" ELSE "COMMIT")
         /\ CommitJob(h, m).lock = (IF m = "SYNC" THEN Written(h) ELSE Pending(h))
         /\ ~CommitJob(h, m).ready
<1> DEFINE kind == IF m = "SYNC" THEN "SYNC_COMMIT" ELSE "COMMIT"
           lock == IF m = "SYNC" THEN Written(h) ELSE Pending(h)
<1>1. kind \in Kinds /\ lock \in Semaphores \cup {NoSem}
  BY SemaphoresDiffer DEF Kinds, Commits
<1>2. /\ CommitJob(h, m) = JobWith(h, kind, lock, FALSE)
      /\ CommitJob(h, m) \in JobType
      /\ CommitJob(h, m).by = h /\ CommitJob(h, m).kind = kind
      /\ CommitJob(h, m).lock = lock /\ CommitJob(h, m).ready = FALSE
      /\ CommitJob(h, m).full = FALSE
  BY <1>1 DEF CommitJob, JobWith, JobType
<1>3. Shape(CommitJob(h, m))
  BY <1>2 DEF Shape
<1> QED
  BY <1>2, <1>3 DEF Linked

(* So does a flush request; the one of the timer posts nothing. *)
LEMMA SyncMeLinks ==
  ASSUME NEW by, NEW lock,
         \/ by = Service /\ lock = NoSem
         \/ by \in Handles /\ lock = Written(by),
         queue' = Append(queue, JobWith(by, "SYNC_ME", lock, TRUE))
  PROVE  /\ Linked(JobWith(by, "SYNC_ME", lock, TRUE))
         /\ JobWith(by, "SYNC_ME", lock, TRUE).lock = lock
<1> DEFINE j == JobWith(by, "SYNC_ME", lock, TRUE)
<1>1. lock \in Semaphores \cup {NoSem} /\ "SYNC_ME" \in Kinds
  BY SemaphoresDiffer DEF Kinds
<1>2. /\ j \in JobType /\ j.by = by /\ j.kind = "SYNC_ME" /\ j.lock = lock /\ j.full = FALSE
  BY <1>1 DEF JobWith, JobType
<1> HIDE DEF j
<1>3. Shape(j)
  BY <1>2 DEF Shape, Commits
<1> QED
  BY <1>2, <1>3 DEF Linked, j

RequestLock(a, kind) == CASE kind = "PAUSE" -> PauseSem
                          [] kind = "COLLECT_GARBAGE" -> NoSem
                          [] OTHER -> Signal(a)

(* So do the requests of the database functions. *)
LEMMA RequestLinks ==
  ASSUME NEW a \in Admins, NEW kind \in Requests \ {"WAIT_FOR_DUMP"},
         queue' = Append(queue, JobWith(a, kind, RequestLock(a, kind), TRUE))
  PROVE  /\ Linked(JobWith(a, kind, RequestLock(a, kind), TRUE))
         /\ JobWith(a, kind, RequestLock(a, kind), TRUE).lock = RequestLock(a, kind)
<1> DEFINE j == JobWith(a, kind, RequestLock(a, kind), TRUE)
<1>1. kind \in {"START_DUMP", "CREATE_NEW_FILE", "COLLECT_GARBAGE", "PAUSE"}
  BY ConstAssumption
<1>2. /\ RequestLock(a, kind) \in Semaphores \cup {NoSem} /\ kind \in Kinds
      /\ kind = "PAUSE" => RequestLock(a, kind) = PauseSem
      /\ kind = "COLLECT_GARBAGE" => RequestLock(a, kind) = NoSem
      /\ kind \in {"START_DUMP", "CREATE_NEW_FILE"} => RequestLock(a, kind) = Signal(a)
  BY <1>1, SemaphoresDiffer DEF RequestLock, Kinds
<1>3. /\ j \in JobType /\ j.by = a /\ j.kind = kind /\ j.lock = RequestLock(a, kind)
      /\ j.full = FALSE
  BY <1>2 DEF JobWith, JobType
<1> HIDE DEF j
<1>4. Shape(j)
  BY <1>1, <1>2, <1>3 DEF Shape, Commits
<1> QED
  BY <1>3, <1>4 DEF Linked, j

(* Valid with FAST_COMMIT links nothing; Invalid and Fill declare ready. *)
LEMMA FillReadies ==
  ASSUME TypeInv, Shaped, Owned, NEW h \in Handles,
         Fill(h) \/ (fastCommit /\ Invalid(h))
  PROVE  Filling(h) /\ Readied(mine[h])
<1> DEFINE m == mine[h]
<1>1. Filling(h)
  BY DEF Fill, Invalid, HGoto, Filling
<1>2. m \in DOMAIN queue /\ queue[m] \in JobType
  BY <1>1, QueueFacts DEF Owned, OwnPart, OwnJob
<1>3. CASE Fill(h)
  <2> DEFINE j == [[queue[m] EXCEPT !.ready = TRUE] EXCEPT !.full = TRUE]
  <2>1. /\ j \in JobType /\ j.by = queue[m].by /\ j.kind = queue[m].kind
        /\ j.lock = queue[m].lock /\ j.ready
    BY <1>2 DEF JobType
  <2>2. queue' = [queue EXCEPT ![m] = j]
    BY <1>2, <1>3 DEF Fill
  <2> QED
    BY <1>1, <1>2, <2>1, <2>2, ReadyFacts
<1>4. CASE fastCommit /\ Invalid(h)
  <2> DEFINE j == [queue[m] EXCEPT !.ready = TRUE]
  <2>1. /\ j \in JobType /\ j.by = queue[m].by /\ j.kind = queue[m].kind
        /\ j.lock = queue[m].lock /\ j.ready
    BY <1>2 DEF JobType
  <2>2. queue' = [queue EXCEPT ![m] = j]
    BY <1>4 DEF Invalid
  <2> QED
    BY <1>1, <1>2, <2>1, <2>2, ReadyFacts
<1> QED
  BY <1>3, <1>4

-----------------------------------------------------------------------------
(* Steps of a handle *)

HandlePart(h) == /\ OwnPart(h) /\ SyncPart(h) /\ AsyncPart(h)
                 /\ hpc[h] = "gone" => reaped[h] = MaxPending

QueueInv == TypeInv /\ Shaped /\ Ordered

(* What a step of h leaves alone. *)
Away(h) ==
  /\ SvcStill /\ QueueStep
  /\ UNCHANGED <<apc, answer, dumpMutex>>
  /\ \A k \in Handles \ {h} :
       /\ hpc'[k] = hpc[k] /\ mine'[k] = mine[k] /\ mode'[k] = mode[k]
       /\ reaped'[k] = reaped[k] /\ failures'[k] = failures[k]
  /\ \A s \in Semaphores \ {Written(h), Pending(h)} :
       sem'[s] = sem[s] /\ Waiting(s)' = Waiting(s)
  /\ \A i \in DOMAIN queue :
       /\ i \in DOMAIN queue'
       /\ queue'[i] # queue[i] => Filling(h) /\ i = mine[h]
       /\ queue'[i].lock = queue[i].lock /\ queue'[i].kind = queue[i].kind
       /\ queue'[i].by = queue[i].by

(* PipeInv handle by handle. *)
LEMMA PartsOf ==
  /\ PipeInv <=> /\ QueueInv /\ \A h \in Handles : HandlePart(h)
                 /\ Signals /\ Dumps /\ Counted
  /\ PipeInv' <=> /\ QueueInv' /\ \A h \in Handles : HandlePart(h)'
                  /\ Signals' /\ Dumps' /\ Counted'
  BY DEF PipeInv, HandlePart, QueueInv, Owned, SyncTokens, AsyncTokens, Reaped

(* A step of h does not concern the other handles. *)
LEMMA AwayHandles ==
  ASSUME PipeInv, NEW h \in Handles, Away(h), NEW k \in Handles \ {h}
  PROVE  HandlePart(k)'
<1>1. HandlePart(k) /\ (Filling(h) => OwnJob(h))
  BY PartsOf DEF HandlePart, OwnPart
<1>2. /\ hpc'[k] = hpc[k] /\ mine'[k] = mine[k] /\ mode'[k] = mode[k]
      /\ reaped'[k] = reaped[k] /\ failures'[k] = failures[k] /\ fastCommit' = fastCommit
  BY DEF Away, SvcStill
<1>3. /\ sem'[Written(k)] = sem[Written(k)] /\ Waiting(Written(k))' = Waiting(Written(k))
      /\ sem'[Pending(k)] = sem[Pending(k)] /\ Waiting(Pending(k))' = Waiting(Pending(k))
  BY SemaphoresDiffer DEF Away
<1>4. /\ Filling(k)' = Filling(k) /\ Untroubled(k)' = Untroubled(k)
      /\ SyncCall(k)' = SyncCall(k) /\ AsyncCall(k)' = AsyncCall(k)
  BY <1>2 DEF Filling, Untroubled, SyncCall, AsyncCall
<1>5. /\ OwnJob(k) => OwnJob(k)'
      /\ OwnJob(k) => queue'[mine[k]] = queue[mine[k]]
  BY <1>1, <1>2 DEF OwnJob, Away
<1>6. OwnPart(k)'
  BY <1>1, <1>2, <1>4, <1>5 DEF HandlePart, OwnPart
<1>7. SyncPart(k)'
  BY <1>1, <1>3, <1>4 DEF HandlePart, SyncPart, OneToken, NoToken, Away
<1>8. AsyncPart(k)'
  BY <1>1, <1>2, <1>3, <1>4 DEF HandlePart, AsyncPart
<1> QED
  BY <1>1, <1>2, <1>6, <1>7, <1>8 DEF HandlePart

(* Nor does it concern the admins and the dump. *)
LEMMA AwaySignals ==
  ASSUME PipeInv, NEW h \in Handles, Away(h)
  PROVE  Signals' /\ Dumps'
<1>1. svc \in {"post", "lockDump"} => cur \in DOMAIN queue
  BY QueueFacts DEF PipeInv, TypeInv
<1>2. ASSUME NEW a \in Admins PROVE SignalPart(a)'
  <2>1. SignalPart(a)
    BY DEF PipeInv, Signals
  <2>2. sem'[Signal(a)] = sem[Signal(a)] /\ Waiting(Signal(a))' = Waiting(Signal(a))
    BY SemaphoresDiffer DEF Away
  <2> QED
    BY <1>1, <2>1, <2>2 DEF SignalPart, OneToken, NoToken, Away, SvcStill
<1>3. Dumps'
  BY <1>1 DEF PipeInv, Dumps, Away, SvcStill
<1> QED
  BY <1>2, <1>3 DEF Signals

(* A step of h that is fine for h is fine. *)
LEMMA HandleStepSaved ==
  ASSUME PipeInv, NEW h \in Handles, Away(h), TypeInv', HandlePart(h)', Counted'
  PROVE  PipeInv'
<1>1. QueueInv'
  BY UserShaped, UserOrdered DEF PipeInv, Away, QueueInv
<1> QED
  BY <1>1, AwayHandles, AwaySignals, PartsOf

(* Tokens of D->counter *)
LEMMA SendingFinite ==
  /\ IsFiniteSet(SendingHandles) /\ Cardinality(SendingHandles) \in Nat
  /\ IsFiniteSet(SendingAdmins) /\ Cardinality(SendingAdmins) \in Nat
<1>1. SendingHandles \subseteq Handles /\ SendingAdmins \subseteq Admins
  BY DEF SendingHandles, SendingAdmins
<1>2. IsFiniteSet(SendingHandles) /\ IsFiniteSet(SendingAdmins)
  BY <1>1, ActorAssumption, FS_Subset
<1> QED
  BY <1>2, FS_CardinalityType

Sends(p) == p \in {"postFast", "postReadOnly"}

(* A handle posts one token for the one job it links. *)
LEMMA HandleCounted ==
  ASSUME PipeInv, NEW h \in Handles, SvcStill, UNCHANGED <<apc, tpc, closer>>,
         \A k \in Handles \ {h} : hpc'[k] = hpc[k],
         \/ /\ closer = "open" /\ ~Sends(hpc[h]) /\ Sends(hpc'[h])
            /\ Len(queue') = Len(queue) + 1 /\ counter' = counter
         \/ /\ closer = "open" /\ Sends(hpc[h]) /\ ~Sends(hpc'[h])
            /\ Len(queue') = Len(queue) /\ counter' = counter + 1
         \/ /\ closer = "open" /\ ~Sends(hpc[h]) /\ ~Sends(hpc'[h])
            /\ Len(queue') = Len(queue) + 1 /\ counter' = counter + 1
         \/ /\ closer = "open" \/ hpc'[h] \in {"reap", "gone"}
            /\ ~Sends(hpc[h]) /\ ~Sends(hpc'[h])
            /\ Len(queue') = Len(queue) /\ counter' = counter
  PROVE  Counted'
<1> DEFINE n == Cardinality(SendingHandles)
           o == Cardinality(SendingHandles')
           m == Cardinality(SendingAdmins)
           l == Len(queue)
           k == Len(queue')
           c == counter
           d == counter'
<1>1. Counted /\ c \in Nat /\ cur \in Nat /\ l \in Nat
  BY QueueFacts DEF PipeInv, TypeInv
<1>2. n \in Nat /\ m \in Nat /\ SendingAdmins' = SendingAdmins
  BY SendingFinite DEF SendingAdmins
<1>3. SendingHandles' = IF Sends(hpc'[h]) THEN SendingHandles \cup {h}
                                           ELSE SendingHandles \ {h}
  BY DEF SendingHandles, Sends
<1>4. h \in SendingHandles <=> Sends(hpc[h])
  BY DEF SendingHandles, Sends
<1>5. IsFiniteSet(SendingHandles')
      /\ o = IF Sends(hpc'[h]) THEN IF Sends(hpc[h]) THEN n ELSE n + 1
                               ELSE IF Sends(hpc[h]) THEN n - 1 ELSE n
  BY <1>3, <1>4, SendingFinite, FS_AddElement, FS_RemoveElement
<1>6. o \in Nat
  BY <1>5, FS_CardinalityType
<1>7. closer # "open" => SendingHandles' = {}
  BY <1>1, <1>3 DEF Counted
<1>8. Counted' <=>
        /\ d + o + m + (IF tpc = "post" THEN 1 ELSE 0) + cur
             + (IF svc = "next" THEN 1 ELSE 0) + (IF svc \in {"exit", "done"} THEN 1 ELSE 0)
           = k + (IF closer \in {"join", "closed"} THEN 1 ELSE 0)
        /\ svc \in {"exit", "done"} => closer \in {"join", "closed"} /\ cur = k
        /\ closer # "open" =>
             /\ SendingHandles' = {} /\ SendingAdmins = {}
             /\ \A x \in Handles : hpc'[x] \in {"none", "idle", "reap", "gone"}
             /\ \A a \in Admins : apc[a] = "idle"
        /\ closer \in {"post", "join", "closed"} => tpc # "post"
        /\ svc = "done" => durable = Len(stream)
  BY <1>2 DEF Counted, SvcStill
<1>9. c + n + m + (IF tpc = "post" THEN 1 ELSE 0) + cur
        + (IF svc = "next" THEN 1 ELSE 0) + (IF svc \in {"exit", "done"} THEN 1 ELSE 0)
      = l + (IF closer \in {"join", "closed"} THEN 1 ELSE 0)
  BY <1>1 DEF Counted
<1>10. \/ closer = "open" /\ k = l + 1 /\ d + o = c + n + 1
       \/ k = l /\ d + o = c + n /\ (closer = "open" \/ hpc'[h] \in {"reap", "gone"})
  <2> HIDE DEF n, o
  <2> QED
    BY <1>1, <1>2, <1>5
<1>11. d \in Nat /\ k \in Nat
  BY <1>1
<1> HIDE DEF n, o, m, l, k, c, d
<1>12. d + o + m + (IF tpc = "post" THEN 1 ELSE 0) + cur
         + (IF svc = "next" THEN 1 ELSE 0) + (IF svc \in {"exit", "done"} THEN 1 ELSE 0)
       = k + (IF closer \in {"join", "closed"} THEN 1 ELSE 0)
  BY <1>1, <1>2, <1>6, <1>9, <1>10, <1>11
<1>13. svc \in {"exit", "done"} => closer \in {"join", "closed"} /\ cur = k
  BY <1>1, <1>10 DEF Counted, l
<1>14. closer # "open" =>
         /\ SendingHandles' = {} /\ SendingAdmins = {}
         /\ \A x \in Handles : hpc'[x] \in {"none", "idle", "reap", "gone"}
         /\ \A a \in Admins : apc[a] = "idle"
  BY <1>1, <1>7, <1>10 DEF Counted
<1> QED
  BY <1>1, <1>8, <1>12, <1>13, <1>14 DEF Counted

(* The pieces of a step of h that links, readies or leaves the queue. *)
LEMMA AwayLinked ==
  ASSUME PipeInv, NEW h \in Handles, NEW j, Linked(j), j.lock \in {Written(h), Pending(h)},
         SvcStill, UNCHANGED <<sem, apc, answer, dumpMutex>>,
         \A k \in Handles \ {h} :
           /\ hpc'[k] = hpc[k] /\ mine'[k] = mine[k] /\ mode'[k] = mode[k]
           /\ reaped'[k] = reaped[k] /\ failures'[k] = failures[k]
  PROVE  Away(h)
<1>1. TypeInv
  BY DEF PipeInv
<1>2. \A i \in DOMAIN queue : i \in DOMAIN queue' /\ queue'[i] = queue[i]
  BY <1>1, LinkedFacts, QueueFacts
<1>3. \A s \in Semaphores \ {Written(h), Pending(h)} : Waiting(s)' = Waiting(s)
  BY <1>1, WaitingLinked
<1> QED
  BY <1>2, <1>3 DEF Away, QueueStep

LEMMA AwayReadied ==
  ASSUME PipeInv, NEW h \in Handles, Filling(h), Readied(mine[h]),
         SvcStill, UNCHANGED <<sem, apc, answer, dumpMutex>>,
         \A k \in Handles \ {h} :
           /\ hpc'[k] = hpc[k] /\ mine'[k] = mine[k] /\ mode'[k] = mode[k]
           /\ reaped'[k] = reaped[k] /\ failures'[k] = failures[k]
  PROVE  Away(h)
<1>1. TypeInv
  BY DEF PipeInv
<1>2. \A s : Waiting(s)' = Waiting(s)
  BY <1>1, WaitingReadied
<1> QED
  BY <1>2 DEF Away, QueueStep, Readied

LEMMA AwayStill ==
  ASSUME PipeInv, NEW h \in Handles, UNCHANGED queue,
         SvcStill, UNCHANGED <<apc, answer, dumpMutex>>,
         \A s \in Semaphores \ {Written(h), Pending(h)} : sem'[s] = sem[s],
         \A k \in Handles \ {h} :
           /\ hpc'[k] = hpc[k] /\ mine'[k] = mine[k] /\ mode'[k] = mode[k]
           /\ reaped'[k] = reaped[k] /\ failures'[k] = failures[k]
  PROVE  Away(h) /\ \A s : Waiting(s)' = Waiting(s)
<1>1. \A s : Waiting(s)' = Waiting(s)
  BY WaitingStill DEF SvcStill
<1> QED
  BY <1>1 DEF Away, QueueStep

(* Types, once the queue is known to be one. *)
HandleTypes ==
  /\ counter' \in Nat
  /\ sem' \in [Semaphores -> Nat]
  /\ hpc' \in [Handles -> {"none", "idle", "postFast", "validate", "fill",
                           "postReadOnly", "wait", "reap", "gone"}]
  /\ mine' \in [Handles -> Nat]
  /\ mode' \in [Handles -> {"SYNC", "ASYNC"}]
  /\ reaped' \in [Handles -> Nat]
  /\ failures' \in [Handles -> Nat]
  /\ registry' \in Seq(Handles)
  /\ closer' = "handles" => closeAt' \in Nat \ {0}

(* The variables a handle leaves alone keep their types. *)
LEMMA TypesKept ==
  ASSUME PipeInv, QueueStep, SvcStill, HandleTypes, UNCHANGED <<apc, answer, tpc, closer>>
  PROVE  TypeInv'
<1>1. queue' \in Seq(JobType) /\ Len(queue) <= Len(queue')
  BY UserShaped DEF PipeInv
<1>2. Len(queue') \in Nat
  BY <1>1, LenProperties
<1>3. cur' \in 0..Len(queue')
  BY <1>1, <1>2, QueueFacts DEF SvcStill, PipeInv
<1> QED
  BY <1>1, <1>3 DEF TypeInv, PipeInv, HandleTypes, SvcStill

(* One term of the sum of AsyncPart moves, or two against each other. *)
LEMMA AsyncMoves ==
  ASSUME TypeInv, TypeInv', NEW h \in Handles, AsyncPart(h), Untroubled(h)' => Untroubled(h),
         \/ /\ sem'[Pending(h)] = sem[Pending(h)] /\ reaped'[h] = reaped[h]
            /\ Cardinality(Waiting(Pending(h))') = Cardinality(Waiting(Pending(h))) + 1
            /\ AsyncCall(h)' /\ ~AsyncCall(h)
         \/ /\ sem'[Pending(h)] = sem[Pending(h)] /\ reaped'[h] = reaped[h]
            /\ Cardinality(Waiting(Pending(h))') = Cardinality(Waiting(Pending(h)))
            /\ AsyncCall(h)' <=> AsyncCall(h)
         \/ /\ sem'[Pending(h)] = sem[Pending(h)] - 1 /\ reaped'[h] = reaped[h]
            /\ Cardinality(Waiting(Pending(h))') = Cardinality(Waiting(Pending(h)))
            /\ ~AsyncCall(h)' /\ AsyncCall(h)
         \/ /\ sem'[Pending(h)] = sem[Pending(h)] - 1 /\ reaped'[h] = reaped[h] + 1
            /\ Cardinality(Waiting(Pending(h))') = Cardinality(Waiting(Pending(h)))
            /\ AsyncCall(h)' <=> AsyncCall(h)
         \/ /\ sem'[Pending(h)] = sem[Pending(h)] + 1 /\ reaped'[h] = reaped[h]
            /\ Cardinality(Waiting(Pending(h))') = Cardinality(Waiting(Pending(h))) - 1
            /\ AsyncCall(h)' <=> AsyncCall(h)
  PROVE  AsyncPart(h)'
<1> DEFINE s == sem[Pending(h)]
           t == sem'[Pending(h)]
           a == Cardinality(Waiting(Pending(h)))
           b == Cardinality(Waiting(Pending(h))')
           r == reaped[h]
           u == reaped'[h]
           x == IF AsyncCall(h) THEN 1 ELSE 0
           y == IF AsyncCall(h)' THEN 1 ELSE 0
<1>1. /\ s \in Nat /\ t \in Nat /\ r \in Nat /\ u \in Nat /\ MaxPending \in Nat
      /\ a \in Nat
  BY ZenonT(60), SemaphoresDiffer, ConstAssumption, WaitingFinite DEF TypeInv
<1>2. x \in Nat /\ y \in Nat
  OBVIOUS
<1>3. t + b + u + x = s + a + r + y
  <2>1. /\ AsyncCall(h) => x = 1
        /\ ~AsyncCall(h) => x = 0
        /\ AsyncCall(h)' => y = 1
        /\ ~AsyncCall(h)' => y = 0
    OBVIOUS
  <2>2. \/ t = s /\ b = a + 1 /\ u = r /\ y = 1 /\ x = 0
        \/ t = s /\ b = a /\ u = r /\ x = y
        \/ t = s - 1 /\ b = a /\ u = r /\ y = 0 /\ x = 1
        \/ t = s - 1 /\ b = a /\ u = r + 1 /\ x = y
        \/ t = s + 1 /\ b = a - 1 /\ u = r /\ x = y
    BY <2>1
  <2> HIDE DEF s, t, r, u, x, y, a, b
  <2> QED
    BY <1>1, <1>2, <2>2
<1>4. b \in Int
  <2> HIDE DEF a, b
  <2>1. b \in {a - 1, a, a + 1}
    BY DEF a, b
  <2> QED
    BY <1>1, <2>1
<1>5. /\ AsyncPart(h) <=> (Untroubled(h) => s + a + r = MaxPending + x)
      /\ AsyncPart(h)' <=> (Untroubled(h)' => t + b + u = MaxPending + y)
  BY DEF AsyncPart
<1> HIDE DEF s, t, r, u, x, y, a, b
<1> QED
  BY <1>1, <1>2, <1>3, <1>4, <1>5

(* A call that links its job waits for the token the job will bring. *)
LEMMA LinkTokens ==
  ASSUME TypeInv, TypeInv', NEW h \in Handles, HandlePart(h), NEW j, Linked(j), SvcStill,
         UNCHANGED sem, failures'[h] = failures[h], reaped'[h] = reaped[h],
         ~SyncCall(h), ~AsyncCall(h),
         \/ j.lock = Written(h) /\ SyncCall(h)' /\ ~AsyncCall(h)'
         \/ j.lock = Pending(h) /\ AsyncCall(h)' /\ ~SyncCall(h)'
  PROVE  SyncPart(h)' /\ AsyncPart(h)'
<1> DEFINE n == Len(queue) + 1
<1>1. /\ n \in DOMAIN queue'
      /\ Waiting(j.lock)' = Waiting(j.lock) \cup {n}
      /\ Cardinality(Waiting(j.lock)') = Cardinality(Waiting(j.lock)) + 1
      /\ \A s : s # j.lock => Waiting(s)' = Waiting(s)
  BY WaitingLinked
<1>2. Untroubled(h)' = Untroubled(h) /\ Written(h) # Pending(h)
  BY SemaphoresDiffer DEF Untroubled, SvcStill
<1>3. SyncPart(h) /\ AsyncPart(h)
  BY DEF HandlePart
<1>4. SyncPart(h)'
  <2>1. CASE j.lock = Written(h)
    BY <1>1, <1>2, <1>3, <2>1 DEF SyncPart, OneToken, NoToken
  <2>2. CASE j.lock = Pending(h)
    BY <1>1, <1>2, <1>3, <2>2 DEF SyncPart, OneToken, NoToken
  <2> QED
    BY <2>1, <2>2
<1>5. AsyncPart(h)'
  <2>1. CASE j.lock = Written(h)
    <3>1. Waiting(Pending(h))' = Waiting(Pending(h))
      BY <1>1, <1>2, <2>1
    <3> QED
      BY <1>2, <1>3, <2>1, <3>1, AsyncMoves
  <2>2. CASE j.lock = Pending(h)
    BY <1>1, <1>2, <1>3, <2>2, AsyncMoves
  <2> QED
    BY <2>1, <2>2
<1> QED
  BY <1>4, <1>5

(* _tr_commit_main links its job and leaves it at that for the moment. *)
LEMMA CommitFastSaved ==
  ASSUME PipeInv, NEW h \in Handles, NEW m \in {"SYNC", "ASYNC"}, CommitFast(h, m)
  PROVE  PipeInv'
<1> DEFINE n == Len(queue) + 1
<1>1. TypeInv /\ HandlePart(h) /\ n \in Nat
  BY PartsOf, QueueFacts DEF PipeInv
<1>2. PICK j :
      /\ Linked(j) /\ j.by = h /\ ~j.ready
      /\ j.kind = (IF m = "SYNC" THEN "SYNC_COMMIT" ELSE "COMMIT")
      /\ j.lock = (IF m = "SYNC" THEN Written(h) ELSE Pending(h))
  BY ZenonT(60), CommitLinks DEF CommitFast, Link, CommitJob
<1>3. /\ SvcStill /\ UNCHANGED <<sem, apc, answer, dumpMutex, tpc, closer, counter>>
      /\ fastCommit /\ closer = "open"
      /\ hpc[h] = "idle" /\ hpc' = [hpc EXCEPT ![h] = "postFast"]
      /\ mine' = [mine EXCEPT ![h] = n] /\ mode' = [mode EXCEPT ![h] = m]
      /\ UNCHANGED <<reaped, failures, registry, closeAt>>
  BY DEF CommitFast, HGoto, CountCommit, SvcStill, svcVars, adminVars, closeVars
<1>4. Away(h)
  BY <1>1, <1>2, <1>3, AwayLinked DEF TypeInv
<1>5. TypeInv'
  <2>1. HandleTypes
    BY <1>1, <1>3 DEF HandleTypes, TypeInv
  <2> QED
    BY <1>3, <1>4, <2>1, TypesKept DEF Away
<1>6. n \in DOMAIN queue' /\ queue'[n] = j /\ Len(queue') = n /\ n # 0
  BY <1>1, <1>2, LinkedFacts
<1>7. /\ hpc'[h] = "postFast" /\ mine'[h] = n /\ mode'[h] = m /\ fastCommit'
      /\ failures'[h] = failures[h] /\ reaped'[h] = reaped[h]
  BY <1>1, <1>3 DEF TypeInv, SvcStill
<1>8. OwnPart(h)'
  BY <1>2, <1>6, <1>7 DEF OwnPart, OwnJob
<1>9. /\ ~SyncCall(h) /\ ~AsyncCall(h)
      /\ SyncCall(h)' = (m = "SYNC") /\ AsyncCall(h)' = (m = "ASYNC")
  BY <1>3, <1>7 DEF SyncCall, AsyncCall, Filling
<1>10. SyncPart(h)' /\ AsyncPart(h)'
  BY <1>1, <1>2, <1>3, <1>5, <1>7, <1>9, LinkTokens
<1>11. Counted'
  BY <1>1, <1>3, <1>4, <1>6, <1>7, HandleCounted DEF Away, Sends
<1> QED
  BY <1>4, <1>5, <1>7, <1>8, <1>10, <1>11, HandleStepSaved DEF HandlePart

(* Without FAST_COMMIT the job is linked once it is known to be valid. *)
LEMMA ValidSlowSaved ==
  ASSUME PipeInv, NEW h \in Handles, Valid(h), ~fastCommit
  PROVE  PipeInv'
<1> DEFINE n == Len(queue) + 1
           m == mode[h]
<1>1. TypeInv /\ HandlePart(h) /\ n \in Nat /\ m \in {"SYNC", "ASYNC"}
  <2>1. TypeInv /\ HandlePart(h)
    BY PartsOf DEF PipeInv
  <2>2. m \in {"SYNC", "ASYNC"}
    BY <2>1 DEF TypeInv
  <2> QED
    BY <2>1, <2>2, QueueFacts
<1>2. PICK j :
      /\ Linked(j) /\ j.by = h /\ ~j.ready
      /\ j.kind = (IF m = "SYNC" THEN "SYNC_COMMIT" ELSE "COMMIT")
      /\ j.lock = (IF m = "SYNC" THEN Written(h) ELSE Pending(h))
  <2>1. queue' = Append(queue, CommitJob(h, m))
    BY DEF Valid, CommitJob
  <2> HIDE DEF m
  <2> QED
    BY <1>1, <2>1, CommitLinks
<1>3. /\ SvcStill /\ UNCHANGED <<sem, apc, answer, dumpMutex, tpc, closer>>
      /\ counter' = counter + 1
      /\ hpc[h] = "validate" /\ hpc' = [hpc EXCEPT ![h] = "fill"]
      /\ mine' = [mine EXCEPT ![h] = n] /\ mode' = mode
      /\ UNCHANGED <<reaped, failures, registry, closeAt>>
  BY DEF Valid, HGoto, PostCounter, SvcStill, svcVars, adminVars, closeVars
<1>4. Away(h)
  BY <1>1, <1>2, <1>3, AwayLinked DEF TypeInv
<1>5. TypeInv'
  <2>1. HandleTypes
    BY <1>1, <1>3 DEF HandleTypes, TypeInv
  <2> QED
    BY <1>3, <1>4, <2>1, TypesKept DEF Away
<1>6. n \in DOMAIN queue' /\ queue'[n] = j /\ Len(queue') = n /\ n # 0
  BY <1>1, <1>2, LinkedFacts
<1>7. /\ hpc'[h] = "fill" /\ mine'[h] = n /\ mode'[h] = m
      /\ failures'[h] = failures[h] /\ reaped'[h] = reaped[h]
  BY <1>1, <1>3 DEF TypeInv
<1>8. OwnPart(h)'
  BY <1>2, <1>6, <1>7 DEF OwnPart, OwnJob
<1>9. /\ ~SyncCall(h) /\ ~AsyncCall(h)
      /\ SyncCall(h)' = (m = "SYNC") /\ AsyncCall(h)' = (m = "ASYNC")
  BY <1>1, <1>3, <1>7 DEF SyncCall, AsyncCall, Filling
<1>10. SyncPart(h)' /\ AsyncPart(h)'
  BY <1>1, <1>2, <1>3, <1>5, <1>7, <1>9, LinkTokens
<1>11. closer = "open"
  BY <1>3 DEF PipeInv, Counted
<1>12. Counted'
  BY <1>1, <1>3, <1>4, <1>6, <1>7, <1>11, HandleCounted DEF Away, Sends
<1> QED
  BY <1>4, <1>5, <1>7, <1>8, <1>10, <1>12, HandleStepSaved DEF HandlePart

(* A transaction that only read asks for a flush. *)
LEMMA CommitReadOnlySaved ==
  ASSUME PipeInv, NEW h \in Handles, CommitReadOnly(h)
  PROVE  PipeInv'
<1>1. TypeInv /\ HandlePart(h) /\ Len(queue) \in Nat
  BY PartsOf, QueueFacts DEF PipeInv
<1>2. PICK j : Linked(j) /\ j.lock = Written(h)
  BY SyncMeLinks DEF CommitReadOnly, Link
<1>3. /\ SvcStill /\ UNCHANGED <<sem, apc, answer, dumpMutex, tpc, closer, counter>>
      /\ closer = "open"
      /\ hpc[h] = "idle" /\ hpc' = [hpc EXCEPT ![h] = "postReadOnly"]
      /\ mine' = mine /\ mode' = [mode EXCEPT ![h] = "SYNC"]
      /\ UNCHANGED <<reaped, failures, registry, closeAt>>
  BY DEF CommitReadOnly, HGoto, CountCommit, SvcStill, svcVars, adminVars, closeVars
<1>4. Away(h)
  BY <1>1, <1>2, <1>3, AwayLinked DEF TypeInv
<1>5. TypeInv'
  <2>1. HandleTypes
    BY <1>1, <1>3 DEF HandleTypes, TypeInv
  <2> QED
    BY <1>3, <1>4, <2>1, TypesKept DEF Away
<1>6. Len(queue') = Len(queue) + 1
  BY <1>1, <1>2, LinkedFacts
<1>7. /\ hpc'[h] = "postReadOnly" /\ mine'[h] = mine[h] /\ mode'[h] = "SYNC"
      /\ failures'[h] = failures[h] /\ reaped'[h] = reaped[h]
  BY <1>1, <1>3 DEF TypeInv
<1>8. OwnPart(h)'
  BY <1>1, <1>3, <1>7 DEF HandlePart, OwnPart, Filling
<1>9. /\ ~SyncCall(h) /\ ~AsyncCall(h) /\ SyncCall(h)' /\ ~AsyncCall(h)'
  BY <1>3, <1>7 DEF SyncCall, AsyncCall, Filling
<1>10. SyncPart(h)' /\ AsyncPart(h)'
  BY <1>1, <1>2, <1>3, <1>5, <1>7, <1>9, LinkTokens
<1>11. Counted'
  BY <1>1, <1>3, <1>4, <1>6, <1>7, HandleCounted DEF Away, Sends
<1> QED
  BY <1>4, <1>5, <1>7, <1>8, <1>10, <1>11, HandleStepSaved DEF HandlePart

(* Steps that move no token of h. *)
LEMMA StillTokens ==
  ASSUME TypeInv, TypeInv', NEW h \in Handles, HandlePart(h),
         \A i \in DOMAIN queue : i \in DOMAIN queue',
         sem'[Written(h)] = sem[Written(h)], sem'[Pending(h)] = sem[Pending(h)],
         Waiting(Written(h))' = Waiting(Written(h)),
         Waiting(Pending(h))' = Waiting(Pending(h)),
         reaped'[h] = reaped[h], Untroubled(h)' => Untroubled(h),
         Untroubled(h)' => (SyncCall(h)' <=> SyncCall(h)),
         Untroubled(h)' => (AsyncCall(h)' <=> AsyncCall(h))
  PROVE  SyncPart(h)' /\ AsyncPart(h)'
<1>1. SyncPart(h) /\ AsyncPart(h)
  BY DEF HandlePart
<1>2. SyncPart(h)'
  BY <1>1 DEF SyncPart, OneToken, NoToken
<1>3. CASE Untroubled(h)'
  <2>1. Cardinality(Waiting(Pending(h))') = Cardinality(Waiting(Pending(h)))
    OBVIOUS
  <2>2. AsyncCall(h)' <=> AsyncCall(h)
    BY <1>3
  <2> QED
    BY <1>1, <1>2, <1>3, <2>1, <2>2, AsyncMoves
<1>4. CASE ~Untroubled(h)'
  BY <1>2, <1>4 DEF AsyncPart
<1> QED
  BY <1>2, <1>3, <1>4

(* The buffer is full, or empty because the validation has failed. *)
LEMMA FillSaved ==
  ASSUME PipeInv, NEW h \in Handles, Fill(h) \/ (fastCommit /\ Invalid(h))
  PROVE  PipeInv'
<1>1. TypeInv /\ HandlePart(h) /\ failures[h] \in Nat
  <2>1. TypeInv /\ HandlePart(h)
    BY PartsOf DEF PipeInv
  <2> QED
    BY <2>1 DEF TypeInv
<1>2. Filling(h) /\ Readied(mine[h])
  BY FillReadies DEF PipeInv
<1>3. /\ SvcStill /\ UNCHANGED <<sem, apc, answer, dumpMutex, tpc, closer, counter>>
      /\ \/ /\ hpc[h] = "fill" /\ hpc' = [hpc EXCEPT ![h] = "wait"]
            /\ UNCHANGED <<mine, failures>>
         \/ /\ fastCommit
            /\ hpc[h] = "validate" /\ hpc' = [hpc EXCEPT ![h] = "idle"]
            /\ mine' = [mine EXCEPT ![h] = 0]
            /\ failures' = [failures EXCEPT ![h] = @ + 1]
      /\ UNCHANGED <<mode, reaped, registry, closeAt>>
  BY DEF Fill, Invalid, HGoto, SvcStill, svcVars, adminVars, closeVars
<1>4. Away(h)
  BY <1>1, <1>2, <1>3, AwayReadied DEF TypeInv
<1>5. TypeInv'
  <2>1. HandleTypes
    <3>1. mine' \in [Handles -> Nat] /\ failures' \in [Handles -> Nat]
      <4>1. mine \in [Handles -> Nat] /\ failures \in [Handles -> Nat]
        BY <1>1 DEF TypeInv
      <4>2. /\ mine' = mine \/ mine' = [mine EXCEPT ![h] = 0]
            /\ failures' = failures \/ failures' = [failures EXCEPT ![h] = failures[h] + 1]
        BY <1>3
      <4> QED
        BY <1>1, <4>1, <4>2
    <3> QED
      BY <1>1, <1>3, <3>1 DEF HandleTypes, TypeInv
  <2> QED
    BY <1>3, <1>4, <2>1, TypesKept DEF Away
<1>6. /\ \A s : Waiting(s)' = Waiting(s)
      /\ DOMAIN queue' = DOMAIN queue /\ Len(queue') = Len(queue)
  BY <1>1, <1>2, <1>3, WaitingReadied DEF Readied
<1>7. /\ \/ hpc'[h] = "wait" /\ mine'[h] = mine[h] /\ failures'[h] = failures[h]
         \/ /\ fastCommit /\ hpc'[h] = "idle" /\ mine'[h] = 0
            /\ failures'[h] = failures[h] + 1
      /\ mode'[h] = mode[h] /\ reaped'[h] = reaped[h] /\ fastCommit' = fastCommit
  BY <1>1, <1>3 DEF TypeInv, SvcStill
<1>8. OwnPart(h)'
  BY <1>1, <1>2, <1>7 DEF HandlePart, OwnPart, OwnJob, Filling, Readied
<1>9. /\ Untroubled(h)' => Untroubled(h)
      /\ Untroubled(h)' => (SyncCall(h)' <=> SyncCall(h))
      /\ Untroubled(h)' => (AsyncCall(h)' <=> AsyncCall(h))
  BY <1>1, <1>2, <1>7 DEF Untroubled, SyncCall, AsyncCall, Filling
<1>10. SyncPart(h)' /\ AsyncPart(h)'
  BY <1>1, <1>3, <1>5, <1>6, <1>7, <1>9, StillTokens
<1>11. closer = "open"
  BY <1>3 DEF PipeInv, Counted
<1>12. Counted'
  BY <1>1, <1>3, <1>4, <1>6, <1>7, <1>11, HandleCounted DEF Away, Sends
<1> QED
  BY <1>4, <1>5, <1>7, <1>8, <1>10, <1>12, HandleStepSaved DEF HandlePart

(* Steps of h that leave the queue alone. *)
LEMMA QuietSaved ==
  ASSUME PipeInv, NEW h \in Handles, SvcStill, HandleTypes,
         UNCHANGED <<queue, apc, answer, dumpMutex, tpc, closer>>,
         \A s \in Semaphores \ {Written(h), Pending(h)} : sem'[s] = sem[s],
         \A k \in Handles \ {h} :
           /\ hpc'[k] = hpc[k] /\ mine'[k] = mine[k] /\ mode'[k] = mode[k]
           /\ reaped'[k] = reaped[k] /\ failures'[k] = failures[k]
  PROVE  /\ Away(h) /\ TypeInv'
         /\ \A s : Waiting(s)' = Waiting(s)
         /\ HandlePart(h)' /\ Counted' => PipeInv'
<1>1. Away(h) /\ \A s : Waiting(s)' = Waiting(s)
  BY AwayStill
<1>2. TypeInv'
  BY <1>1, TypesKept DEF Away
<1> QED
  BY <1>1, <1>2, HandleStepSaved

(* Steps that only move h, and maybe post D->counter. *)
Moves(h, to) ==
  \/ hpc[h] = "postFast" /\ to = "validate" /\ counter' = counter + 1
  \/ hpc[h] = "postReadOnly" /\ to = "wait" /\ counter' = counter + 1
  \/ hpc[h] = "validate" /\ to = "fill" /\ fastCommit /\ counter' = counter
  \/ hpc[h] = "none" /\ to = "idle" /\ closer = "open" /\ counter' = counter
  \/ hpc[h] = "idle" /\ to = "reap" /\ counter' = counter
  \/ hpc[h] = "reap" /\ to = "gone" /\ reaped[h] = MaxPending /\ counter' = counter

(* Such a step neither makes a handle wait nor ends its waiting. *)
LEMMA MoveSaved ==
  ASSUME PipeInv, NEW h \in Handles, NEW to, Moves(h, to), SvcStill,
         hpc' = [hpc EXCEPT ![h] = to],
         UNCHANGED <<queue, sem, mine, mode, reaped, failures, apc, answer, dumpMutex,
                     tpc, closer>>,
         registry' \in Seq(Handles), closer = "handles" => closeAt' \in Nat \ {0}
  PROVE  PipeInv'
<1>1. TypeInv /\ HandlePart(h)
  BY PartsOf DEF PipeInv
<1>2. hpc'[h] = to /\ \A k \in Handles \ {h} : hpc'[k] = hpc[k]
  BY <1>1 DEF TypeInv
<1>3. HandleTypes
  <2>1. counter' \in Nat
    BY <1>1 DEF Moves, TypeInv
  <2>2. to \in {"validate", "wait", "fill", "idle", "reap", "gone"}
    BY DEF Moves
  <2> QED
    BY <1>1, <2>1, <2>2 DEF HandleTypes, TypeInv
<1>4. /\ Away(h) /\ TypeInv' /\ \A s : Waiting(s)' = Waiting(s)
      /\ HandlePart(h)' /\ Counted' => PipeInv'
  BY <1>2, <1>3, QuietSaved
<1>5. OwnPart(h)' /\ (hpc'[h] = "gone" => reaped'[h] = MaxPending)
  <2>1. OwnPart(h) /\ (OwnJob(h)' <=> OwnJob(h)) /\ fastCommit' = fastCommit
    BY <1>1 DEF HandlePart, OwnJob, SvcStill
  <2> QED
    BY <1>2, <2>1 DEF OwnPart, Filling, Moves
<1>6. /\ Untroubled(h)' <=> Untroubled(h)
      /\ SyncCall(h)' <=> SyncCall(h)
      /\ AsyncCall(h)' <=> AsyncCall(h)
  <2>1. OwnPart(h) /\ fastCommit' = fastCommit
    BY <1>1 DEF HandlePart, SvcStill
  <2> QED
    BY <1>2, <2>1 DEF OwnPart, Untroubled, SyncCall, AsyncCall, Filling, Moves
<1>7. SyncPart(h)' /\ AsyncPart(h)'
  BY <1>1, <1>4, <1>6, StillTokens
<1>8. Counted'
  <2>1. closer = "open" \/ to \in {"reap", "gone"}
    BY DEF PipeInv, Counted, Moves
  <2> QED
    BY <1>2, <1>4, <2>1, HandleCounted DEF Moves, Sends
<1> QED
  BY <1>4, <1>5, <1>7, <1>8 DEF HandlePart

(* They are these. *)
LEMMA MovesSaved ==
  ASSUME PipeInv, NEW h \in Handles,
         \/ PostFast(h) \/ PostReadOnly(h) \/ HandleInit(h) \/ Destroyed(h)
         \/ fastCommit /\ Valid(h)
  PROVE  PipeInv'
<1>1. registry \in Seq(Handles) /\ (closer = "handles" => closeAt \in Nat \ {0})
  BY DEF PipeInv, TypeInv
<1>2. Append(registry, h) \in Seq(Handles)
  BY <1>1, AppendFacts
<1>3. ASSUME NEW to,
             Moves(h, to), SvcStill, hpc' = [hpc EXCEPT ![h] = to],
             UNCHANGED <<queue, sem, mine, mode, reaped, failures, apc, answer, dumpMutex,
                         tpc, closer, closeAt>>,
             registry' \in {registry, Append(registry, h)}
      PROVE  PipeInv'
  BY <1>1, <1>2, <1>3, MoveSaved
<1>4. CASE PostFast(h)
  BY <1>3, <1>4 DEF PostFast, HGoto, PostCounter, Moves, SvcStill, svcVars, adminVars, closeVars
<1>5. CASE PostReadOnly(h)
  BY <1>3, <1>5 DEF PostReadOnly, HGoto, PostCounter, Moves, SvcStill, svcVars, adminVars,
                    closeVars
<1>6. CASE HandleInit(h)
  BY <1>3, <1>6 DEF HandleInit, HGoto, Moves, SvcStill, queueVars, svcVars, adminVars, closeVars
<1>7. CASE Destroyed(h)
  BY <1>3, <1>7 DEF Destroyed, HGoto, Moves, SvcStill, queueVars, svcVars, adminVars, closeVars
<1>8. CASE fastCommit /\ Valid(h)
  BY <1>3, <1>8 DEF Valid, HGoto, Moves, SvcStill, svcVars, adminVars, closeVars
<1> QED
  BY <1>4, <1>5, <1>6, <1>7, <1>8

(* D->handles stays a sequence of handles. *)
LEMMA WithoutType ==
  ASSUME registry \in Seq(Handles), NEW i \in DOMAIN registry
  PROVE  Without(i) \in Seq(Handles)
<1> DEFINE l == Len(registry)
           e == [registry EXCEPT ![i] = registry[l]]
<1>1. l \in Nat /\ DOMAIN registry = 1..l /\ l \in 1..l
  BY LenProperties
<1>2. registry[l] \in Handles
  BY <1>1, ElementOfSeq
<1>3. e \in Seq(Handles) /\ Len(e) = l
  BY <1>1, <1>2, ExceptSeq
<1>4. \A k \in 1..(l - 1) : e[k] \in Handles
  BY <1>1, <1>3, ElementOfSeq
<1>5. SubSeq(e, 1, l - 1) = [k \in 1..(l - 1) |-> e[k]]
  BY <1>1, <1>3, SubSeqProperties
<1>6. SubSeq(e, 1, l - 1) \in Seq(Handles)
  BY <1>1, <1>4, <1>5, IsASeq
<1> QED
  BY <1>6 DEF Without

(* A handle leaves D->handles. *)
LEMMA UnregisterSaved ==
  ASSUME PipeInv, NEW h \in Handles, Unregister(h, "reap"), UNCHANGED closer,
         closeAt' = closeAt \/ closeAt' = closeAt + 1
  PROVE  PipeInv'
<1>1. registry \in Seq(Handles) /\ (closer = "handles" => closeAt \in Nat \ {0})
  BY DEF PipeInv, TypeInv
<1>2. registry' \in Seq(Handles)
  BY <1>1, WithoutType DEF Unregister
<1>3. closer = "handles" => closeAt' \in Nat \ {0}
  BY <1>1
<1>4. /\ SvcStill /\ hpc[h] = "idle" /\ hpc' = [hpc EXCEPT ![h] = "reap"]
      /\ UNCHANGED <<queue, counter, sem, mine, mode, reaped, failures, apc, answer,
                     dumpMutex, tpc>>
  BY DEF Unregister, HGoto, SvcStill, queueVars, svcVars, adminVars
<1> QED
  BY <1>2, <1>3, <1>4, MoveSaved DEF Moves

(* Its owner makes it do so, or database_close. *)
LEMMA DestroySaved ==
  ASSUME PipeInv, (\E h \in Handles : HandleDestroy(h)) \/ CloseHandle
  PROVE  PipeInv'
<1>1. ASSUME NEW h \in Handles, HandleDestroy(h) PROVE PipeInv'
  BY <1>1, UnregisterSaved DEF HandleDestroy, closeVars
<1>2. CASE CloseHandle
  <2>1. registry \in Seq(Handles) /\ closeAt \in Nat \ {0} /\ closeAt <= Len(registry)
    BY <1>2 DEF PipeInv, TypeInv, CloseHandle
  <2>2. Len(registry) \in Nat
    BY <2>1, LenProperties
  <2>3. registry[closeAt] \in Handles
    BY <2>1, <2>2, ElementOfSeq
  <2>4. Unregister(registry[closeAt], "reap") /\ closer' = closer /\ closeAt' = closeAt + 1
    BY <1>2 DEF CloseHandle
  <2> QED
    BY <2>3, <2>4, UnregisterSaved
<1> QED
  BY <1>1, <1>2

(* Without FAST_COMMIT a validation leaves no trace when it fails. *)
LEMMA ValidateSlowSaved ==
  ASSUME PipeInv, NEW h \in Handles, NEW m \in {"SYNC", "ASYNC"},
         CommitLocked(h, m) \/ (~fastCommit /\ Invalid(h))
  PROVE  PipeInv'
<1>1. TypeInv /\ HandlePart(h)
  BY PartsOf DEF PipeInv
<1>2. /\ SvcStill /\ ~fastCommit
      /\ UNCHANGED <<queue, counter, sem, apc, answer, dumpMutex, tpc, closer, closeAt, reaped,
                     registry>>
      /\ \/ /\ hpc[h] = "idle" /\ hpc' = [hpc EXCEPT ![h] = "validate"] /\ closer = "open"
            /\ mode' = [mode EXCEPT ![h] = m] /\ mine' = mine /\ failures' = failures
         \/ /\ hpc[h] = "validate" /\ hpc' = [hpc EXCEPT ![h] = "idle"]
            /\ mode' = mode /\ mine' = [mine EXCEPT ![h] = 0]
            /\ failures' = [failures EXCEPT ![h] = failures[h] + 1]
  BY DEF CommitLocked, Invalid, CountCommit, HGoto, SvcStill, svcVars, adminVars, closeVars
<1>3. HandleTypes
  <2>1. failures[h] \in Nat
    BY <1>1 DEF TypeInv
  <2>2. failures' \in [Handles -> Nat] /\ mine' \in [Handles -> Nat]
        /\ mode' \in [Handles -> {"SYNC", "ASYNC"}]
    <3>1. failures \in [Handles -> Nat] /\ mine \in [Handles -> Nat]
          /\ mode \in [Handles -> {"SYNC", "ASYNC"}]
      BY <1>1 DEF TypeInv
    <3>2. /\ failures' = failures \/ failures' = [failures EXCEPT ![h] = failures[h] + 1]
          /\ mine' = mine \/ mine' = [mine EXCEPT ![h] = 0]
          /\ mode' = mode \/ mode' = [mode EXCEPT ![h] = m]
      BY <1>2
    <3> QED
      BY <2>1, <3>1, <3>2
  <2> QED
    BY <1>1, <1>2, <2>2 DEF HandleTypes, TypeInv
<1>4. \A k \in Handles \ {h} :
        /\ hpc'[k] = hpc[k] /\ mine'[k] = mine[k] /\ mode'[k] = mode[k]
        /\ reaped'[k] = reaped[k] /\ failures'[k] = failures[k]
  BY <1>1, <1>2 DEF TypeInv
<1>5. /\ Away(h) /\ TypeInv' /\ \A s : Waiting(s)' = Waiting(s)
      /\ HandlePart(h)' /\ Counted' => PipeInv'
  BY <1>2, <1>3, <1>4, QuietSaved
<1>6. /\ ~fastCommit'
      /\ \/ hpc[h] = "idle" /\ hpc'[h] = "validate" /\ mine'[h] = mine[h] /\ closer = "open"
         \/ hpc[h] = "validate" /\ hpc'[h] = "idle" /\ mine'[h] = 0
  BY <1>1, <1>2 DEF TypeInv, SvcStill
<1>7. OwnPart(h)' /\ hpc'[h] # "gone"
  BY <1>6 DEF OwnPart, Filling
<1>8. /\ Untroubled(h)' /\ Untroubled(h)
      /\ ~SyncCall(h)' /\ ~SyncCall(h) /\ ~AsyncCall(h)' /\ ~AsyncCall(h)
  BY <1>2, <1>6 DEF Untroubled, SyncCall, AsyncCall, Filling
<1>9. SyncPart(h)' /\ AsyncPart(h)'
  BY <1>1, <1>2, <1>5, <1>8, StillTokens
<1>10. Counted'
  <2>1. closer = "open"
    BY <1>6 DEF PipeInv, Counted
  <2> QED
    BY <1>2, <1>4, <1>6, <2>1, HandleCounted DEF Sends
<1> QED
  BY <1>5, <1>7, <1>9, <1>10 DEF HandlePart

(* tr_commit returns with the token it has waited for. *)
LEMMA ReturnSaved ==
  ASSUME PipeInv, NEW h \in Handles, Return(h)
  PROVE  PipeInv'
<1> DEFINE s == IF mode[h] = "SYNC" THEN Written(h) ELSE Pending(h)
<1>1. TypeInv /\ HandlePart(h) /\ mode[h] \in {"SYNC", "ASYNC"}
  <2>1. TypeInv /\ HandlePart(h)
    BY PartsOf DEF PipeInv
  <2> QED
    BY <2>1 DEF TypeInv
<1>2. /\ SvcStill
      /\ UNCHANGED <<queue, counter, apc, answer, dumpMutex, tpc, closer, closeAt, reaped,
                     registry, failures>>
      /\ hpc[h] = "wait" /\ hpc' = [hpc EXCEPT ![h] = "idle"]
      /\ sem[s] > 0 /\ sem' = [sem EXCEPT ![s] = sem[s] - 1]
      /\ mine' = [mine EXCEPT ![h] = 0] /\ mode' = [mode EXCEPT ![h] = "ASYNC"]
  BY DEF Return, HGoto, Take, SvcStill, queueVars, svcVars, adminVars, closeVars
<1>3. s \in Semaphores /\ s \in {Written(h), Pending(h)} /\ sem[s] \in Nat
  <2>1. s \in Semaphores /\ s \in {Written(h), Pending(h)}
    BY SemaphoresDiffer
  <2> QED
    BY <1>1, <2>1 DEF TypeInv
<1>4. sem \in [Semaphores -> Nat] /\ sem' \in [Semaphores -> Nat]
  <2>1. sem[s] - 1 \in Nat
    BY <1>2, <1>3
  <2>2. sem \in [Semaphores -> Nat]
    BY <1>1 DEF TypeInv
  <2> HIDE DEF s
  <2> QED
    BY <1>2, <1>3, <2>1, <2>2
<1>5. HandleTypes
  BY <1>1, <1>2, <1>4 DEF HandleTypes, TypeInv
<1>6. \A k \in Handles \ {h} :
        /\ hpc'[k] = hpc[k] /\ mine'[k] = mine[k] /\ mode'[k] = mode[k]
        /\ reaped'[k] = reaped[k] /\ failures'[k] = failures[k]
  BY <1>1, <1>2 DEF TypeInv
<1>7. /\ sem'[s] = sem[s] - 1
      /\ \A x \in Semaphores \ {s} : sem'[x] = sem[x]
  BY <1>2, <1>3, <1>4
<1>8. /\ Away(h) /\ TypeInv' /\ \A x : Waiting(x)' = Waiting(x)
      /\ HandlePart(h)' /\ Counted' => PipeInv'
  <2>1. \A x \in Semaphores \ {Written(h), Pending(h)} : sem'[x] = sem[x]
    BY <1>3, <1>7
  <2> QED
    BY <1>2, <1>5, <1>6, <2>1, QuietSaved
<1>9. /\ hpc'[h] = "idle" /\ mine'[h] = 0 /\ mode'[h] = "ASYNC"
      /\ fastCommit' = fastCommit /\ failures' = failures /\ reaped'[h] = reaped[h]
  BY <1>1, <1>2 DEF TypeInv, SvcStill
<1>10. OwnPart(h)' /\ ~SyncCall(h)' /\ ~AsyncCall(h)'
  BY <1>9 DEF OwnPart, Filling, SyncCall, AsyncCall
<1>11. Untroubled(h)' <=> Untroubled(h)
  BY <1>9 DEF Untroubled
<1>12. SyncPart(h) /\ AsyncPart(h)
  BY <1>1 DEF HandlePart
<1>13. SyncPart(h)' /\ AsyncPart(h)'
  <2>1. CASE mode[h] = "SYNC"
    <3>1. SyncCall(h) /\ ~AsyncCall(h) /\ s = Written(h)
      BY <1>2, <2>1 DEF SyncCall, AsyncCall
    <3>2. sem'[Written(h)] = sem[Written(h)] - 1 /\ sem'[Pending(h)] = sem[Pending(h)]
          /\ sem[Written(h)] > 0
      BY <1>2, <1>7, <3>1, SemaphoresDiffer
    <3>3. SyncPart(h)'
      BY <1>8, <1>10, <1>11, <1>12, <3>1, <3>2 DEF SyncPart, OneToken, NoToken
    <3>4. Cardinality(Waiting(Pending(h))') = Cardinality(Waiting(Pending(h)))
      BY <1>8
    <3>5. AsyncPart(h)'
      BY <1>1, <1>8, <1>9, <1>10, <1>11, <1>12, <3>1, <3>2, <3>4, AsyncMoves
    <3> QED
      BY <3>3, <3>5
  <2>2. CASE mode[h] = "ASYNC"
    <3>1. ~SyncCall(h) /\ AsyncCall(h) /\ s = Pending(h)
      BY <1>2, <2>2 DEF SyncCall, AsyncCall
    <3>2. sem'[Pending(h)] = sem[Pending(h)] - 1 /\ sem'[Written(h)] = sem[Written(h)]
      BY <1>7, <3>1, SemaphoresDiffer
    <3>3. SyncPart(h)'
      BY <1>8, <1>10, <1>11, <1>12, <3>1, <3>2 DEF SyncPart, NoToken
    <3>4. Cardinality(Waiting(Pending(h))') = Cardinality(Waiting(Pending(h)))
      BY <1>8
    <3>5. AsyncPart(h)'
      BY <1>1, <1>8, <1>9, <1>10, <1>11, <1>12, <3>1, <3>2, <3>4, AsyncMoves
    <3> QED
      BY <3>3, <3>5
  <2> QED
    BY <1>1, <2>1, <2>2
<1>14. Counted'
  <2>1. closer = "open"
    BY <1>2 DEF PipeInv, Counted
  <2> QED
    BY <1>2, <1>6, <1>9, <2>1, HandleCounted DEF Sends
<1> QED
  BY <1>8, <1>9, <1>10, <1>13, <1>14 DEF HandlePart

(* db_handle_destroy takes a token for good. *)
LEMMA ReapSaved ==
  ASSUME PipeInv, NEW h \in Handles, Reap(h)
  PROVE  PipeInv'
<1> DEFINE s == Pending(h)
<1>1. TypeInv /\ HandlePart(h) /\ reaped[h] \in Nat
  <2>1. TypeInv /\ HandlePart(h)
    BY PartsOf DEF PipeInv
  <2> QED
    BY <2>1 DEF TypeInv
<1>2. /\ SvcStill
      /\ UNCHANGED <<queue, counter, apc, answer, dumpMutex, tpc, closer, closeAt, hpc, mine,
                     mode, registry, failures>>
      /\ hpc[h] = "reap"
      /\ sem[s] > 0 /\ sem' = [sem EXCEPT ![s] = sem[s] - 1]
      /\ reaped' = [reaped EXCEPT ![h] = reaped[h] + 1]
  BY DEF Reap, Take, SvcStill, queueVars, svcVars, adminVars, closeVars
<1>3. s \in Semaphores /\ sem[s] \in Nat /\ sem \in [Semaphores -> Nat]
  BY <1>1, SemaphoresDiffer DEF TypeInv
<1>4. sem' \in [Semaphores -> Nat] /\ sem'[s] = sem[s] - 1
      /\ \A x \in Semaphores \ {s} : sem'[x] = sem[x]
  <2>1. sem[s] - 1 \in Nat
    BY <1>2, <1>3
  <2> HIDE DEF s
  <2> QED
    BY <1>2, <1>3, <2>1
<1>5. reaped' \in [Handles -> Nat] /\ reaped'[h] = reaped[h] + 1
      /\ \A k \in Handles \ {h} : reaped'[k] = reaped[k]
  <2>1. reaped \in [Handles -> Nat] /\ reaped[h] + 1 \in Nat
    BY <1>1 DEF TypeInv
  <2> QED
    BY <1>2, <2>1
<1>6. HandleTypes
  BY <1>1, <1>2, <1>4, <1>5 DEF HandleTypes, TypeInv
<1>7. /\ Away(h) /\ TypeInv' /\ \A x : Waiting(x)' = Waiting(x)
      /\ HandlePart(h)' /\ Counted' => PipeInv'
  BY <1>2, <1>4, <1>5, <1>6, QuietSaved
<1>8. /\ Untroubled(h)' <=> Untroubled(h)
      /\ ~SyncCall(h)' /\ ~SyncCall(h) /\ ~AsyncCall(h)' /\ ~AsyncCall(h)
  BY <1>2 DEF Untroubled, SyncCall, AsyncCall, Filling, SvcStill
<1>9. SyncPart(h) /\ AsyncPart(h) /\ OwnPart(h)
  BY <1>1 DEF HandlePart
<1>10. SyncPart(h)'
  <2>1. sem'[Written(h)] = sem[Written(h)]
    BY <1>4, SemaphoresDiffer
  <2> QED
    BY <1>7, <1>8, <1>9, <2>1 DEF SyncPart, NoToken
<1>11. AsyncPart(h)'
  <2>1. Cardinality(Waiting(Pending(h))') = Cardinality(Waiting(Pending(h)))
    BY <1>7
  <2> QED
    BY <1>1, <1>4, <1>5, <1>7, <1>8, <1>9, <2>1, AsyncMoves
<1>12. OwnPart(h)'
  BY <1>2 DEF OwnPart, Filling
<1>13. Counted'
  BY <1>2, HandleCounted DEF Sends
<1> QED
  BY <1>2, <1>7, <1>10, <1>11, <1>12, <1>13 DEF HandlePart

-----------------------------------------------------------------------------
(* Steps of the others *)

(* Who leaves the semaphores of the handles and the linked jobs alone leaves
   the handles alone. *)
LEMMA HandlesKept ==
  ASSUME PipeInv, UNCHANGED <<hpc, mine, mode, reaped, failures, fastCommit>>,
         \A i \in DOMAIN queue : i \in DOMAIN queue' /\ queue'[i] = queue[i],
         NEW k \in Handles,
         sem'[Written(k)] = sem[Written(k)], Waiting(Written(k))' = Waiting(Written(k)),
         sem'[Pending(k)] = sem[Pending(k)], Waiting(Pending(k))' = Waiting(Pending(k))
  PROVE  HandlePart(k)'
<1>1. HandlePart(k)
  BY PartsOf
<1>2. /\ Filling(k)' = Filling(k) /\ Untroubled(k)' = Untroubled(k)
      /\ SyncCall(k)' = SyncCall(k) /\ AsyncCall(k)' = AsyncCall(k)
  BY DEF Filling, Untroubled, SyncCall, AsyncCall
<1>3. /\ OwnJob(k) => OwnJob(k)'
      /\ OwnJob(k) => queue'[mine[k]] = queue[mine[k]]
  BY DEF OwnJob
<1>4. OwnPart(k)'
  BY <1>1, <1>2, <1>3 DEF HandlePart, OwnPart
<1>5. SyncPart(k)'
  BY <1>1, <1>2 DEF HandlePart, SyncPart, OneToken, NoToken
<1>6. AsyncPart(k)'
  BY <1>1, <1>2 DEF HandlePart, AsyncPart
<1> QED
  BY <1>1, <1>4, <1>5, <1>6 DEF HandlePart

OutsideQueueStep == UNCHANGED queue \/ \E j : Linked(j) /\ \A h \in Handles :
                                                j.lock \notin {Written(h), Pending(h)}

(* A step that is no step of a handle and leaves svc alone. *)
LEMMA OutsideSaved ==
  ASSUME PipeInv, SvcStill, UNCHANGED <<hpc, mine, mode, reaped, failures>>,
         OutsideQueueStep,
         \A k \in Handles : sem'[Written(k)] = sem[Written(k)]
                            /\ sem'[Pending(k)] = sem[Pending(k)],
         TypeInv', Signals', Dumps', Counted'
  PROVE  PipeInv'
<1>1. TypeInv /\ QueueStep
  BY DEF PipeInv, OutsideQueueStep, QueueStep
<1>2. /\ \A i \in DOMAIN queue : i \in DOMAIN queue' /\ queue'[i] = queue[i]
      /\ \A k \in Handles : /\ Waiting(Written(k))' = Waiting(Written(k))
                            /\ Waiting(Pending(k))' = Waiting(Pending(k))
  <2>1. CASE UNCHANGED queue
    BY <2>1, WaitingStill DEF SvcStill
  <2>2. ASSUME NEW j, Linked(j), \A h \in Handles : j.lock \notin {Written(h), Pending(h)}
        PROVE  /\ \A i \in DOMAIN queue : i \in DOMAIN queue' /\ queue'[i] = queue[i]
               /\ \A k \in Handles : /\ Waiting(Written(k))' = Waiting(Written(k))
                                     /\ Waiting(Pending(k))' = Waiting(Pending(k))
    <3>1. \A s : s # j.lock => Waiting(s)' = Waiting(s)
      BY <1>1, <2>2, WaitingLinked
    <3>2. \A i \in DOMAIN queue : i \in DOMAIN queue' /\ queue'[i] = queue[i]
      BY <1>1, <2>2, LinkedFacts, QueueFacts
    <3> QED
      BY <2>2, <3>1, <3>2
  <2> QED
    BY <2>1, <2>2 DEF OutsideQueueStep
<1>3. \A k \in Handles : HandlePart(k)'
  BY <1>2, HandlesKept DEF SvcStill
<1>4. QueueInv'
  BY <1>1, UserShaped, UserOrdered DEF PipeInv, QueueInv
<1> QED
  BY <1>3, <1>4, PartsOf

OutsideTypes ==
  /\ counter' \in Nat
  /\ sem' \in [Semaphores -> Nat]
  /\ apc' \in [Admins -> {"idle", "post", "postOnly", "postPause", "answer",
                          "paused", "waitDump", "inDumpMutex"}]
  /\ answer' \in [Admins -> {"none", "SUCCESS", "CANNOT_CREATE_NEW_FILE",
                             "DUMP_RUNNING"}]
  /\ closer' = "handles" => closeAt' \in Nat \ {0}
  /\ tpc' \in {"off", "post", "asleep"}
  /\ closer' \in {"open", "handles", "post", "join", "closed"}

(* The variables it leaves alone keep their types. *)
LEMMA OutsideTypesKept ==
  ASSUME PipeInv, SvcStill, UNCHANGED <<hpc, mine, mode, reaped, failures, registry>>,
         OutsideQueueStep, OutsideTypes
  PROVE  TypeInv'
<1>1. QueueStep
  BY DEF OutsideQueueStep, QueueStep
<1>2. queue' \in Seq(JobType) /\ Len(queue) <= Len(queue')
  BY <1>1, UserShaped DEF PipeInv
<1>3. Len(queue') \in Nat
  BY <1>2, LenProperties
<1>4. cur' \in 0..Len(queue')
  BY <1>2, <1>3, QueueFacts DEF SvcStill, PipeInv
<1> QED
  BY <1>2, <1>4 DEF TypeInv, PipeInv, OutsideTypes, SvcStill

(* Nobody calls a database function any more once database_close has begun. *)
LEMMA AdminsOnlyWhileOpen ==
  ASSUME PipeInv, NEW a \in Admins, apc[a] # "idle"
  PROVE  closer = "open"
  BY DEF PipeInv, Counted

Asking(p) == p \in {"post", "postOnly", "postPause"}

(* An admin posts one token for the one job it links. *)
LEMMA AdminCounted ==
  ASSUME PipeInv, NEW a \in Admins, SvcStill, UNCHANGED <<hpc, tpc, closer>>,
         closer = "open",
         \A b \in Admins \ {a} : apc'[b] = apc[b],
         \/ /\ ~Asking(apc[a]) /\ Asking(apc'[a])
            /\ Len(queue') = Len(queue) + 1 /\ counter' = counter
         \/ /\ Asking(apc[a]) /\ ~Asking(apc'[a])
            /\ Len(queue') = Len(queue) /\ counter' = counter + 1
         \/ /\ ~Asking(apc[a]) /\ ~Asking(apc'[a])
            /\ Len(queue') = Len(queue) /\ counter' = counter
  PROVE  Counted'
<1> DEFINE n == Cardinality(SendingAdmins)
           o == Cardinality(SendingAdmins')
           m == Cardinality(SendingHandles)
           l == Len(queue)
           k == Len(queue')
           c == counter
           d == counter'
<1>1. Counted /\ c \in Nat /\ cur \in Nat /\ l \in Nat
  BY QueueFacts DEF PipeInv, TypeInv
<1>2. n \in Nat /\ m \in Nat /\ SendingHandles' = SendingHandles
  BY SendingFinite DEF SendingHandles
<1>3. SendingAdmins' = IF Asking(apc'[a]) THEN SendingAdmins \cup {a}
                                          ELSE SendingAdmins \ {a}
  BY DEF SendingAdmins, Asking
<1>4. a \in SendingAdmins <=> Asking(apc[a])
  BY DEF SendingAdmins, Asking
<1>5. IsFiniteSet(SendingAdmins')
      /\ o = IF Asking(apc'[a]) THEN IF Asking(apc[a]) THEN n ELSE n + 1
                                ELSE IF Asking(apc[a]) THEN n - 1 ELSE n
  BY <1>3, <1>4, SendingFinite, FS_AddElement, FS_RemoveElement
<1>6. o \in Nat
  BY <1>5, FS_CardinalityType
<1>7. Counted' <=>
        /\ d + m + o + (IF tpc = "post" THEN 1 ELSE 0) + cur
             + (IF svc = "next" THEN 1 ELSE 0) + (IF svc \in {"exit", "done"} THEN 1 ELSE 0)
           = k + (IF closer \in {"join", "closed"} THEN 1 ELSE 0)
        /\ svc \in {"exit", "done"} => closer \in {"join", "closed"} /\ cur = k
        /\ svc = "done" => durable = Len(stream)
  BY <1>2 DEF Counted, SvcStill
<1>8. c + m + n + (IF tpc = "post" THEN 1 ELSE 0) + cur
        + (IF svc = "next" THEN 1 ELSE 0) + (IF svc \in {"exit", "done"} THEN 1 ELSE 0)
      = l + (IF closer \in {"join", "closed"} THEN 1 ELSE 0)
  BY <1>1 DEF Counted
<1>9. \/ k = l + 1 /\ d + o = c + n + 1
      \/ k = l /\ d + o = c + n
  <2> HIDE DEF n, o
  <2> QED
    BY <1>1, <1>2, <1>5
<1>10. d \in Nat /\ k \in Nat
  BY <1>1
<1>11. svc \notin {"exit", "done"}
  BY <1>1 DEF Counted
<1> HIDE DEF n, o, m, l, k, c, d
<1>12. d + m + o + (IF tpc = "post" THEN 1 ELSE 0) + cur
         + (IF svc = "next" THEN 1 ELSE 0) + (IF svc \in {"exit", "done"} THEN 1 ELSE 0)
       = k + (IF closer \in {"join", "closed"} THEN 1 ELSE 0)
  BY <1>1, <1>2, <1>6, <1>8, <1>9, <1>10
<1> QED
  BY <1>7, <1>11, <1>12

(* A step of a that is fine for a is fine. *)
LEMMA AdminStepSaved ==
  ASSUME PipeInv, NEW a \in Admins, SvcStill,
         UNCHANGED <<hpc, mine, mode, reaped, failures, registry, tpc, closer, closeAt>>,
         \/ UNCHANGED queue
         \/ \E j : Linked(j) /\ j.lock \in {Signal(a), PauseSem, NoSem},
         counter' \in Nat, sem' \in [Semaphores -> Nat],
         \A s \in Semaphores \ {Signal(a), PauseSem} : sem'[s] = sem[s],
         NEW to \in {"idle", "post", "postOnly", "postPause", "answer", "paused", "waitDump",
                     "inDumpMutex"},
         apc' = [apc EXCEPT ![a] = to],
         answer' = answer \/ answer' = [answer EXCEPT ![a] = "none"],
         SignalPart(a)', Dumps', Counted'
  PROVE  PipeInv'
<1>1. TypeInv
  BY DEF PipeInv
<1>2. OutsideQueueStep
  BY SemaphoresDiffer DEF OutsideQueueStep
<1>3. TypeInv'
  <2>1. OutsideTypes
    <3>1. /\ apc \in [Admins -> {"idle", "post", "postOnly", "postPause", "answer", "paused",
                                 "waitDump", "inDumpMutex"}]
          /\ answer \in [Admins -> {"none", "SUCCESS", "CANNOT_CREATE_NEW_FILE",
                                    "DUMP_RUNNING"}]
      BY <1>1 DEF TypeInv
    <3>2. /\ closer' = "handles" => closeAt' \in Nat \ {0}
          /\ tpc' \in {"off", "post", "asleep"}
          /\ closer' \in {"open", "handles", "post", "join", "closed"}
      BY <1>1 DEF TypeInv
    <3> QED
      BY <3>1, <3>2 DEF OutsideTypes
  <2> QED
    BY <1>2, <2>1, OutsideTypesKept
<1>4. ASSUME NEW b \in Admins \ {a} PROVE SignalPart(b)'
  <2>1. SignalPart(b)
    BY DEF PipeInv, Signals
  <2>2. sem'[Signal(b)] = sem[Signal(b)] /\ apc'[b] = apc[b] /\ answer'[b] = answer[b]
    BY <1>1, SemaphoresDiffer DEF TypeInv
  <2>3. /\ Waiting(Signal(b))' = Waiting(Signal(b))
        /\ DOMAIN queue \subseteq DOMAIN queue'
        /\ \A i \in DOMAIN queue : queue'[i] = queue[i]
    <3>1. CASE UNCHANGED queue
      BY <3>1, WaitingStill DEF SvcStill
    <3>2. ASSUME NEW j, Linked(j), j.lock \in {Signal(a), PauseSem, NoSem}
          PROVE  /\ Waiting(Signal(b))' = Waiting(Signal(b))
                 /\ DOMAIN queue \subseteq DOMAIN queue'
                 /\ \A i \in DOMAIN queue : queue'[i] = queue[i]
      BY <1>1, <3>2, WaitingLinked, LinkedFacts, QueueFacts, SemaphoresDiffer
    <3> QED
      BY <3>1, <3>2
  <2>4. svc \in {"post", "lockDump"} => cur \in DOMAIN queue
    BY <1>1, QueueFacts DEF TypeInv
  <2>5. /\ svc' = svc /\ cur' = cur
        /\ (OneToken(Signal(b)) => OneToken(Signal(b))')
        /\ (NoToken(Signal(b)) => NoToken(Signal(b))')
    BY <2>2, <2>3 DEF OneToken, NoToken, SvcStill
  <2> QED
    BY <2>1, <2>2, <2>3, <2>4, <2>5 DEF SignalPart
<1>5. Signals'
  BY <1>4 DEF Signals
<1>6. \A k \in Handles : sem'[Written(k)] = sem[Written(k)] /\ sem'[Pending(k)] = sem[Pending(k)]
  BY SemaphoresDiffer
<1> QED
  BY <1>2, <1>3, <1>5, <1>6, OutsideSaved

(* The mutex of a dump, and who the dump belongs to. *)
LEMMA DumpsKept ==
  ASSUME PipeInv, SvcStill, OutsideQueueStep,
         \/ /\ dumpMutex' = dumpMutex
            /\ \A b \in Admins : apc'[b] = "inDumpMutex" => apc[b] = "inDumpMutex"
         \/ /\ dumpMutex = Free /\ dumpMutex' \in Admins
            /\ \A b \in Admins : apc'[b] = "inDumpMutex" =>
                                   apc[b] = "inDumpMutex" \/ b = dumpMutex'
         \/ /\ dumpMutex' = Free /\ dumpMutex \in Admins /\ apc'[dumpMutex] # "inDumpMutex"
            /\ \A b \in Admins : apc'[b] = "inDumpMutex" => apc[b] = "inDumpMutex"
  PROVE  Dumps'
<1>1. Dumps /\ (svc = "lockDump" => cur \in DOMAIN queue)
  BY QueueFacts DEF PipeInv, TypeInv
<1>2. \A i \in DOMAIN queue : queue'[i] = queue[i]
  BY LinkedFacts DEF OutsideQueueStep, PipeInv
<1>3. /\ svc' = svc /\ cur' = cur /\ dumping' = dumping /\ dumpOf' = dumpOf
  BY DEF SvcStill
<1>4. Free \notin Admins /\ Service \notin Admins
  BY ActorAssumption
<1>5. Free # Service
  BY DEF Free, Service
<1> QED
  BY <1>1, <1>2, <1>3, <1>4, <1>5 DEF Dumps

(* A request is linked; nobody has posted its signal yet. *)
LEMMA RequestSaved ==
  ASSUME PipeInv, NEW a \in Admins, NEW kind \in Requests, Request(a, kind)
  PROVE  PipeInv'
<1> DEFINE n == Len(queue) + 1
           to == CASE kind = "PAUSE" -> "postPause"
                   [] kind = "COLLECT_GARBAGE" -> "postOnly"
                   [] OTHER -> "post"
<1>1. /\ SvcStill /\ closer = "open" /\ apc[a] = "idle" /\ kind # "WAIT_FOR_DUMP"
      /\ queue' = Append(queue, JobWith(a, kind, RequestLock(a, kind), TRUE))
      /\ apc' = [apc EXCEPT ![a] = to] /\ answer' = [answer EXCEPT ![a] = "none"]
      /\ UNCHANGED <<counter, sem, dumpMutex, hpc, mine, mode, reaped, registry, failures,
                     tpc, closer, closeAt>>
  BY DEF Request, Asks, Link, RequestLock, SvcStill, handleVars, closeVars, svcVars
<1>2. TypeInv /\ SignalPart(a) /\ n \in Nat
  BY QueueFacts DEF PipeInv, Signals
<1>3. to \in {"postPause", "postOnly", "post"}
      /\ (to = "post" => RequestLock(a, kind) = Signal(a))
      /\ (to # "post" => RequestLock(a, kind) \in {PauseSem, NoSem})
  <2>1. CASE kind = "PAUSE"
    BY <2>1 DEF RequestLock
  <2>2. CASE kind = "COLLECT_GARBAGE"
    BY <2>2 DEF RequestLock
  <2>3. CASE kind \notin {"PAUSE", "COLLECT_GARBAGE"}
    BY <2>3 DEF RequestLock
  <2> QED
    BY <2>1, <2>2, <2>3
<1>4. PICK j : Linked(j) /\ j.lock = RequestLock(a, kind)
  BY <1>1, RequestLinks
<1>5. /\ n \in DOMAIN queue' /\ n \notin DOMAIN queue
      /\ Waiting(j.lock)' = Waiting(j.lock) \cup {n}
      /\ \A s : s # j.lock => Waiting(s)' = Waiting(s)
      /\ Len(queue') = n
      /\ \A i \in DOMAIN queue : queue'[i] = queue[i]
  BY <1>1, <1>2, <1>4, WaitingLinked, LinkedFacts
<1>6. apc'[a] = to /\ answer'[a] = "none" /\ \A b \in Admins \ {a} : apc'[b] = apc[b]
  BY <1>1, <1>2 DEF TypeInv
<1>7. SignalPart(a)'
  <2>1. NoToken(Signal(a))
    BY <1>1, <1>2 DEF SignalPart
  <2>2. svc \in {"post", "lockDump"} => cur \in DOMAIN queue /\ queue[cur].lock # Signal(a)
    <3>1. svc \in {"post", "lockDump"} => cur \in DOMAIN queue /\ Outstanding(cur)
      BY <1>2, QueueFacts DEF TypeInv, Outstanding
    <3> QED
      BY <2>1, <3>1 DEF NoToken, Waiting
  <2>3. svc' = svc /\ cur' = cur /\ sem'[Signal(a)] = 0
    BY <1>1, <2>1 DEF SvcStill, NoToken
  <2>4. ~(svc' \in {"post", "lockDump"} /\ queue'[cur'].lock = Signal(a))
    BY <1>5, <2>2, <2>3
  <2>5. CASE to = "post"
    <3>1. OneToken(Signal(a))'
      BY <1>1, <1>3, <1>4, <1>5, <2>1, <2>5 DEF OneToken, NoToken
    <3> QED
      BY <1>6, <2>3, <2>4, <2>5, <3>1 DEF SignalPart
  <2>6. CASE to # "post"
    <3>1. NoToken(Signal(a))'
      BY <1>1, <1>3, <1>4, <1>5, <2>1, <2>6, SemaphoresDiffer DEF NoToken
    <3>2. to \notin {"post", "answer"}
      BY <1>3, <2>6
    <3> HIDE DEF to
    <3> QED
      BY <1>6, <2>3, <2>4, <3>1, <3>2 DEF SignalPart
  <2> QED
    BY <2>5, <2>6
<1>8. j.lock \in {Signal(a), PauseSem, NoSem}
  BY <1>3, <1>4
<1>9. Dumps'
  <2>1. OutsideQueueStep
    BY <1>4, <1>8, SemaphoresDiffer DEF OutsideQueueStep
  <2> QED
    BY <1>1, <1>3, <1>6, <2>1, DumpsKept
<1>10. Counted'
  <2>1. ~Asking(apc[a]) /\ Asking(apc'[a])
    BY <1>1, <1>3, <1>6 DEF Asking
  <2> QED
    BY <1>1, <1>5, <1>6, <2>1, AdminCounted
<1>11. counter' \in Nat /\ sem' \in [Semaphores -> Nat]
  BY <1>1, <1>2 DEF TypeInv
<1> HIDE DEF to
<1> QED
  BY <1>1, <1>3, <1>4, <1>7, <1>8, <1>9, <1>10, <1>11, AdminStepSaved

(* The other steps of an admin link nothing. *)
LEMMA AdminQuietSaved ==
  ASSUME PipeInv, NEW a \in Admins, closer = "open",
         \/ PostRequest(a) \/ Answered(a) \/ Resume(a)
         \/ WaitForDump(a) \/ EnterDumpMutex(a) \/ LeaveDumpMutex(a)
  PROVE  PipeInv'
<1>1. TypeInv /\ SignalPart(a)
  BY DEF PipeInv, Signals
<1>2. /\ SvcStill
      /\ UNCHANGED <<queue, hpc, mine, mode, reaped, failures, registry, tpc, closer, closeAt,
                     answer>>
  BY DEF PostRequest, Answered, Resume, WaitForDump, EnterDumpMutex, LeaveDumpMutex,
         SvcStill, handleVars, closeVars, svcVars, queueVars
<1>3. PICK to \in {"idle", "answer", "paused", "waitDump", "inDumpMutex"} :
        /\ apc' = [apc EXCEPT ![a] = to]
        /\ \/ /\ apc[a] = "post" /\ to = "answer" /\ sem' = sem
              /\ counter' = counter + 1 /\ dumpMutex' = dumpMutex
           \/ /\ apc[a] = "postOnly" /\ to = "idle" /\ sem' = sem
              /\ counter' = counter + 1 /\ dumpMutex' = dumpMutex
           \/ /\ apc[a] = "postPause" /\ to = "paused" /\ sem' = sem
              /\ counter' = counter + 1 /\ dumpMutex' = dumpMutex
           \/ /\ apc[a] = "answer" /\ to = "idle" /\ counter' = counter
              /\ dumpMutex' = dumpMutex /\ sem[Signal(a)] > 0
              /\ sem' = [sem EXCEPT ![Signal(a)] = sem[Signal(a)] - 1]
           \/ /\ apc[a] = "paused" /\ to = "idle" /\ counter' = counter
              /\ dumpMutex' = dumpMutex
              /\ sem' = [sem EXCEPT ![PauseSem] = sem[PauseSem] + 1]
           \/ /\ apc[a] = "idle" /\ to = "waitDump" /\ sem' = sem /\ counter' = counter
              /\ dumpMutex' = dumpMutex
           \/ /\ apc[a] = "waitDump" /\ to = "inDumpMutex" /\ sem' = sem
              /\ counter' = counter /\ dumpMutex = Free /\ dumpMutex' = a
           \/ /\ apc[a] = "inDumpMutex" /\ to = "idle" /\ sem' = sem /\ counter' = counter
              /\ dumpMutex' = Free
  BY DEF PostRequest, Answered, Resume, WaitForDump, EnterDumpMutex, LeaveDumpMutex, AGoto,
         Asks, PostCounter, Take, Post, queueVars
<1>4. apc'[a] = to /\ \A b \in Admins \ {a} : apc'[b] = apc[b]
  BY <1>1, <1>3 DEF TypeInv
<1>5. /\ sem' \in [Semaphores -> Nat] /\ counter' \in Nat
      /\ \A s \in Semaphores \ {Signal(a), PauseSem} : sem'[s] = sem[s]
      /\ sem'[Signal(a)] = IF apc[a] = "answer" THEN sem[Signal(a)] - 1 ELSE sem[Signal(a)]
  <2>1. /\ sem \in [Semaphores -> Nat] /\ counter \in Nat
        /\ Signal(a) \in Semaphores /\ PauseSem \in Semaphores /\ Signal(a) # PauseSem
    BY <1>1, SemaphoresDiffer DEF TypeInv
  <2>2. sem[Signal(a)] \in Nat /\ sem[PauseSem] \in Nat
    BY <2>1
  <2>3. counter' \in Nat
    BY <1>3, <2>1
  <2>4. CASE sem' = sem /\ apc[a] # "answer"
    BY <2>1, <2>3, <2>4
  <2>5. CASE /\ apc[a] = "answer" /\ sem[Signal(a)] > 0
             /\ sem' = [sem EXCEPT ![Signal(a)] = sem[Signal(a)] - 1]
    <3>1. sem[Signal(a)] - 1 \in Nat
      BY <2>2, <2>5
    <3> QED
      BY <2>1, <2>3, <2>5, <3>1
  <2>6. CASE /\ apc[a] = "paused"
             /\ sem' = [sem EXCEPT ![PauseSem] = sem[PauseSem] + 1]
    BY <2>1, <2>2, <2>3, <2>6
  <2> QED
    BY <1>3, <2>4, <2>5, <2>6
<1>6. \A s : Waiting(s)' = Waiting(s)
  BY <1>2, WaitingStill DEF SvcStill
<1>7. SignalPart(a)'
  <2>1. CASE apc[a] = "post"
    BY <1>1, <1>2, <1>3, <1>4, <1>5, <1>6, <2>1 DEF SignalPart, OneToken, NoToken, SvcStill
  <2>2. CASE apc[a] = "answer"
    <3>1. OneToken(Signal(a)) /\ sem[Signal(a)] > 0 /\ to = "idle"
      BY <1>1, <1>3, <2>2 DEF SignalPart
    <3>2. NoToken(Signal(a))'
      BY <1>5, <1>6, <2>2, <3>1 DEF OneToken, NoToken
    <3> QED
      BY <1>1, <1>2, <1>4, <3>1, <3>2 DEF SignalPart, NoToken, SvcStill
  <2>3. CASE apc[a] \notin {"post", "answer"}
    <3>1. NoToken(Signal(a)) /\ to \notin {"post", "answer"}
      BY <1>1, <1>3, <2>3 DEF SignalPart
    <3>2. NoToken(Signal(a))'
      BY <1>5, <1>6, <2>3, <3>1 DEF NoToken
    <3> QED
      BY <1>1, <1>2, <1>4, <3>1, <3>2 DEF SignalPart, NoToken, SvcStill
  <2> QED
    BY <2>1, <2>2, <2>3
<1>8. Dumps'
  <2>1. apc[a] = "inDumpMutex" => dumpMutex = a
    BY DEF PipeInv, Dumps
  <2>2. OutsideQueueStep
    BY <1>2 DEF OutsideQueueStep
  <2>3. CASE dumpMutex' = dumpMutex /\ to # "inDumpMutex"
    BY <1>2, <1>4, <2>2, <2>3, DumpsKept
  <2>4. CASE dumpMutex = Free /\ dumpMutex' = a
    BY <1>2, <1>4, <2>2, <2>4, DumpsKept
  <2>5. CASE apc[a] = "inDumpMutex" /\ to = "idle" /\ dumpMutex' = Free
    BY <1>2, <1>4, <2>1, <2>2, <2>5, DumpsKept
  <2> QED
    BY <1>3, <2>3, <2>4, <2>5
<1>9. Counted'
  <2>1. \/ Asking(apc[a]) /\ ~Asking(to) /\ counter' = counter + 1
        \/ ~Asking(apc[a]) /\ ~Asking(to) /\ counter' = counter
    BY <1>3 DEF Asking
  <2> QED
    BY <1>2, <1>4, <2>1, AdminCounted
<1> QED
  BY <1>2, <1>3, <1>5, <1>7, <1>8, <1>9, AdminStepSaved

(* Steps of the timer and of database_close *)
LEMMA OtherCounted ==
  ASSUME PipeInv, SvcStill, UNCHANGED <<hpc, apc>>, counter' \in Nat, Len(queue') \in Nat,
         counter' + (IF tpc' = "post" THEN 1 ELSE 0) + Len(queue)
             + (IF closer \in {"join", "closed"} THEN 1 ELSE 0)
           = counter + (IF tpc = "post" THEN 1 ELSE 0) + Len(queue')
             + (IF closer' \in {"join", "closed"} THEN 1 ELSE 0),
         closer \in {"join", "closed"} => /\ closer' \in {"join", "closed"}
                                          /\ Len(queue') = Len(queue),
         \/ closer # "open" \/ closer' = "open"
         \/ /\ \A h \in Handles : hpc[h] \in {"none", "idle", "gone"}
            /\ \A a \in Admins : apc[a] = "idle",
         closer' \in {"post", "join", "closed"} => tpc' # "post"
  PROVE  Counted'
<1> DEFINE n == Cardinality(SendingAdmins)
           m == Cardinality(SendingHandles)
           l == Len(queue)
           k == Len(queue')
           c == counter
           d == counter'
           t == IF tpc = "post" THEN 1 ELSE 0
           u == IF tpc' = "post" THEN 1 ELSE 0
           x == IF closer \in {"join", "closed"} THEN 1 ELSE 0
           y == IF closer' \in {"join", "closed"} THEN 1 ELSE 0
           e == IF svc = "next" THEN 1 ELSE 0
           f == IF svc \in {"exit", "done"} THEN 1 ELSE 0
<1>1. Counted /\ c \in Nat /\ d \in Nat /\ cur \in Nat /\ l \in Nat /\ k \in Nat
  BY QueueFacts DEF PipeInv, TypeInv
<1>2. /\ n \in Nat /\ m \in Nat
      /\ t \in Nat /\ u \in Nat /\ x \in Nat /\ y \in Nat /\ e \in Nat /\ f \in Nat
  BY SendingFinite
<1>3. SendingHandles' = SendingHandles /\ SendingAdmins' = SendingAdmins
  BY DEF SendingHandles, SendingAdmins
<1>4. c + m + n + t + cur + e + f = l + x
  BY <1>1 DEF Counted
<1>5. d + u + l + x = c + t + k + y
  OBVIOUS
<1>6. d + m + n + u + cur + e + f = k + y
  <2> HIDE DEF n, m, l, k, c, d, t, u, x, y, e, f
  <2> QED
    BY <1>1, <1>2, <1>4, <1>5
<1>7. closer' # "open" =>
        /\ SendingHandles = {} /\ SendingAdmins = {}
        /\ \A h \in Handles : hpc[h] \in {"none", "idle", "reap", "gone"}
        /\ \A a \in Admins : apc[a] = "idle"
  <2>1. CASE closer # "open"
    BY <1>1, <2>1 DEF Counted
  <2>2. CASE /\ \A h \in Handles : hpc[h] \in {"none", "idle", "gone"}
             /\ \A a \in Admins : apc[a] = "idle"
    BY <2>2 DEF SendingHandles, SendingAdmins
  <2> QED
    BY <2>1, <2>2
<1>8. svc \in {"exit", "done"} => closer' \in {"join", "closed"} /\ cur = k
  BY <1>1 DEF Counted
<1>9. svc = "done" => durable = Len(stream)
  BY <1>1 DEF Counted
<1>10. Counted' <=>
        /\ d + m + n + u + cur + e + f = k + y
        /\ svc \in {"exit", "done"} => closer' \in {"join", "closed"} /\ cur = k
        /\ closer' # "open" =>
             /\ SendingHandles = {} /\ SendingAdmins = {}
             /\ \A h \in Handles : hpc[h] \in {"none", "idle", "reap", "gone"}
             /\ \A a \in Admins : apc[a] = "idle"
        /\ closer' \in {"post", "join", "closed"} => tpc' # "post"
        /\ svc = "done" => durable = Len(stream)
  BY <1>3 DEF Counted, SvcStill
<1> HIDE DEF n, m, l, k, c, d, t, u, x, y, e, f
<1> QED
  BY <1>6, <1>7, <1>8, <1>9, <1>10

(* They concern no handle and no admin. *)
LEMMA OtherSaved ==
  ASSUME PipeInv, SvcStill,
         UNCHANGED <<sem, dumpMutex, hpc, mine, mode, reaped, failures, registry, apc, answer>>,
         UNCHANGED queue \/ \E j : Linked(j) /\ j.lock = NoSem,
         counter' \in Nat, tpc' \in {"off", "post", "asleep"},
         closer' \in {"open", "handles", "post", "join", "closed"},
         closer' = "handles" => closeAt' \in Nat \ {0},
         Counted'
  PROVE  PipeInv'
<1>1. TypeInv
  BY DEF PipeInv
<1>2. OutsideQueueStep
  BY SemaphoresDiffer DEF OutsideQueueStep
<1>3. TypeInv'
  <2>1. OutsideTypes
    BY <1>1 DEF OutsideTypes, TypeInv
  <2> QED
    BY <1>2, <2>1, OutsideTypesKept
<1>4. ASSUME NEW b \in Admins PROVE SignalPart(b)'
  <2>1. SignalPart(b)
    BY DEF PipeInv, Signals
  <2>2. /\ Waiting(Signal(b))' = Waiting(Signal(b))
        /\ DOMAIN queue \subseteq DOMAIN queue'
        /\ \A i \in DOMAIN queue : queue'[i] = queue[i]
    <3>1. CASE UNCHANGED queue
      BY <3>1, WaitingStill DEF SvcStill
    <3>2. ASSUME NEW j, Linked(j), j.lock = NoSem
          PROVE  /\ Waiting(Signal(b))' = Waiting(Signal(b))
                 /\ DOMAIN queue \subseteq DOMAIN queue'
                 /\ \A i \in DOMAIN queue : queue'[i] = queue[i]
      BY <1>1, <3>2, WaitingLinked, LinkedFacts, QueueFacts, SemaphoresDiffer
    <3> QED
      BY <3>1, <3>2
  <2>3. svc \in {"post", "lockDump"} => cur \in DOMAIN queue
    BY <1>1, QueueFacts DEF TypeInv
  <2>4. /\ svc' = svc /\ cur' = cur
        /\ (OneToken(Signal(b)) => OneToken(Signal(b))')
        /\ (NoToken(Signal(b)) => NoToken(Signal(b))')
    BY <2>2 DEF OneToken, NoToken, SvcStill
  <2> QED
    BY <2>1, <2>2, <2>3, <2>4 DEF SignalPart
<1>5. Signals' /\ Dumps'
  BY <1>2, <1>4, DumpsKept DEF Signals
<1> QED
  BY <1>2, <1>3, <1>5, OutsideSaved

(* The flush request of the timer, and its end. *)
LEMMA TimerSaved ==
  ASSUME PipeInv, TimerPush \/ TimerPost \/ TimerCancel
  PROVE  PipeInv'
<1>1. TypeInv /\ Counted /\ counter \in Nat /\ Len(queue) \in Nat
      /\ closer \in {"open", "handles", "post", "join", "closed"}
      /\ (closer = "handles" => closeAt \in Nat \ {0})
  BY QueueFacts DEF PipeInv, TypeInv
<1>2. /\ SvcStill
      /\ UNCHANGED <<sem, dumpMutex, hpc, mine, mode, reaped, failures, registry, apc, answer,
                     closer, closeAt>>
  BY DEF TimerPush, TimerPost, TimerCancel, SvcStill, queueVars, handleVars, adminVars,
         closeVars, svcVars
<1>3. CASE TimerPush
  <2>1. PICK j : Linked(j) /\ j.lock = NoSem
    BY <1>3, SyncMeLinks DEF TimerPush, Link
  <2>2. Len(queue') = Len(queue) + 1
    BY <1>1, <2>1, LinkedFacts
  <2>3. /\ closer \in {"open", "handles"} /\ counter' = counter
        /\ tpc \in {"off", "asleep"} /\ tpc' = "post"
    BY <1>3 DEF TimerPush
  <2>4. Counted'
    BY <1>1, <1>2, <2>2, <2>3, OtherCounted
  <2> QED
    BY <1>1, <1>2, <2>1, <2>3, <2>4, OtherSaved
<1>4. CASE TimerPost \/ TimerCancel
  <2>1. /\ queue' = queue
        /\ \/ counter' = counter + 1 /\ tpc = "post" /\ tpc' = "asleep"
           \/ counter' = counter /\ tpc = "asleep" /\ tpc' = "off" /\ closer = "open"
    BY <1>4 DEF TimerPost, TimerCancel, PostCounter, queueVars
  <2>2. tpc = "post" => closer \notin {"post", "join", "closed"}
    BY <1>1 DEF Counted
  <2>3. counter' + (IF tpc' = "post" THEN 1 ELSE 0) = counter + (IF tpc = "post" THEN 1 ELSE 0)
    BY <1>1, <2>1
  <2>4. Counted'
    <3>1. counter' \in Nat /\ Len(queue') = Len(queue) /\ closer' = closer
          /\ (tpc' = "post" => tpc = "post")
      BY <1>1, <1>2, <2>1
    <3>2. /\ closer' \in {"post", "join", "closed"} => tpc' # "post"
          /\ closer # "open" \/ closer' = "open"
      BY <2>2, <3>1
    <3> QED
      BY <1>1, <1>2, <2>3, <3>1, <3>2, OtherCounted
  <2> QED
    BY <1>1, <1>2, <2>1, <2>4, OtherSaved
<1> QED
  BY <1>3, <1>4

(* database_close; its token of D->counter has no job. *)
LEMMA CloseSaved ==
  ASSUME PipeInv, Close \/ StopTimer \/ PostClose \/ Join
  PROVE  PipeInv'
<1>1. TypeInv /\ Counted /\ counter \in Nat /\ Len(queue) \in Nat
      /\ tpc \in {"off", "post", "asleep"}
  BY QueueFacts DEF PipeInv, TypeInv
<1>2. /\ SvcStill
      /\ UNCHANGED <<queue, sem, dumpMutex, hpc, mine, mode, reaped, failures, registry, apc,
                     answer>>
  BY DEF Close, StopTimer, PostClose, Join, SvcStill, queueVars, handleVars, adminVars,
         svcVars
<1>3. \/ /\ closer = "open" /\ closer' = "handles" /\ closeAt' = 1
         /\ counter' = counter /\ tpc' = tpc
         /\ \A h \in Handles : hpc[h] \in {"none", "idle", "gone"}
         /\ \A a \in Admins : apc[a] = "idle"
      \/ /\ closer = "handles" /\ closer' = "post" /\ counter' = counter
         /\ tpc \in {"off", "asleep"} /\ tpc' = "off"
      \/ closer = "post" /\ closer' = "join" /\ counter' = counter + 1 /\ tpc' = tpc
      \/ closer = "join" /\ closer' = "closed" /\ counter' = counter /\ tpc' = tpc
  BY DEF Close, StopTimer, PostClose, Join, PostCounter, queueVars
<1>4. closer \in {"post", "join", "closed"} => tpc # "post"
  BY <1>1 DEF Counted
<1>5. counter' \in Nat /\ tpc' \in {"off", "post", "asleep"}
      /\ closer' \in {"open", "handles", "post", "join", "closed"}
      /\ (closer' = "handles" => closeAt' \in Nat \ {0})
  BY <1>1, <1>3
<1>6. Counted'
  <2>1. /\ Len(queue') = Len(queue)
        /\ closer \in {"join", "closed"} => closer' \in {"join", "closed"}
        /\ closer' \in {"post", "join", "closed"} => tpc' # "post"
        /\ \/ closer # "open"
           \/ /\ \A h \in Handles : hpc[h] \in {"none", "idle", "gone"}
              /\ \A a \in Admins : apc[a] = "idle"
    BY <1>2, <1>3, <1>4
  <2>2. counter' + (IF tpc' = "post" THEN 1 ELSE 0)
          + (IF closer \in {"join", "closed"} THEN 1 ELSE 0)
        = counter + (IF tpc = "post" THEN 1 ELSE 0)
          + (IF closer' \in {"join", "closed"} THEN 1 ELSE 0)
    BY <1>1, <1>3
  <2>3. counter' + (IF tpc' = "post" THEN 1 ELSE 0) + Len(queue)
          + (IF closer \in {"join", "closed"} THEN 1 ELSE 0)
        = counter + (IF tpc = "post" THEN 1 ELSE 0) + Len(queue')
          + (IF closer' \in {"join", "closed"} THEN 1 ELSE 0)
    <3> DEFINE l == Len(queue)
               k == Len(queue')
               c == counter
               d == counter'
               t == IF tpc = "post" THEN 1 ELSE 0
               u == IF tpc' = "post" THEN 1 ELSE 0
               x == IF closer \in {"join", "closed"} THEN 1 ELSE 0
               y == IF closer' \in {"join", "closed"} THEN 1 ELSE 0
    <3>1. d + u + x = c + t + y
      BY <2>2
    <3>2. k = l /\ l \in Nat /\ c \in Nat /\ d \in Nat
      BY <1>1, <1>5, <2>1
    <3>3. t \in Nat /\ u \in Nat /\ x \in Nat /\ y \in Nat
      OBVIOUS
    <3>4. d + u + l + x = c + t + k + y
      <4> HIDE DEF l, k, c, d, t, u, x, y
      <4> QED
        BY <3>1, <3>2, <3>3
    <3> QED
      BY <3>4
  <2>4. Len(queue') \in Nat
    BY <1>1, <2>1
  <2> QED
    BY <1>2, <1>5, <2>1, <2>3, <2>4, OtherCounted
<1> QED
  BY <1>2, <1>5, <1>6, OtherSaved

-----------------------------------------------------------------------------
(* Steps of the service thread *)

ServiceKeeps == UNCHANGED <<fastCommit, queue, hpc, mine, mode, reaped, failures, registry,
                            apc, tpc, closer, closeAt>>

ServiceTypes ==
  /\ counter' \in Nat
  /\ sem' \in [Semaphores -> Nat]
  /\ answer' \in [Admins -> {"none", "SUCCESS", "CANNOT_CREATE_NEW_FILE",
                             "DUMP_RUNNING"}]
  /\ svc' \in {"sleep", "next", "job", "post", "lockDump", "dump", "exit", "done"}
  /\ cur' \in 0..Len(queue)
  /\ svc' \in {"job", "post", "lockDump"} => cur' > 0
  /\ dumping' \in BOOLEAN
  /\ stream' \in Seq(Nat)
  /\ durable' \in 0..Len(stream')

(* The variables the service thread leaves alone keep their types. *)
LEMMA ServiceTypesKept ==
  ASSUME PipeInv, ServiceKeeps, ServiceTypes
  PROVE  TypeInv'
  BY DEF TypeInv, PipeInv, ServiceKeeps, ServiceTypes

(* Every semaphore but the one of the pause is left alone. *)
LEMMA ServiceSaved ==
  ASSUME PipeInv, ServiceKeeps, ServiceTypes,
         \A s \in Semaphores \ {PauseSem} : sem'[s] = sem[s] /\ Waiting(s)' = Waiting(s),
         \A a \in Admins : answer'[a] = answer[a] \/ answer'[a] # "none",
         svc' \in {"post", "lockDump"} => \A a \in Admins :
                     queue[cur'].lock = Signal(a) => answer'[a] # "none",
         Ordered', Dumps', Counted'
  PROVE  PipeInv'
<1>1. TypeInv' /\ Shaped'
  <2>1. Shaped'
    BY DEF PipeInv, Shaped, Shape, ServiceKeeps
  <2> QED
    BY <2>1, ServiceTypesKept
<1>2. ASSUME NEW k \in Handles PROVE HandlePart(k)'
  <2>1. /\ sem'[Written(k)] = sem[Written(k)] /\ Waiting(Written(k))' = Waiting(Written(k))
        /\ sem'[Pending(k)] = sem[Pending(k)] /\ Waiting(Pending(k))' = Waiting(Pending(k))
    BY SemaphoresDiffer
  <2> QED
    BY <2>1, HandlesKept DEF ServiceKeeps
<1>3. ASSUME NEW a \in Admins PROVE SignalPart(a)'
  <2>1. SignalPart(a)
    BY DEF PipeInv, Signals
  <2>2. sem'[Signal(a)] = sem[Signal(a)] /\ Waiting(Signal(a))' = Waiting(Signal(a))
    BY SemaphoresDiffer
  <2>3. /\ (OneToken(Signal(a)) => OneToken(Signal(a))')
        /\ (NoToken(Signal(a)) => NoToken(Signal(a))')
        /\ apc'[a] = apc[a] /\ queue' = queue
    BY <2>2 DEF OneToken, NoToken, ServiceKeeps
  <2> QED
    BY <2>1, <2>2, <2>3 DEF SignalPart
<1> QED
  BY <1>1, <1>2, <1>3, PartsOf DEF QueueInv, Signals

(* The file only grows, and so does what is on the disk of it. *)
LEMMA OrderedStill ==
  ASSUME TypeInv, Ordered, UNCHANGED <<queue, stream>>,
         durable' \in Nat, durable <= durable',
         \A i \in Int : Passed(i)' <=> Passed(i)
  PROVE  Ordered'
<1>1. \A i : DurableUpTo(i) => DurableUpTo(i)'
  BY StreamFacts DEF DurableUpTo, OnDisk
<1>2. \A i \in DOMAIN queue : i \in Int
  BY QueueFacts
<1>3. \A k \in DOMAIN stream : stream[k] \in Int
  BY StreamFacts
<1> QED
  BY <1>1, <1>2, <1>3 DEF Ordered

(* A job is done: its records, if it has any, go to the end of the file. *)
LEMMA OrderedDone ==
  ASSUME TypeInv, Shaped, Ordered, UNCHANGED <<queue, cur>>, svc = "job", svc' # "job",
         queue[cur].kind \in Commits => queue[cur].ready,
         stream' = IF queue[cur].full THEN Append(stream, cur) ELSE stream,
         durable' = Len(stream') \/ (durable' = durable /\ queue[cur].kind # "SYNC_COMMIT")
  PROVE  Ordered' /\ stream' \in Seq(Nat) /\ durable' \in 0..Len(stream')
<1>1. PICK l \in Nat : /\ l = Len(stream) /\ DOMAIN stream = 1..l /\ stream \in Seq(Nat)
                      /\ durable \in 0..l
                      /\ \A k \in 1..l : stream[k] \in Nat
  BY StreamFacts
<1>2. cur \in DOMAIN queue /\ cur \in Nat /\ DOMAIN queue = 1..Len(queue) /\ Len(queue) \in Nat
  BY QueueFacts DEF TypeInv
<1>3. PICK n \in Nat :
        /\ stream' \in Seq(Nat) /\ n = Len(stream') /\ DOMAIN stream' = 1..n
        /\ \/ n = l + 1 /\ stream'[n] = cur /\ queue[cur].full
           \/ n = l /\ ~queue[cur].full
        /\ \A k \in 1..l : stream'[k] = stream[k]
  <2>1. CASE queue[cur].full
    BY <1>1, <1>2, <2>1, AppendFacts
  <2>2. CASE ~queue[cur].full
    BY <1>1, <2>2
  <2> QED
    BY <2>1, <2>2
<1>4. \A i \in Int : /\ Passed(i) <=> i < cur
                     /\ Passed(i)' <=> i <= cur
  BY <1>2 DEF Passed
<1>5. durable' \in Nat /\ durable <= durable' /\ durable' <= n
  <2>1. durable' = n \/ durable' = durable
    BY <1>3
  <2> QED
    BY <1>1, <1>3, <2>1
<1>6. \A k \in 1..l : stream[k] \in DOMAIN queue /\ stream[k] < cur
  BY <1>1, <1>4 DEF Ordered
<1>7. ASSUME NEW i \in DOMAIN queue, DurableUpTo(i) PROVE DurableUpTo(i)'
  <2>1. \A k : OnDisk(k) => OnDisk(k)'
    BY SMTT(30), <1>1, <1>3, <1>5 DEF OnDisk
  <2> QED
    BY <1>7, <2>1 DEF DurableUpTo
<1>8. ASSUME NEW i \in DOMAIN queue, i <= cur, queue[i].full
      PROVE  \E k \in 1..n : stream'[k] = i
  <2>1. CASE i = cur
    BY <1>1, <1>3, <1>8, <2>1
  <2>2. CASE i # cur
    <3>1. Passed(i)
      BY <1>2, <1>4, <2>2, <1>8
    <3>2. PICK k \in 1..l : stream[k] = i
      BY <1>1, <1>8, <3>1 DEF Ordered
    <3> QED
      BY <1>1, <1>3, <3>2
  <2> QED
    BY <2>1, <2>2
<1>9. queue[cur].kind = "SYNC_COMMIT" => DurableUpTo(cur)'
  <2>1. SUFFICES ASSUME queue[cur].kind = "SYNC_COMMIT", NEW k \in 1..cur, queue[k].full
                 PROVE  OnDisk(k)'
    BY DEF DurableUpTo
  <2>2. durable' = n
    BY <1>3, <2>1
  <2> QED
    BY <1>2, <1>8, <2>1, <2>2 DEF OnDisk
<1>10. ASSUME NEW i \in DOMAIN queue, Passed(i)'
       PROVE  /\ queue[i].kind \in Commits => queue[i].ready
              /\ queue[i].full => \E k \in DOMAIN stream' : stream'[k] = i
              /\ queue[i].kind = "SYNC_COMMIT" => DurableUpTo(i)'
  <2>1. i \in Int /\ i <= cur
    BY <1>2, <1>4, <1>10
  <2>2. queue[i].full => \E k \in DOMAIN stream' : stream'[k] = i
    BY <1>3, <1>8, <2>1
  <2>3. CASE i = cur
    BY <1>9, <2>2, <2>3
  <2>4. CASE i # cur
    <3>1. Passed(i)
      BY <1>2, <1>4, <2>1, <2>4
    <3> QED
      BY <1>7, <2>2, <3>1 DEF Ordered
  <2> QED
    BY <2>3, <2>4
<1>11. \A k \in DOMAIN stream' : stream'[k] \in DOMAIN queue /\ Passed(stream[k])'
  <2>1. SUFFICES ASSUME NEW k \in 1..n
                 PROVE  stream'[k] \in DOMAIN queue /\ Passed(stream[k])'
    BY <1>3
  <2>2. stream'[k] \in DOMAIN queue /\ stream'[k] <= cur
    <3>1. CASE k \in 1..l
      BY <1>2, <1>3, <1>6, <3>1
    <3>2. CASE k \notin 1..l
      <4>1. k = n /\ n = l + 1
        BY <1>3, <3>2
      <4> QED
        BY <1>2, <1>3, <4>1
    <3> QED
      BY <3>1, <3>2
  <2>3. PICK x : x = stream'[k]
    OBVIOUS
  <2>4. x \in 1..Len(queue) /\ x <= cur
    BY <1>2, <2>2, <2>3
  <2>5. x < cur \/ x = cur
    BY <1>2, <2>4
  <2> QED
    BY <2>2, <2>3, <2>5 DEF Passed
<1>12. \A k \in 1..n - 1 : stream'[k] < stream'[k + 1]
  <2>1. SUFFICES ASSUME NEW k \in 1..n - 1 PROVE stream'[k] < stream'[k + 1]
    OBVIOUS
  <2>2. k \in 1..l /\ k + 1 \in 1..l + 1
    BY <1>1, <1>3
  <2>3. CASE k + 1 \in 1..l
    BY <1>1, <1>3, <2>2, <2>3 DEF Ordered
  <2>4. CASE k + 1 = l + 1
    BY <1>1, <1>3, <1>6, <2>1, <2>2, <2>4
  <2> QED
    BY <1>1, <2>2, <2>3, <2>4
<1>13. Ordered'
  <2>1. queue' = queue /\ n = Len(stream')
    BY <1>3
  <2>2. \A i \in DOMAIN queue' : Passed(i)' =>
           /\ queue'[i].kind \in Commits => queue'[i].ready
           /\ queue'[i].full => \E k \in DOMAIN stream' : stream'[k] = i
           /\ queue'[i].kind = "SYNC_COMMIT" => DurableUpTo(i)'
    BY <1>10, <2>1
  <2>3. \A k \in DOMAIN stream' : stream'[k] \in DOMAIN queue' /\ Passed(stream[k])'
    BY <1>11, <2>1
  <2>4. \A k \in 1..Len(stream') - 1 : stream'[k] < stream'[k + 1]
    BY <1>12, <2>1
  <2> QED
    BY <2>2, <2>3, <2>4 DEF Ordered
<1> QED
  BY <1>3, <1>5, <1>13

(* The service thread takes a token for each job it takes up. *)
LEMMA ServiceCounted ==
  ASSUME PipeInv, UNCHANGED <<queue, hpc, apc, tpc, closer>>,
         counter' \in Nat, cur' \in Nat,
         counter' + cur' + (IF svc' = "next" THEN 1 ELSE 0)
             + (IF svc' \in {"exit", "done"} THEN 1 ELSE 0)
           = counter + cur + (IF svc = "next" THEN 1 ELSE 0)
             + (IF svc \in {"exit", "done"} THEN 1 ELSE 0),
         svc' \in {"exit", "done"} => \/ svc \in {"exit", "done"} /\ cur' = cur
                                      \/ closer \in {"join", "closed"} /\ cur' = Len(queue),
         svc' = "done" => durable' = Len(stream')
  PROVE  Counted'
<1> DEFINE n == Cardinality(SendingAdmins)
           m == Cardinality(SendingHandles)
           l == Len(queue)
           c == counter
           d == counter'
           t == IF tpc = "post" THEN 1 ELSE 0
           x == IF closer \in {"join", "closed"} THEN 1 ELSE 0
           e == IF svc = "next" THEN 1 ELSE 0
           f == IF svc \in {"exit", "done"} THEN 1 ELSE 0
           g == IF svc' = "next" THEN 1 ELSE 0
           h == IF svc' \in {"exit", "done"} THEN 1 ELSE 0
           p == cur
           q == cur'
<1>1. Counted /\ c \in Nat /\ d \in Nat /\ p \in Nat /\ q \in Nat /\ l \in Nat
  BY QueueFacts DEF PipeInv, TypeInv
<1>2. /\ n \in Nat /\ m \in Nat
      /\ t \in Nat /\ x \in Nat /\ e \in Nat /\ f \in Nat /\ g \in Nat /\ h \in Nat
  BY SendingFinite
<1>3. SendingHandles' = SendingHandles /\ SendingAdmins' = SendingAdmins
  BY DEF SendingHandles, SendingAdmins
<1>4. c + m + n + t + p + e + f = l + x
  BY <1>1 DEF Counted
<1>5. d + q + g + h = c + p + e + f
  OBVIOUS
<1>6. d + m + n + t + q + g + h = l + x
  <2> HIDE DEF n, m, l, c, d, t, x, e, f, g, h, p, q
  <2> QED
    BY <1>1, <1>2, <1>4, <1>5
<1>7. svc' \in {"exit", "done"} => closer \in {"join", "closed"} /\ cur' = l
  BY <1>1 DEF Counted
<1>8. Counted' <=>
        /\ d + m + n + t + q + g + h = l + x
        /\ svc' \in {"exit", "done"} => closer \in {"join", "closed"} /\ cur' = l
        /\ closer # "open" =>
             /\ SendingHandles = {} /\ SendingAdmins = {}
             /\ \A i \in Handles : hpc[i] \in {"none", "idle", "reap", "gone"}
             /\ \A a \in Admins : apc[a] = "idle"
        /\ closer \in {"post", "join", "closed"} => tpc # "post"
        /\ svc' = "done" => durable' = Len(stream')
  BY <1>3 DEF Counted
<1>9. /\ closer # "open" =>
           /\ SendingHandles = {} /\ SendingAdmins = {}
           /\ \A i \in Handles : hpc[i] \in {"none", "idle", "reap", "gone"}
           /\ \A a \in Admins : apc[a] = "idle"
      /\ closer \in {"post", "join", "closed"} => tpc # "post"
  BY <1>1 DEF Counted
<1> HIDE DEF n, m, l, c, d, t, x, e, f, g, h, p, q
<1> QED
  BY <1>6, <1>7, <1>8, <1>9

(* What PipeInv says where the service thread is. *)
LEMMA ServiceFacts ==
  ASSUME PipeInv
  PROVE  /\ TypeInv /\ Shaped /\ Ordered /\ Signals /\ Dumps /\ Counted
         /\ counter \in Nat /\ cur \in Nat /\ cur \in 0..Len(queue) /\ Len(queue) \in Nat
         /\ sem \in [Semaphores -> Nat]
         /\ answer \in [Admins -> {"none", "SUCCESS", "CANNOT_CREATE_NEW_FILE",
                                   "DUMP_RUNNING"}]
         /\ dumping \in BOOLEAN /\ stream \in Seq(Nat) /\ durable \in 0..Len(stream)
         /\ Len(stream) \in Nat
         /\ svc \in {"job", "post", "lockDump"} =>
              /\ cur > 0 /\ cur \in DOMAIN queue
              /\ queue[cur] \in JobType /\ Shape(queue[cur])
  BY QueueFacts, StreamFacts DEF PipeInv, TypeInv, Shaped

(* The answer of the job at hand has been given before its signal. *)
LEMMA AnswerStays ==
  ASSUME PipeInv, svc \in {"post", "lockDump"}, answer' = answer, cur' = cur
  PROVE  \A a \in Admins : queue[cur'].lock = Signal(a) => answer'[a] # "none"
  BY DEF PipeInv, Signals, SignalPart

(* Taking up jobs, and the dump: nothing is posted and no job is finished. *)
LEMMA SvcLoopSaved ==
  ASSUME PipeInv, SvcWake \/ SvcNext \/ SvcExit
  PROVE  PipeInv'
<1>1. /\ ServiceKeeps
      /\ UNCHANGED <<sem, answer, dumping, dumpOf, dumpMutex, stream>>
  BY DEF SvcWake, SvcNext, SvcExit, SvcUnchanged, SvcKeeps, ServiceKeeps, handleVars, closeVars
<1>2. \/ /\ svc = "sleep" /\ counter > 0 /\ counter' = counter - 1 /\ svc' = "next"
         /\ cur' = cur /\ durable' = durable
      \/ /\ svc = "next" /\ counter' = counter /\ cur < Len(queue) /\ cur' = cur + 1
         /\ svc' = "job" /\ durable' = durable
      \/ /\ svc = "next" /\ counter' = counter /\ ~(cur < Len(queue)) /\ cur' = cur
         /\ svc' = "exit" /\ durable' = durable
      \/ /\ svc = "exit" /\ counter' = counter /\ cur' = cur /\ svc' = "done"
         /\ durable' = Len(stream)
  <2>1. CASE SvcWake
    BY <2>1 DEF SvcWake
  <2>2. CASE SvcNext
    BY <2>2 DEF SvcNext
  <2>3. CASE SvcExit
    <3>1. stream' = stream /\ durable' = Len(stream')
      BY <2>3 DEF SvcExit, Sync
    <3> QED
      BY <2>3, <3>1 DEF SvcExit
  <2> QED
    BY <2>1, <2>2, <2>3
<1>3. ServiceTypes
  <2>1. /\ counter' \in Nat /\ cur' \in 0..Len(queue)
        /\ svc' = "job" => cur' > 0
        /\ svc' \in {"next", "job", "exit", "done"}
        /\ durable' \in 0..Len(stream)
    BY <1>2, ServiceFacts
  <2> QED
    BY <1>1, <2>1, ServiceFacts DEF ServiceTypes
<1>4. /\ \A i \in Int : (Outstanding(i)' <=> Outstanding(i)) /\ (Passed(i)' <=> Passed(i))
  BY <1>2, ServiceFacts DEF Outstanding, Passed
<1>5. \A s : Waiting(s)' = Waiting(s)
  <2>1. \A i \in DOMAIN queue : i \in Int
    BY QueueFacts, ServiceFacts
  <2> QED
    BY <1>1, <1>4, <2>1 DEF Waiting, ServiceKeeps
<1>6. Ordered'
  <2>1. durable' \in Nat /\ durable <= durable'
    BY <1>2, ServiceFacts
  <2> QED
    BY <1>1, <1>4, <2>1, OrderedStill, ServiceFacts DEF ServiceKeeps
<1>7. Dumps'
  BY <1>1, <1>2, ServiceFacts DEF Dumps, ServiceKeeps
<1>8. Counted'
  <2>1. counter' \in Nat /\ cur' \in Nat
    BY <1>2, ServiceFacts
  <2>2. counter' + cur' + (IF svc' = "next" THEN 1 ELSE 0)
             + (IF svc' \in {"exit", "done"} THEN 1 ELSE 0)
           = counter + cur + (IF svc = "next" THEN 1 ELSE 0)
             + (IF svc \in {"exit", "done"} THEN 1 ELSE 0)
    <3>1. counter \in Nat /\ cur \in Nat
      BY ServiceFacts
    <3> QED
      BY <1>2, <3>1
  <2>3. svc' = "exit" => closer \in {"join", "closed"} /\ cur' = Len(queue)
    <3>1. SUFFICES ASSUME svc = "next", ~(cur < Len(queue)), cur' = cur
                   PROVE  closer \in {"join", "closed"} /\ cur = Len(queue)
      BY <1>2
    <3> DEFINE n == Cardinality(SendingAdmins)
               m == Cardinality(SendingHandles)
               l == Len(queue)
               t == IF tpc = "post" THEN 1 ELSE 0
               x == IF closer \in {"join", "closed"} THEN 1 ELSE 0
    <3>2. counter + m + n + t + cur + 1 + 0 = l + x
      BY <3>1, ServiceFacts DEF Counted
    <3>3. n \in Nat /\ m \in Nat /\ t \in Nat /\ l \in Nat /\ x \in {0, 1}
          /\ (x = 1 => closer \in {"join", "closed"})
      BY SendingFinite, ServiceFacts
    <3>4. cur = l /\ cur \in Nat /\ counter \in Nat
      BY <3>1, ServiceFacts
    <3>5. x = 1
      <4> HIDE DEF n, m, l, t, x
      <4> QED
        BY <3>2, <3>3, <3>4
    <3> QED
      BY <3>3, <3>4, <3>5
  <2>4. /\ svc' \in {"exit", "done"} => \/ svc \in {"exit", "done"} /\ cur' = cur
                                        \/ closer \in {"join", "closed"} /\ cur' = Len(queue)
        /\ svc' = "done" => durable' = Len(stream')
    BY <1>1, <1>2, <2>3
  <2> QED
    BY <1>1, <2>1, <2>2, <2>4, ServiceCounted DEF ServiceKeeps
<1> QED
  BY <1>1, <1>2, <1>3, <1>5, <1>6, <1>7, <1>8, ServiceSaved

(* A batch of a dump, or its end. *)
LEMMA SvcDumpSaved ==
  ASSUME PipeInv, (\E progress \in {0, 1} : SvcDumpBatch(progress)) \/ SvcDumpEnd
  PROVE  PipeInv'
<1>1. /\ ServiceKeeps
      /\ UNCHANGED <<sem, answer, stream, cur>>
  BY DEF SvcDumpBatch, SvcDumpEnd, SvcUnchanged, SvcKeeps, ServiceKeeps, handleVars, closeVars
<1>2. /\ svc \in {"dump", "exit"} /\ dumping
      /\ \/ /\ counter > 0 /\ counter' = counter - 1 /\ durable' = durable
            /\ svc' = IF svc = "dump" THEN "next" ELSE svc
            /\ UNCHANGED <<dumping, dumpOf, dumpMutex>>
         \/ /\ counter' = counter /\ svc' = svc /\ durable' = durable
            /\ UNCHANGED <<dumping, dumpOf, dumpMutex>>
         \/ /\ counter' = counter /\ svc' = IF svc = "dump" THEN "sleep" ELSE svc
            /\ dumpOf' = Free /\ dumpMutex' = Free /\ dumping' = FALSE
            /\ durable' = Len(stream)
  <2>1. CASE \E progress \in {0, 1} : SvcDumpBatch(progress)
    BY <2>1 DEF SvcDumpBatch
  <2>2. CASE SvcDumpEnd
    <3>1. stream' = stream /\ durable' = Len(stream')
      BY <2>2 DEF SvcDumpEnd, Sync
    <3> QED
      BY <2>2, <3>1 DEF SvcDumpEnd
  <2> QED
    BY <2>1, <2>2
<1>3. /\ svc = "dump" \/ svc = "exit"
      /\ \/ /\ counter > 0 /\ counter' = counter - 1 /\ durable' = durable
            /\ svc = "dump" => svc' = "next"
            /\ svc = "exit" => svc' = "exit"
         \/ /\ counter' = counter /\ durable' \in {durable, Len(stream)}
            /\ svc = "dump" => svc' \in {"dump", "sleep"}
            /\ svc = "exit" => svc' = "exit"
  BY <1>2
<1>4. svc = "exit" => counter = 0
  <2>1. SUFFICES ASSUME svc = "exit" PROVE counter = 0
    OBVIOUS
  <2> DEFINE n == Cardinality(SendingAdmins)
             m == Cardinality(SendingHandles)
             l == Len(queue)
             t == IF tpc = "post" THEN 1 ELSE 0
  <2>2. counter + m + n + t + cur + 0 + 1 = l + 1 /\ cur = l
    BY <2>1, ServiceFacts DEF Counted
  <2>3. n \in Nat /\ m \in Nat /\ t \in Nat /\ l \in Nat /\ counter \in Nat
    BY SendingFinite, ServiceFacts
  <2> HIDE DEF n, m, l, t
  <2> QED
    BY <2>2, <2>3
<1>5. ServiceTypes
  <2>1. /\ counter' \in Nat /\ cur' \in 0..Len(queue)
        /\ svc' \in {"next", "dump", "sleep", "exit"}
        /\ durable' \in 0..Len(stream)
    BY <1>1, <1>3, ServiceFacts
  <2>2. dumping' \in BOOLEAN
    <3>1. dumping' = dumping \/ dumping' = FALSE
      BY <1>2
    <3> QED
      BY <3>1, ServiceFacts
  <2> QED
    BY <1>1, <2>1, <2>2, ServiceFacts DEF ServiceTypes
<1>6. svc' \notin {"job", "post", "lockDump"}
  BY <1>2
<1>7. \A i \in Int : (Outstanding(i)' <=> Outstanding(i)) /\ (Passed(i)' <=> Passed(i))
  BY <1>1, <1>2, <1>6, ServiceFacts DEF Outstanding, Passed
<1>8. \A s : Waiting(s)' = Waiting(s)
  <2>1. \A i \in DOMAIN queue : i \in Int
    BY QueueFacts, ServiceFacts
  <2> QED
    BY <1>1, <1>7, <2>1 DEF Waiting, ServiceKeeps
<1>9. Ordered'
  <2>1. durable' \in Nat /\ durable <= durable'
    BY <1>3, ServiceFacts
  <2> QED
    BY <1>1, <1>7, <2>1, OrderedStill, ServiceFacts DEF ServiceKeeps
<1>10. Dumps'
  <2>1. CASE UNCHANGED <<dumping, dumpOf, dumpMutex>>
    BY <1>1, <1>2, <1>6, <2>1, ServiceFacts DEF Dumps, ServiceKeeps
  <2>2. CASE dumpOf' = Free /\ dumpMutex' = Free /\ dumping' = FALSE
    <3>1. \A a \in Admins : apc'[a] # "inDumpMutex"
      BY <1>1, <1>2, ServiceFacts, ActorAssumption DEF Dumps, ServiceKeeps
    <3> QED
      BY <1>6, <2>2, <3>1 DEF Dumps
  <2> QED
    BY <1>2, <2>1, <2>2
<1>11. Counted'
  <2>1. counter' \in Nat /\ cur' \in Nat
    BY <1>1, <1>3, ServiceFacts
  <2>2. counter' + cur' + (IF svc' = "next" THEN 1 ELSE 0)
             + (IF svc' \in {"exit", "done"} THEN 1 ELSE 0)
           = counter + cur + (IF svc = "next" THEN 1 ELSE 0)
             + (IF svc \in {"exit", "done"} THEN 1 ELSE 0)
    <3>1. counter \in Nat /\ cur \in Nat /\ cur' = cur
      BY <1>1, ServiceFacts
    <3>2. CASE svc = "dump"
      BY <1>3, <3>1, <3>2
    <3>3. CASE svc = "exit"
      BY <1>3, <1>4, <3>1, <3>3
    <3> QED
      BY <1>3, <3>2, <3>3
  <2>3. /\ svc' \in {"exit", "done"} => svc \in {"exit", "done"} /\ cur' = cur
        /\ svc' # "done"
    BY <1>1, <1>2
  <2> QED
    BY <1>1, <2>1, <2>2, <2>3, ServiceCounted DEF ServiceKeeps
<1> QED
  BY <1>1, <1>5, <1>6, <1>8, <1>9, <1>10, <1>11, ServiceSaved

(* What a job asked for is done; its signal is still to be posted. *)
LEMMA JobDoneSaved ==
  ASSUME PipeInv, ServiceKeeps, UNCHANGED <<counter, sem, cur, dumping, dumpMutex>>,
         svc = "job", svc' \in {"post", "lockDump"},
         queue[cur].kind \in Commits => queue[cur].ready,
         stream' = IF queue[cur].full THEN Append(stream, cur) ELSE stream,
         durable' = Len(stream') \/ (durable' = durable /\ queue[cur].kind # "SYNC_COMMIT"),
         answer' \in [Admins -> {"none", "SUCCESS", "CANNOT_CREATE_NEW_FILE",
                                 "DUMP_RUNNING"}],
         \A a \in Admins : answer'[a] = answer[a] \/ answer'[a] # "none",
         \A a \in Admins : queue[cur].lock = Signal(a) => answer'[a] # "none",
         Dumps'
  PROVE  PipeInv'
<1>1. Ordered' /\ stream' \in Seq(Nat) /\ durable' \in 0..Len(stream')
  <2>1. queue' = queue /\ svc' # "job"
    BY DEF ServiceKeeps
  <2> QED
    BY <2>1, ServiceFacts, OrderedDone
<1>2. ServiceTypes
  BY <1>1, ServiceFacts DEF ServiceTypes
<1>3. \A s : Waiting(s)' = Waiting(s)
  <2>1. \A i : Outstanding(i)' <=> Outstanding(i)
    BY DEF Outstanding
  <2> QED
    BY <2>1 DEF Waiting, ServiceKeeps
<1>4. Counted'
  <2>1. counter' \in Nat /\ cur' \in Nat
    BY ServiceFacts
  <2>2. counter' + cur' + (IF svc' = "next" THEN 1 ELSE 0)
             + (IF svc' \in {"exit", "done"} THEN 1 ELSE 0)
           = counter + cur + (IF svc = "next" THEN 1 ELSE 0)
             + (IF svc \in {"exit", "done"} THEN 1 ELSE 0)
    OBVIOUS
  <2> QED
    BY <2>1, <2>2, ServiceCounted DEF ServiceKeeps
<1>5. svc' \in {"post", "lockDump"} => \A a \in Admins :
            queue[cur'].lock = Signal(a) => answer'[a] # "none"
  OBVIOUS
<1> QED
  BY <1>1, <1>2, <1>3, <1>4, <1>5, ServiceSaved

(* A commit is written, or a flush done. *)
LEMMA SvcFlushSaved ==
  ASSUME PipeInv, SvcCommit \/ SvcSyncMe
  PROVE  PipeInv'
<1>1. svc = "job" /\ svc' = "post" /\ Shape(queue[cur]) /\ queue[cur] \in JobType
  BY ServiceFacts DEF SvcCommit, SvcSyncMe
<1>2. /\ ServiceKeeps
      /\ UNCHANGED <<counter, sem, cur, dumping, dumpMutex, dumpOf, answer>>
  BY DEF SvcCommit, SvcSyncMe, SvcUnchanged, SvcKeeps, ServiceKeeps, handleVars, closeVars
<1>3. /\ \/ queue[cur].kind \in Commits /\ queue[cur].ready
         \/ queue[cur].kind = "SYNC_ME"
      /\ stream' = IF queue[cur].full THEN Append(stream, cur) ELSE stream
      /\ durable' = Len(stream') \/ (durable' = durable /\ queue[cur].kind # "SYNC_COMMIT")
  <2>1. CASE SvcCommit
    BY <2>1 DEF SvcCommit, Job, Sync
  <2>2. CASE SvcSyncMe
    <3>1. queue[cur].kind = "SYNC_ME" /\ stream' = stream /\ durable' = Len(stream')
      BY <2>2 DEF SvcSyncMe, Job, Sync
    <3>2. ~queue[cur].full
      BY <1>1, <3>1 DEF Shape, Commits
    <3> QED
      BY <3>1, <3>2
  <2> QED
    BY <2>1, <2>2
<1>4. queue[cur].kind \in Commits => queue[cur].ready
  BY <1>3 DEF Commits
<1>5. \A a \in Admins : queue[cur].lock # Signal(a)
  BY <1>1, <1>3, SemaphoresDiffer DEF Shape, Commits
<1>6. Dumps'
  BY <1>1, <1>2, ServiceFacts DEF Dumps, ServiceKeeps
<1> QED
  BY <1>1, <1>2, <1>3, <1>4, <1>5, <1>6, ServiceFacts, JobDoneSaved

(* A request is answered. *)
LEMMA SvcAnswerSaved ==
  ASSUME PipeInv, NEW ans \in {"SUCCESS", "CANNOT_CREATE_NEW_FILE", "DUMP_RUNNING"},
         SvcNewFile(ans) \/ SvcStartDump(ans)
  PROVE  PipeInv'
<1>1. /\ svc = "job" /\ svc' \in {"post", "lockDump"}
      /\ Shape(queue[cur]) /\ queue[cur] \in JobType
  BY ServiceFacts DEF SvcNewFile, SvcStartDump
<1>2. /\ ServiceKeeps
      /\ UNCHANGED <<counter, sem, cur, dumping, dumpMutex>>
  BY DEF SvcNewFile, SvcStartDump, SvcUnchanged, SvcKeeps, ServiceKeeps, handleVars, closeVars
<1>3. /\ queue[cur].kind \in {"START_DUMP", "CREATE_NEW_FILE"}
      /\ answer' = [answer EXCEPT ![queue[cur].by] = ans]
      /\ stream' = stream /\ durable' = Len(stream')
      /\ \/ svc' = "post" /\ dumpOf' = dumpOf
         \/ /\ svc' = "lockDump" /\ dumpOf' = queue[cur].by
            /\ queue[cur].kind = "START_DUMP" /\ ~dumping
  <2>1. CASE SvcNewFile(ans)
    BY <2>1 DEF SvcNewFile, Job, Sync
  <2>2. CASE SvcStartDump(ans)
    BY <2>2 DEF SvcStartDump, NewFile, Job, Sync
  <2> QED
    BY <2>1, <2>2
<1>4. /\ queue[cur].by \in Admins /\ queue[cur].lock = Signal(queue[cur].by)
      /\ ~queue[cur].full /\ queue[cur].kind \notin Commits
  BY <1>1, <1>3 DEF Shape, Commits
<1>5. /\ answer' \in [Admins -> {"none", "SUCCESS", "CANNOT_CREATE_NEW_FILE",
                                 "DUMP_RUNNING"}]
      /\ \A a \in Admins : answer'[a] = answer[a] \/ answer'[a] # "none"
      /\ answer'[queue[cur].by] # "none"
  BY <1>3, <1>4, ServiceFacts
<1>6. \A a \in Admins : queue[cur].lock = Signal(a) => answer'[a] # "none"
  BY <1>4, <1>5, SemaphoresDiffer
<1>7. Dumps'
  BY <1>1, <1>2, <1>3, ServiceFacts DEF Dumps, ServiceKeeps
<1>8. stream' = IF queue[cur].full THEN Append(stream, cur) ELSE stream
  BY <1>3, <1>4
<1> QED
  BY <1>1, <1>2, <1>3, <1>4, <1>5, <1>6, <1>7, <1>8, JobDoneSaved

(* D->dump_running is locked before the answer is signalled. *)
LEMMA SvcLockDumpSaved ==
  ASSUME PipeInv, SvcLockDump
  PROVE  PipeInv'
<1>1. /\ ServiceKeeps
      /\ UNCHANGED <<counter, sem, cur, answer, stream, durable, dumpOf>>
      /\ svc = "lockDump" /\ svc' = "post"
      /\ dumpMutex = Free /\ dumpMutex' = Service /\ dumping' = TRUE
  BY DEF SvcLockDump, SvcUnchanged, SvcKeeps, ServiceKeeps, handleVars, closeVars
<1>2. ServiceTypes
  BY <1>1, ServiceFacts DEF ServiceTypes
<1>3. \A i : (Outstanding(i)' <=> Outstanding(i)) /\ (Passed(i)' <=> Passed(i))
  BY <1>1 DEF Outstanding, Passed
<1>4. \A s : Waiting(s)' = Waiting(s)
  BY <1>1, <1>3 DEF Waiting, ServiceKeeps
<1>5. Ordered'
  <2>1. durable' \in Nat /\ durable <= durable'
    BY <1>1, ServiceFacts
  <2> QED
    BY <1>1, <1>3, <2>1, OrderedStill, ServiceFacts DEF ServiceKeeps
<1>6. Dumps'
  <2>1. \A a \in Admins : apc[a] # "inDumpMutex"
    BY <1>1, ServiceFacts, ActorAssumption DEF Dumps
  <2> QED
    BY <1>1, <2>1 DEF Dumps, ServiceKeeps
<1>7. Counted'
  <2>1. counter' \in Nat /\ cur' \in Nat
    BY <1>1, ServiceFacts
  <2>2. counter' + cur' + (IF svc' = "next" THEN 1 ELSE 0)
             + (IF svc' \in {"exit", "done"} THEN 1 ELSE 0)
           = counter + cur + (IF svc = "next" THEN 1 ELSE 0)
             + (IF svc \in {"exit", "done"} THEN 1 ELSE 0)
    BY <1>1
  <2> QED
    BY <1>1, <2>1, <2>2, ServiceCounted DEF ServiceKeeps
<1>8. \A a \in Admins : queue[cur'].lock = Signal(a) => answer'[a] # "none"
  BY <1>1, AnswerStays
<1> QED
  BY <1>1, <1>2, <1>4, <1>5, <1>6, <1>7, <1>8, ServiceSaved

(* COLLECT_GARBAGE signals nobody, and PAUSE is over with its token. *)
LEMMA SvcSilentSaved ==
  ASSUME PipeInv, SvcGarbage \/ SvcPause
  PROVE  PipeInv'
<1>1. /\ ServiceKeeps /\ svc = "job"
      /\ Shape(queue[cur]) /\ queue[cur] \in JobType /\ cur \in DOMAIN queue
      /\ UNCHANGED <<counter, cur, answer, stream, durable, dumping, dumpOf, dumpMutex>>
  BY ServiceFacts DEF SvcGarbage, SvcPause, SvcUnchanged, SvcKeeps, ServiceKeeps, handleVars,
                      closeVars
<1>2. svc' \in {"dump", "sleep"}
  BY DEF SvcGarbage, SvcPause, AfterJob
<1>3. queue[cur].kind \in {"COLLECT_GARBAGE", "PAUSE"}
  BY DEF SvcGarbage, SvcPause, Job
<1>4. queue[cur].lock \in {NoSem, PauseSem} /\ ~queue[cur].full /\ queue[cur].kind \notin Commits
      /\ queue[cur].kind # "SYNC_COMMIT"
  BY <1>1, <1>3 DEF Shape, Commits
<1>5. sem' \in [Semaphores -> Nat] /\ \A s \in Semaphores \ {PauseSem} : sem'[s] = sem[s]
  <2>1. CASE sem' = sem
    BY <2>1, ServiceFacts
  <2>2. CASE sem[PauseSem] > 0 /\ sem' = [sem EXCEPT ![PauseSem] = sem[PauseSem] - 1]
    <3>1. PauseSem \in Semaphores /\ sem \in [Semaphores -> Nat]
      BY SemaphoresDiffer, ServiceFacts
    <3>2. sem[PauseSem] - 1 \in Nat
      BY <2>2, <3>1
    <3> QED
      BY <2>2, <3>1, <3>2
  <2> QED
    BY <2>1, <2>2 DEF SvcGarbage, SvcPause, Take
<1>6. Ordered'
  <2>1. queue' = queue /\ svc' # "job"
        /\ stream' = IF queue[cur].full THEN Append(stream, cur) ELSE stream
    BY <1>1, <1>2, <1>4 DEF ServiceKeeps
  <2> QED
    BY <1>1, <1>4, <2>1, ServiceFacts, OrderedDone
<1>7. ServiceTypes
  BY <1>1, <1>2, <1>5, ServiceFacts DEF ServiceTypes
<1>8. \A s \in Semaphores \ {PauseSem} : Waiting(s)' = Waiting(s)
  <2>1. SUFFICES ASSUME NEW s \in Semaphores \ {PauseSem} PROVE Waiting(s)' = Waiting(s)
    OBVIOUS
  <2>2. queue[cur].lock # s
    BY <1>4, SemaphoresDiffer
  <2>3. \A i : i # cur => (Outstanding(i)' <=> Outstanding(i))
    BY <1>1 DEF Outstanding
  <2> QED
    BY <1>1, <2>2, <2>3 DEF Waiting, ServiceKeeps
<1>9. Dumps'
  BY <1>1, <1>2, ServiceFacts DEF Dumps, ServiceKeeps
<1>10. Counted'
  <2>1. counter' \in Nat /\ cur' \in Nat
    BY <1>1, ServiceFacts
  <2>2. counter' + cur' + (IF svc' = "next" THEN 1 ELSE 0)
             + (IF svc' \in {"exit", "done"} THEN 1 ELSE 0)
           = counter + cur + (IF svc = "next" THEN 1 ELSE 0)
             + (IF svc \in {"exit", "done"} THEN 1 ELSE 0)
    BY <1>1, <1>2
  <2> QED
    BY <1>1, <1>2, <2>1, <2>2, ServiceCounted DEF ServiceKeeps
<1> QED
  BY <1>1, <1>2, <1>5, <1>6, <1>7, <1>8, <1>9, <1>10, ServiceSaved

(* The signal of a job is posted: one job less to wait for, one token more. *)
LEMMA SvcPostSaved ==
  ASSUME PipeInv, SvcPost
  PROVE  PipeInv'
<1> DEFINE l == queue[cur].lock
<1>1. /\ ServiceKeeps /\ svc = "post" /\ svc' \in {"dump", "sleep"}
      /\ UNCHANGED <<counter, cur, answer, stream, durable, dumping, dumpOf, dumpMutex>>
      /\ \/ l = NoSem /\ sem' = sem
         \/ l # NoSem /\ sem' = [sem EXCEPT ![l] = sem[l] + 1]
  BY DEF SvcPost, SvcUnchanged, SvcKeeps, ServiceKeeps, handleVars, closeVars, AfterJob, Job, Post
<1>2. /\ cur \in DOMAIN queue /\ l \in Semaphores \cup {NoSem}
      /\ TypeInv /\ sem \in [Semaphores -> Nat]
  BY <1>1, ServiceFacts DEF JobType
<1>3. /\ \A i : i # cur => (Outstanding(i)' <=> Outstanding(i))
      /\ Outstanding(cur) /\ ~Outstanding(cur)'
  <2>1. cur \in Nat
    BY ServiceFacts
  <2> QED
    BY <1>1, <2>1 DEF Outstanding
<1>4. \A s : Waiting(s)' = IF s = l THEN Waiting(s) \ {cur} ELSE Waiting(s)
  BY <1>1, <1>2, <1>3 DEF Waiting, ServiceKeeps
<1>5. cur \in Waiting(l)
  BY <1>2, <1>3 DEF Waiting
<1>6. /\ sem' \in [Semaphores -> Nat]
      /\ \A s \in Semaphores : sem'[s] = IF s = l THEN sem[s] + 1 ELSE sem[s]
  <2>1. CASE l = NoSem /\ sem' = sem
    BY <1>2, <2>1, SemaphoresDiffer
  <2>2. CASE l # NoSem /\ sem' = [sem EXCEPT ![l] = sem[l] + 1]
    <3>1. l \in Semaphores /\ sem[l] + 1 \in Nat
      BY <1>2, <2>2
    <3> HIDE DEF l
    <3> QED
      BY <1>2, <2>2, <3>1
  <2> QED
    BY <1>1, <2>1, <2>2
<1>7. Shaped'
  BY <1>1 DEF PipeInv, Shaped, Shape, ServiceKeeps
<1>8. TypeInv'
  <2>1. ServiceTypes
    BY <1>1, <1>6, ServiceFacts DEF ServiceTypes
  <2> QED
    BY <1>1, <2>1, ServiceTypesKept
<1>9. Ordered'
  <2>1. durable' \in Nat /\ durable <= durable'
    BY <1>1, ServiceFacts
  <2>2. \A i \in Int : Passed(i)' <=> Passed(i)
    BY <1>1 DEF Passed
  <2> QED
    BY <1>1, <2>1, <2>2, OrderedStill, ServiceFacts DEF ServiceKeeps
<1>10. Dumps'
  BY <1>1, ServiceFacts DEF Dumps, ServiceKeeps
<1>11. Counted'
  <2>1. counter' \in Nat /\ cur' \in Nat
    BY <1>1, ServiceFacts
  <2>2. counter' + cur' + (IF svc' = "next" THEN 1 ELSE 0)
             + (IF svc' \in {"exit", "done"} THEN 1 ELSE 0)
           = counter + cur + (IF svc = "next" THEN 1 ELSE 0)
             + (IF svc \in {"exit", "done"} THEN 1 ELSE 0)
    BY <1>1
  <2> QED
    BY <1>1, <2>1, <2>2, ServiceCounted DEF ServiceKeeps
<1>12. \A s \in Semaphores : s = l => /\ OneToken(s) => OneToken(s)'
                                      /\ ~NoToken(s)
  <2>1. SUFFICES ASSUME NEW s \in Semaphores, s = l
                 PROVE  (OneToken(s) => OneToken(s)') /\ ~NoToken(s)
    OBVIOUS
  <2>2. ~NoToken(s)
    BY <1>5, <2>1 DEF NoToken
  <2>3. ASSUME OneToken(s) PROVE OneToken(s)'
    <3>1. sem[s] = 0 /\ Waiting(s) = {cur}
      BY <1>5, <2>1, <2>3 DEF OneToken
    <3>2. sem'[s] = 1 /\ Waiting(s)' = {}
      BY <1>4, <1>6, <2>1, <3>1
    <3> QED
      BY <3>2 DEF OneToken
  <2> QED
    BY <2>2, <2>3
<1>13. \A s \in Semaphores : s # l => /\ OneToken(s) => OneToken(s)'
                                      /\ NoToken(s) => NoToken(s)'
  <2>1. \A s \in Semaphores : s # l => sem'[s] = sem[s] /\ Waiting(s)' = Waiting(s)
    BY <1>4, <1>6
  <2> QED
    BY <1>1, <2>1 DEF OneToken, NoToken, ServiceKeeps
<1>14. ASSUME NEW a \in Admins PROVE SignalPart(a)'
  <2>1. SignalPart(a) /\ Signal(a) \in Semaphores
    BY SemaphoresDiffer DEF PipeInv, Signals
  <2>2. l = Signal(a) => answer[a] # "none"
    BY <1>1, <2>1 DEF SignalPart
  <2>3. sem'[Signal(a)] > 0 => l = Signal(a) \/ sem[Signal(a)] > 0
    BY <1>6, <2>1
  <2>4. /\ apc'[a] \in {"post", "answer"} => OneToken(Signal(a))'
        /\ apc'[a] \notin {"post", "answer"} => NoToken(Signal(a))'
    BY <1>1, <1>12, <1>13, <2>1 DEF SignalPart, ServiceKeeps
  <2> QED
    BY <1>1, <2>1, <2>2, <2>3, <2>4 DEF SignalPart
<1>15. ASSUME NEW k \in Handles PROVE HandlePart(k)'
  <2>1. HandlePart(k)
    BY PartsOf
  <2>2. /\ Filling(k)' = Filling(k) /\ Untroubled(k)' = Untroubled(k)
        /\ SyncCall(k)' = SyncCall(k) /\ AsyncCall(k)' = AsyncCall(k)
        /\ hpc' = hpc /\ mine' = mine /\ mode' = mode /\ queue' = queue /\ reaped' = reaped
        /\ fastCommit' = fastCommit
    BY <1>1 DEF Filling, Untroubled, SyncCall, AsyncCall, ServiceKeeps
  <2>3. OwnPart(k)' /\ (hpc'[k] = "gone" => reaped'[k] = MaxPending)
    BY <2>1, <2>2 DEF HandlePart, OwnPart, OwnJob
  <2>4. Written(k) \in Semaphores /\ Pending(k) \in Semaphores
    BY SemaphoresDiffer
  <2>5. SyncPart(k)'
    BY <1>12, <1>13, <2>1, <2>2, <2>4 DEF HandlePart, SyncPart
  <2>6. AsyncPart(k)'
    <3>1. CASE l = Pending(k)
      <4>1. IsFiniteSet(Waiting(l)) /\ Cardinality(Waiting(l)) \in Nat
        BY <1>2, WaitingFinite
      <4>2. Cardinality(Waiting(l) \ {cur}) = Cardinality(Waiting(l)) - 1
        BY <1>5, <4>1, FS_RemoveElement
      <4>3. /\ Cardinality(Waiting(Pending(k))') = Cardinality(Waiting(Pending(k))) - 1
            /\ sem'[Pending(k)] = sem[Pending(k)] + 1
        BY <1>4, <1>6, <2>4, <3>1, <4>2
      <4> QED
        BY <1>2, <1>8, <2>1, <2>2, <4>3, AsyncMoves DEF HandlePart
    <3>2. CASE l # Pending(k)
      <4>1. /\ Cardinality(Waiting(Pending(k))') = Cardinality(Waiting(Pending(k)))
            /\ sem'[Pending(k)] = sem[Pending(k)]
        BY <1>4, <1>6, <2>4, <3>2
      <4> QED
        BY <1>2, <1>8, <2>1, <2>2, <4>1, AsyncMoves DEF HandlePart
    <3> QED
      BY <3>1, <3>2
  <2> QED
    BY <2>3, <2>5, <2>6 DEF HandlePart
<1> QED
  BY <1>7, <1>8, <1>9, <1>10, <1>11, <1>14, <1>15, PartsOf DEF QueueInv, Signals

-----------------------------------------------------------------------------
(* The whole system *)

(* Nothing is queued and every handle has all its places. *)
LEMMA PipeInvInit ==
  ASSUME Init
  PROVE  PipeInv
<1>1. TypeInv
  <2>1. fastCommit \in BOOLEAN /\ MaxPending \in Nat
    BY ConstAssumption DEF Init
  <2>2. sem \in [Semaphores -> Nat]
    BY <2>1 DEF Init
  <2>3. queue \in Seq(JobType) /\ stream \in Seq(Nat) /\ registry \in Seq(Handles)
        /\ cur \in 0..Len(queue) /\ durable \in 0..Len(stream)
    BY DEF Init
  <2>4. /\ answer \in [Admins -> {"none", "SUCCESS", "CANNOT_CREATE_NEW_FILE",
                                  "DUMP_RUNNING"}]
        /\ apc \in [Admins -> {"idle", "post", "postOnly", "postPause", "answer", "paused",
                               "waitDump", "inDumpMutex"}]
        /\ hpc \in [Handles -> {"none", "idle", "postFast", "validate", "fill",
                                "postReadOnly", "wait", "reap", "gone"}]
        /\ mine \in [Handles -> Nat] /\ mode \in [Handles -> {"SYNC", "ASYNC"}]
        /\ reaped \in [Handles -> Nat] /\ failures \in [Handles -> Nat]
    BY DEF Init
  <2>5. /\ counter \in Nat /\ closer = "open" /\ tpc = "off" /\ svc = "sleep"
        /\ dumping \in BOOLEAN
    BY DEF Init
  <2> QED
    BY <2>1, <2>2, <2>3, <2>4, <2>5 DEF TypeInv
<1>2. DOMAIN queue = {} /\ DOMAIN stream = {} /\ Len(stream) = 0 /\ Len(queue) = 0
  BY DEF Init
<1>3. Shaped /\ Dumps /\ Reaped /\ Owned
  BY <1>2 DEF Init, Shaped, Dumps, Reaped, Owned, OwnPart, Filling
<1>4. Ordered
  BY <1>2 DEF Ordered
<1>5. \A s : Waiting(s) = {}
  BY <1>2 DEF Waiting
<1>6. /\ \A s \in Semaphores : s[1] # "pending_transactions" => NoToken(s)
      /\ \A s \in Semaphores : s[1] = "pending_transactions" => sem[s] = MaxPending
  BY <1>5 DEF Init, NoToken
<1>7. Signals
  BY <1>6, SemaphoresDiffer DEF Init, Signals, SignalPart, NoToken
<1>8. SyncTokens
  BY <1>6, SemaphoresDiffer DEF Init, SyncTokens, SyncPart, SyncCall, Filling
<1>9. AsyncTokens
  <2>1. SUFFICES ASSUME NEW h \in Handles PROVE AsyncPart(h)
    BY DEF AsyncTokens
  <2>2. /\ ~AsyncCall(h) /\ sem[Pending(h)] = MaxPending /\ reaped[h] = 0
        /\ Waiting(Pending(h)) = {} /\ MaxPending \in Nat
    BY <1>5, <1>6, SemaphoresDiffer, ConstAssumption DEF Init, AsyncCall, Filling
  <2>3. Cardinality(Waiting(Pending(h))) = 0
    BY <2>2, FS_EmptySet
  <2> QED
    BY <2>2, <2>3 DEF AsyncPart
<1>10. Counted
  <2>1. SendingHandles = {} /\ SendingAdmins = {}
    BY DEF Init, SendingHandles, SendingAdmins
  <2>2. Cardinality(SendingHandles) = 0 /\ Cardinality(SendingAdmins) = 0
    BY <2>1, FS_EmptySet
  <2> QED
    BY <1>2, <2>2 DEF Init, Counted
<1> QED
  BY <1>1, <1>3, <1>4, <1>7, <1>8, <1>9, <1>10 DEF PipeInv

(* Nothing happens, or the program dies. *)
LEMMA PipeInvStill ==
  ASSUME PipeInv, UNCHANGED vars \/ Die
  PROVE  PipeInv'
<1>1. SvcStill /\ ServiceKeeps
      /\ UNCHANGED <<counter, sem, answer, dumpMutex>>
  BY DEF vars, queueVars, handleVars, adminVars, closeVars, svcVars, Die, SvcStill,
         ServiceKeeps
<1>2. ServiceTypes
  BY <1>1, ServiceFacts DEF ServiceTypes, SvcStill, PipeInv, TypeInv
<1>3. \A s : Waiting(s)' = Waiting(s)
  BY <1>1, WaitingStill DEF SvcStill, ServiceKeeps
<1>4. Ordered'
  <2>1. durable' \in Nat /\ durable <= durable'
    BY <1>1, ServiceFacts DEF SvcStill
  <2> QED
    BY <1>1, <2>1, OrderedStill, ServiceFacts DEF SvcStill, ServiceKeeps, Passed
<1>5. Dumps' /\ Counted'
  <2>1. Counted'
    BY <1>1 DEF PipeInv, Counted, SendingHandles, SendingAdmins, SvcStill, ServiceKeeps
  <2> QED
    BY <1>1, <2>1 DEF PipeInv, Dumps, SvcStill, ServiceKeeps
<1>6. svc' \in {"post", "lockDump"} => \A a \in Admins :
            queue[cur'].lock = Signal(a) => answer'[a] # "none"
  BY <1>1, AnswerStays DEF SvcStill
<1> QED
  BY <1>1, <1>2, <1>3, <1>4, <1>5, <1>6, ServiceSaved

(* Every step of everybody. *)
LEMMA PipeInvNext ==
  ASSUME PipeInv, [Next]_vars
  PROVE  PipeInv'
<1>1. CASE CallStep
  <2>1. ASSUME NEW h \in Handles,
               \/ HandleInit(h) \/ HandleDestroy(h) \/ CommitReadOnly(h)
               \/ \E m \in {"SYNC", "ASYNC"} : CommitFast(h, m) \/ CommitLocked(h, m)
        PROVE  PipeInv'
    BY <2>1, MovesSaved, DestroySaved, CommitReadOnlySaved, CommitFastSaved,
       ValidateSlowSaved
  <2>2. ASSUME NEW a \in Admins,
               WaitForDump(a) \/ \E kind \in Requests : Request(a, kind)
        PROVE  PipeInv'
    <3>1. CASE WaitForDump(a)
      BY <3>1, AdminQuietSaved DEF WaitForDump, Asks
    <3> QED
      BY <2>2, <3>1, RequestSaved
  <2>3. CASE TimerPush \/ TimerCancel \/ Close
    BY <2>3, TimerSaved, CloseSaved
  <2> QED
    BY <1>1, <2>1, <2>2, <2>3 DEF CallStep
<1>2. ASSUME NEW h \in Handles, HandleStep(h) PROVE PipeInv'
  <2>1. fastCommit \in BOOLEAN
    BY DEF PipeInv, TypeInv
  <2>2. CASE Valid(h)
    BY <2>1, <2>2, MovesSaved, ValidSlowSaved
  <2>3. CASE Invalid(h)
    <3>1. PICK m : m \in {"SYNC", "ASYNC"}
      OBVIOUS
    <3> QED
      BY <2>1, <2>3, <3>1, FillSaved, ValidateSlowSaved
  <2> QED
    BY <1>2, <2>2, <2>3, MovesSaved, FillSaved, ReturnSaved, ReapSaved DEF HandleStep
<1>3. ASSUME NEW a \in Admins, AdminStep(a) PROVE PipeInv'
  <2>1. apc[a] # "idle"
    BY <1>3 DEF AdminStep, PostRequest, Answered, Resume, EnterDumpMutex, LeaveDumpMutex,
                AGoto
  <2>2. closer = "open"
    BY <2>1, AdminsOnlyWhileOpen
  <2> QED
    BY <1>3, <2>2, AdminQuietSaved DEF AdminStep
<1>4. CASE TimerStep
  BY <1>4, TimerSaved DEF TimerStep
<1>5. CASE CloseStep
  BY <1>5, DestroySaved, CloseSaved, PipeInvStill DEF CloseStep, CloseDies
<1>6. CASE ServiceStep
  <2>1. ASSUME NEW ans \in {"SUCCESS", "CANNOT_CREATE_NEW_FILE", "DUMP_RUNNING"},
               SvcNewFile(ans) \/ SvcStartDump(ans)
        PROVE  PipeInv'
    BY <2>1, SvcAnswerSaved
  <2>2. CASE SvcDumpBatch(1) \/ SvcDumpBatch(0)
    BY <2>2, SvcDumpSaved
  <2> QED
    BY <1>6, <2>1, <2>2, SvcLoopSaved, SvcFlushSaved, SvcPostSaved, SvcSilentSaved,
       SvcLockDumpSaved, SvcDumpSaved, PipeInvStill DEF ServiceStep, DumpProgress, SvcDies
<1>7. CASE Terminated \/ UNCHANGED vars
  BY <1>7, PipeInvStill DEF Terminated
<1> QED
  BY <1>1, <1>2, <1>3, <1>4, <1>5, <1>6, <1>7 DEF Next

(* Whatever handles, admins, timer, database_close and service thread do. *)
THEOREM PipelineInvariant == Spec => []PipeInv
<1>1. Init => PipeInv
  BY PipeInvInit
<1>2. PipeInv /\ [Next]_vars => PipeInv'
  BY PipeInvNext
<1> QED
  BY <1>1, <1>2, PTL DEF Spec

(* What PipeInv says of the stream ... *)
LEMMA StreamFollows ==
  ASSUME PipeInv
  PROVE  StreamComplete
<1>1. \A i \in DOMAIN queue : ~Outstanding(i) => Passed(i)
  BY QueueFacts DEF PipeInv, Outstanding, Passed
<1> QED
  BY <1>1 DEF PipeInv, Ordered, StreamComplete

(* ... of the commits nobody has written yet: each holds a token that is not in
   pending_transactions, and there are no more than MaxPending ... *)
LEMMA PendingFollows ==
  ASSUME PipeInv
  PROVE  PendingBound
<1>1. SUFFICES ASSUME NEW h \in Handles, hpc[h] = "idle", Untroubled(h)
               PROVE  Cardinality(Backlog(h)) <= MaxPending
  BY DEF PendingBound
<1>2. TypeInv /\ ~AsyncCall(h) /\ AsyncPart(h)
  BY <1>1 DEF PipeInv, AsyncTokens, AsyncCall, Filling
<1> DEFINE s == sem[Pending(h)]
           r == reaped[h]
           w == Cardinality(Waiting(Pending(h)))
           b == Cardinality(Backlog(h))
<1>3. s + w + r = MaxPending
  BY <1>1, <1>2, WaitingFinite, ConstAssumption DEF AsyncPart
<1>4. s \in Nat /\ r \in Nat
  BY <1>2, SemaphoresDiffer DEF TypeInv
<1>5. w \in Nat /\ IsFiniteSet(Waiting(Pending(h)))
  BY <1>2, WaitingFinite
<1>6. Backlog(h) \subseteq Waiting(Pending(h))
  BY DEF Backlog, Waiting
<1>7. b \in Nat /\ b <= w
  BY <1>5, <1>6, FS_Subset, FS_CardinalityType
<1> HIDE DEF s, r, w, b
<1>8. b <= MaxPending
  BY <1>3, <1>4, <1>5, <1>7
<1> QED
  BY <1>8 DEF b

(* ... of destroyed handles: who has collected all tokens has left none for a
   job ... *)
LEMMA DestroyedFollows ==
  ASSUME PipeInv
  PROVE  NoPostToDestroyed
<1>1. SUFFICES ASSUME NEW h \in Handles, hpc[h] = "gone", Untroubled(h)
               PROVE  Waiting(Written(h)) = {} /\ Waiting(Pending(h)) = {}
  BY DEF NoPostToDestroyed, Waiting
<1>2. /\ TypeInv /\ ~AsyncCall(h) /\ ~SyncCall(h) /\ AsyncPart(h) /\ SyncPart(h)
      /\ reaped[h] = MaxPending
  BY <1>1 DEF PipeInv, AsyncTokens, SyncTokens, Reaped, AsyncCall, SyncCall, Filling
<1>3. Waiting(Written(h)) = {}
  BY <1>1, <1>2 DEF SyncPart, NoToken
<1> DEFINE s == sem[Pending(h)]
           w == Cardinality(Waiting(Pending(h)))
<1>4. s + w + MaxPending = MaxPending
  BY <1>1, <1>2, WaitingFinite, ConstAssumption DEF AsyncPart
<1>5. s \in Nat /\ w \in Nat /\ IsFiniteSet(Waiting(Pending(h))) /\ MaxPending \in Nat
  BY <1>2, SemaphoresDiffer, WaitingFinite, ConstAssumption DEF TypeInv
<1>6. w = 0
  <2> HIDE DEF s, w
  <2> QED
    BY <1>4, <1>5
<1>7. Waiting(Pending(h)) = {}
  BY <1>5, <1>6, FS_EmptySet
<1> QED
  BY <1>3, <1>7

(* ... of dumps: as long as the answer is not posted nobody acts on it ... *)
LEMMA DumpFollows ==
  ASSUME PipeInv
  PROVE  DumpAwaited
<1>1. SUFFICES ASSUME NEW a \in Admins, apc[a] = "inDumpMutex", dumpOf = a
               PROVE  FALSE
  BY DEF DumpAwaited
<1>2. /\ a # Free /\ a # Service /\ dumpMutex = a
      /\ NoToken(Signal(a))
  BY <1>1, ServiceFacts, ActorAssumption DEF Dumps, Signals, SignalPart
<1>3. ~dumping /\ svc = "lockDump"
  BY <1>1, <1>2, ServiceFacts DEF Dumps
<1>4. queue[cur].lock = Signal(a) /\ cur \in DOMAIN queue
  BY <1>1, <1>3, ServiceFacts DEF Dumps, Shape
<1>5. cur \in Waiting(Signal(a))
  BY <1>3, <1>4 DEF Waiting, Outstanding
<1> QED
  BY <1>2, <1>5 DEF NoToken

(* ... of signals ... *)
LEMMA SignalsFollow ==
  ASSUME PipeInv
  PROVE  SignalsMatched
<1>1. SUFFICES ASSUME NEW a \in Admins
               PROVE  /\ sem[Signal(a)] + Cardinality(Waiting(Signal(a)))
                           = IF apc[a] \in {"post", "answer"} THEN 1 ELSE 0
                      /\ sem[Signal(a)] > 0 => answer[a] # "none"
  BY DEF SignalsMatched, Waiting
<1>2. SignalPart(a)
  BY DEF PipeInv, Signals
<1>3. OneToken(Signal(a)) => sem[Signal(a)] + Cardinality(Waiting(Signal(a))) = 1
  <2>1. \A i : Cardinality({i}) = 1
    BY FS_Singleton
  <2>2. Cardinality({}) = 0
    BY FS_EmptySet
  <2>3. ASSUME NEW i, sem[Signal(a)] = 0, Waiting(Signal(a)) = {i}
        PROVE  sem[Signal(a)] + Cardinality(Waiting(Signal(a))) = 1
    BY <2>1, <2>3
  <2>4. ASSUME sem[Signal(a)] = 1, Waiting(Signal(a)) = {}
        PROVE  sem[Signal(a)] + Cardinality(Waiting(Signal(a))) = 1
    BY <2>2, <2>4
  <2> QED
    BY <2>3, <2>4 DEF OneToken
<1>4. NoToken(Signal(a)) => sem[Signal(a)] + Cardinality(Waiting(Signal(a))) = 0
  BY FS_EmptySet DEF NoToken
<1> QED
  BY <1>2, <1>3, <1>4 DEF SignalPart

(* ... and of database_close. *)
LEMMA CloseFollows ==
  ASSUME PipeInv
  PROVE  CloseLosesNothing
<1>1. Counted /\ Ordered /\ TypeInv
  BY DEF PipeInv
<1>2. ASSUME svc = "done" PROVE DurableUpTo(Len(queue))
  <2>1. cur = Len(queue) /\ durable = Len(stream)
    BY <1>1, <1>2 DEF Counted
  <2>2. ASSUME NEW i \in 1..Len(queue), queue[i].full PROVE OnDisk(i)
    <3>1. i \in DOMAIN queue /\ Passed(i)
      BY <1>1, <1>2, <2>1, QueueFacts DEF Passed
    <3>2. PICK k \in DOMAIN stream : stream[k] = i
      BY <1>1, <2>2, <3>1 DEF Ordered
    <3> QED
      BY <1>1, <2>1, <3>2, StreamFacts DEF OnDisk
  <2> QED
    BY <2>2 DEF DurableUpTo
<1> QED
  BY <1>1, <1>2 DEF Counted, CloseLosesNothing

(* Records reach the file in the order of the queue, each once, and no commit
   that the service thread has passed is missing. *)
THEOREM StreamAlwaysComplete == Spec => []StreamComplete
<1>1. PipeInv => StreamComplete
  BY StreamFollows
<1> QED
  BY <1>1, PipelineInvariant, PTL

(* Between two calls a handle has at most MaxPending commits in the queue. *)
THEOREM PendingAlwaysBounded == Spec => []PendingBound
<1>1. PipeInv => PendingBound
  BY PendingFollows
<1> QED
  BY <1>1, PipelineInvariant, PTL

(* No job will post a semaphore that db_handle_destroy has destroyed. *)
THEOREM DestroyedNeverPosted == Spec => []NoPostToDestroyed
<1>1. PipeInv => NoPostToDestroyed
  BY DestroyedFollows
<1> QED
  BY <1>1, PipelineInvariant, PTL

(* database_wait_for_dump waits for the dump its caller has started. *)
THEOREM DumpAlwaysAwaited == Spec => []DumpAwaited
<1>1. PipeInv => DumpAwaited
  BY DumpFollows
<1> QED
  BY <1>1, PipelineInvariant, PTL

(* A database function that waits gets its own answer and no other. *)
THEOREM SignalsAlwaysMatched == Spec => []SignalsMatched
<1>1. PipeInv => SignalsMatched
  BY SignalsFollow
<1> QED
  BY <1>1, PipelineInvariant, PTL

(* When the service thread is done everything is on the disk. *)
THEOREM CloseNeverLoses == Spec => []CloseLosesNothing
<1>1. PipeInv => CloseLosesNothing
  BY CloseFollows
<1> QED
  BY <1>1, PipelineInvariant, PTL

-----------------------------------------------------------------------------
(* The open file *)

(* D->file_desc names an open file for as long as a dump is under way, so that
   do_dump never writes to one that is closed; and only a program whose new
   file could not be opened has died. *)
FileInv ==
  /\ file \in {"open", "closed"} /\ alive \in BOOLEAN
  /\ dumping \/ svc = "lockDump" => file = "open"
  /\ ~alive => file = "closed"

(* Only a request for a new file changes D->file_desc, and only the service
   thread starts a dump. *)
LEMMA FileKept ==
  ASSUME FileInv, [Next]_vars
  PROVE  FileInv'
<1>1. CASE UNCHANGED <<file, alive, svc, dumping>>
  BY <1>1 DEF FileInv
<1>2. CASE CallStep
  <2>1. UNCHANGED svcVars
    BY <1>2 DEF CallStep, HandleInit, HandleDestroy, Unregister, CommitReadOnly, CommitFast,
                CommitLocked, WaitForDump, Request, TimerPush, TimerCancel, Close
  <2> QED
    BY <1>1, <2>1 DEF svcVars
<1>3. ASSUME NEW h \in Handles, HandleStep(h) PROVE FileInv'
  <2>1. UNCHANGED svcVars
    BY <1>3 DEF HandleStep, PostFast, Valid, Invalid, Fill, PostReadOnly, Return, Reap,
                Destroyed
  <2> QED
    BY <1>1, <2>1 DEF svcVars
<1>4. ASSUME NEW a \in Admins, AdminStep(a) PROVE FileInv'
  <2>1. UNCHANGED svcVars
    BY <1>4 DEF AdminStep, PostRequest, Answered, Resume, EnterDumpMutex, LeaveDumpMutex
  <2> QED
    BY <1>1, <2>1 DEF svcVars
<1>5. CASE TimerStep
  BY <1>1, <1>5 DEF TimerStep, TimerPost, svcVars
<1>6. CASE Die /\ file = "closed"
  BY <1>6 DEF Die, FileInv
<1>7. CASE CloseStep
  <2>1. CASE CloseDies
    BY <1>6, <2>1 DEF CloseDies
  <2>2. CASE CloseHandle \/ StopTimer \/ PostClose \/ Join
    BY <1>1, <2>2 DEF CloseHandle, Unregister, StopTimer, PostClose, Join, svcVars
  <2> QED
    BY <1>7, <2>1, <2>2 DEF CloseStep
<1>8. CASE ServiceStep
  <2>1. ASSUME NEW ans \in {"SUCCESS", "CANNOT_CREATE_NEW_FILE", "DUMP_RUNNING"},
               SvcNewFile(ans) \/ SvcStartDump(ans)
        PROVE  FileInv'
    <3>1. /\ NewFile(ans) /\ alive' = alive /\ dumping' = dumping
          /\ svc' = "post" \/ (ans = "SUCCESS" /\ svc' = "lockDump")
      BY <2>1 DEF SvcNewFile, SvcStartDump, SvcKeeps
    <3>2. file = "open" /\ (dumping => ans = "DUMP_RUNNING")
      BY <3>1 DEF NewFile
    <3>3. file' = IF ans = "CANNOT_CREATE_NEW_FILE" THEN "closed" ELSE "open"
      BY <3>1 DEF NewFile
    <3> QED
      BY <3>1, <3>2, <3>3 DEF FileInv
  <2>2. CASE SvcDies
    BY <1>6, <2>2 DEF SvcDies
  <2>3. CASE SvcLockDump
    BY <2>3 DEF SvcLockDump, SvcUnchanged, SvcKeeps, FileInv
  <2>4. CASE \/ SvcWake \/ SvcNext \/ SvcCommit \/ SvcSyncMe \/ SvcPost \/ SvcGarbage
             \/ SvcPause \/ SvcDumpBatch(0) \/ DumpProgress \/ SvcExit \/ SvcDumpEnd
    <3>1. /\ file' = file /\ alive' = alive /\ (dumping' = dumping \/ dumping' = FALSE)
          /\ svc' \in {"next", "job", "exit", "post", "dump", "sleep", "done", svc}
      BY <2>4 DEF SvcWake, SvcNext, SvcCommit, SvcSyncMe, SvcPost, SvcGarbage, SvcPause,
                  SvcDumpBatch, DumpProgress, SvcExit, SvcDumpEnd, AfterJob, SvcUnchanged,
                  SvcKeeps
    <3> QED
      BY <3>1 DEF FileInv
  <2> QED
    BY <1>8, <2>1, <2>2, <2>3, <2>4 DEF ServiceStep
<1>9. CASE Terminated \/ UNCHANGED vars
  BY <1>1, <1>9 DEF Terminated, vars, svcVars
<1> QED
  BY <1>2, <1>3, <1>4, <1>5, <1>7, <1>8, <1>9 DEF Next

(* A dump under way has its file. *)
THEOREM DumpFileStaysOpen == Spec => []FileInv
<1>1. Init => FileInv
  BY DEF Init, FileInv
<1> QED
  BY <1>1, FileKept, PTL DEF Spec

-----------------------------------------------------------------------------
(* The return of a synchronous commit *)

(* Nothing but Return brings a handle back from its wait. *)
LEMMA OnlyReturnReturns ==
  ASSUME TypeInv, [Next]_vars, NEW h \in Handles, hpc[h] = "wait", hpc'[h] = "idle"
  PROVE  Return(h)
<1>1. \A k \in Handles : \A from, to :
        HGoto(k, from, to) => k = h /\ from = "wait" /\ to = "idle"
  BY DEF HGoto, TypeInv
<1>2. hpc' # hpc
  OBVIOUS
<1>3. CASE CallStep
  <2>1. ASSUME NEW k \in Handles,
               \/ HandleInit(k) \/ HandleDestroy(k) \/ CommitReadOnly(k)
               \/ \E m \in {"SYNC", "ASYNC"} : CommitFast(k, m) \/ CommitLocked(k, m)
        PROVE  FALSE
    <3>1. \/ HGoto(k, "none", "idle") \/ HGoto(k, "idle", "reap")
          \/ HGoto(k, "idle", "postReadOnly") \/ HGoto(k, "idle", "postFast")
          \/ HGoto(k, "idle", "validate")
      BY <2>1 DEF HandleInit, HandleDestroy, Unregister, CommitReadOnly, CommitFast,
                  CommitLocked
    <3> QED
      BY <1>1, <3>1
  <2>2. ASSUME \/ \E a \in Admins : WaitForDump(a) \/ \E kind \in Requests : Request(a, kind)
               \/ TimerPush \/ TimerCancel \/ Close
        PROVE  FALSE
    BY <1>2, <2>2 DEF WaitForDump, Request, TimerPush, TimerCancel, Close, handleVars
  <2> QED
    BY <1>3, <2>1, <2>2 DEF CallStep
<1>4. ASSUME NEW k \in Handles, HandleStep(k) PROVE Return(h)
  <2>1. CASE PostFast(k) \/ Valid(k) \/ Invalid(k) \/ Fill(k) \/ PostReadOnly(k) \/ Destroyed(k)
    <3>1. \/ HGoto(k, "postFast", "validate") \/ HGoto(k, "validate", "fill")
          \/ HGoto(k, "validate", "idle") \/ HGoto(k, "fill", "wait")
          \/ HGoto(k, "postReadOnly", "wait") \/ HGoto(k, "reap", "gone")
      BY <2>1 DEF PostFast, Valid, Invalid, Fill, PostReadOnly, Destroyed
    <3> QED
      BY <1>1, <3>1
  <2>2. CASE Reap(k)
    BY <1>2, <2>2 DEF Reap
  <2>3. CASE Return(k)
    BY <1>1, <2>3 DEF Return
  <2> QED
    BY <1>4, <2>1, <2>2, <2>3 DEF HandleStep
<1>5. ASSUME NEW a \in Admins, AdminStep(a) PROVE FALSE
  BY <1>2, <1>5 DEF AdminStep, PostRequest, Answered, Resume, EnterDumpMutex, LeaveDumpMutex,
                    handleVars
<1>6. CASE TimerStep
  BY <1>2, <1>6 DEF TimerStep, TimerPost, handleVars
<1>7. CASE CloseStep
  <2>1. CASE CloseHandle
    <3>1. registry[closeAt] \in Handles
      <4>1. registry \in Seq(Handles) /\ closeAt \in Nat \ {0} /\ closeAt <= Len(registry)
        BY <2>1 DEF TypeInv, CloseHandle
      <4>2. Len(registry) \in Nat
        BY <4>1, LenProperties
      <4> QED
        BY <4>1, <4>2, ElementOfSeq
    <3> QED
      BY <1>1, <2>1, <3>1 DEF CloseHandle, Unregister
  <2>2. CASE StopTimer \/ PostClose \/ Join \/ CloseDies
    BY <1>2, <2>2 DEF StopTimer, PostClose, Join, CloseDies, Die, handleVars
  <2> QED
    BY <1>7, <2>1, <2>2 DEF CloseStep
<1>8. CASE ServiceStep
  <2>1. ServiceStep => UNCHANGED handleVars
    BY DEF ServiceStep, SvcWake, SvcNext, SvcCommit, SvcSyncMe, SvcPost, SvcGarbage, SvcPause,
           SvcNewFile, SvcStartDump, SvcLockDump, DumpProgress, SvcDumpBatch, SvcDumpEnd,
           SvcExit, SvcDies, Die, SvcUnchanged, SvcKeeps
  <2> QED
    BY <1>2, <1>8, <2>1 DEF handleVars
<1>9. CASE Terminated \/ UNCHANGED vars
  BY <1>2, <1>9 DEF Terminated, vars, handleVars
<1> QED
  BY <1>3, <1>4, <1>5, <1>6, <1>7, <1>8, <1>9 DEF Next

(* The token that ends the wait was posted for the job of this very call. *)
LEMMA ReturnIsDurable ==
  ASSUME PipeInv, [Next]_vars, NEW h \in Handles, ReturnsSync(h), Untroubled(h)
  PROVE  DurableUpTo(mine[h])
<1>1. TypeInv /\ Shaped /\ Ordered /\ OwnPart(h) /\ SyncPart(h)
  BY DEF PipeInv, Owned, SyncTokens
<1>2. hpc[h] = "wait" /\ mode[h] = "SYNC" /\ Return(h)
  BY <1>1, OnlyReturnReturns DEF ReturnsSync
<1>3. sem[Written(h)] > 0
  BY <1>2 DEF Return, Take
<1>4. OneToken(Written(h))
  BY <1>1, <1>2 DEF SyncPart, SyncCall
<1>5. Waiting(Written(h)) = {}
  BY <1>3, <1>4 DEF OneToken
<1>6. CASE mine[h] = 0
  <2>1. 1..0 = {}
    OBVIOUS
  <2> QED
    BY <1>6, <2>1 DEF DurableUpTo
<1>7. CASE OwnJob(h)
  <2>1. /\ mine[h] \in DOMAIN queue /\ queue[mine[h]].kind = "SYNC_COMMIT"
        /\ queue[mine[h]].lock = Written(h)
    BY <1>1, <1>2, <1>7 DEF OwnJob, Shaped, Shape
  <2>2. ~Outstanding(mine[h])
    BY <1>5, <2>1 DEF Waiting
  <2>3. Passed(mine[h])
    BY <1>1, <2>1, <2>2, QueueFacts DEF Outstanding, Passed
  <2> QED
    BY <1>1, <2>1, <2>3 DEF Ordered
<1> QED
  BY <1>1, <1>2, <1>6, <1>7 DEF OwnPart

(* tr_commit(CT_SYNC) returns only when its transaction and every commit queued
   before it are on the disk, for handles none of whose queued commits has
   failed. *)
THEOREM SyncReturnAlwaysDurable == Spec => SyncReturnDurableUnlessFailed
<1>1. PipeInv /\ [Next]_vars =>
        [\A h \in Handles : ReturnsSync(h) /\ Untroubled(h) => DurableUpTo(mine[h])]_vars
  BY ReturnIsDurable
<1> QED
  BY <1>1, PipelineInvariant, PTL DEF Spec, SyncReturnDurableUnlessFailed
=============================================================================
