---------------------------- MODULE ReclaimProofs ----------------------------
(***************************************************************************)
(* Deferred release never takes memory from a transaction that may look at *)
(* it, for every set of clients and of objects.                            *)
(***************************************************************************)
EXTENDS Reclaim, SequenceTheorems, TLAPS

InGarbage == {garbage[k] : k \in 1..Len(garbage)}

(* What was freed and waits to be released, with its time; and with what the
   service thread has still to free *)
Waiting == freeList \cup UNION {gcList[p] : p \in Collectors}
Listed == Waiting \cup InGarbage

Uses(c) == at[c] \in {"run", "check"}
Writing(c) == owner = c /\ at[c] \in {"run", "check", "abort", "unlock"}
HasBackup(c) == Writing(c) \/ at[c] = "hand over"
HasEnd(c) == at[c] \in {"unlock", "hand over"}

Places == {"out", "begin", "run", "check", "abort", "tick", "unlock", "hand over", "cleanup"}

ReclaimTypes ==
  /\ now \in Nat
  /\ started \in [Clients -> Nat]
  /\ at \in [Clients -> Places]
  /\ readClock \in [Clients -> Nat]
  /\ pointer \in Objects
  /\ version \in Nat
  /\ owner \in Clients \cup {NoClient}
  /\ loaded \in [Clients -> Objects \cup {NoObject}]
  /\ held \in [Clients -> SUBSET Objects]
  /\ backup \in [Clients -> Objects \cup {NoObject}]
  /\ endOf \in [Clients -> Nat]
  /\ garbage \in Seq(Objects \X Nat)
  /\ memory \in SUBSET Objects
  /\ freeList \in SUBSET (Objects \X Nat)
  /\ gcAt \in [Collectors -> {"none", "scan", "sweep"}]
  /\ gcLeft \in [Collectors -> SUBSET Clients]
  /\ gcTime \in [Collectors -> Nat]
  /\ gcList \in [Collectors -> SUBSET (Objects \X Nat)]

(* The clock is ahead of every time that was read from it. *)
Times ==
  /\ 0 < now /\ version <= now
  /\ \A c \in Clients : readClock[c] <= now /\ started[c] <= now /\ endOf[c] <= now

(* A transaction that runs has a start. *)
Starts ==
  \A c \in Clients :
    /\ at[c] = "begin" => 0 < readClock[c]
    /\ at[c] \notin {"out", "begin"} => 0 < started[c]
    /\ at[c] \in {"out", "begin"} => held[c] = {}

Owners ==
  /\ owner # NoClient => at[owner] \in {"run", "check", "abort", "unlock", "tick"}
  /\ \A c \in Clients : at[c] = "unlock" => owner = c

(* A client that collects has not reset its own start, so its collection finds
   no later time. *)
Collections ==
  /\ \A p \in Collectors : gcAt[p] # "sweep" => gcList[p] = {}
  /\ \A p \in Clients : gcAt[p] # "none" => at[p] = "tick"
  /\ \A p \in Clients :
       gcAt[p] = "scan" /\ p \notin gcLeft[p] => gcTime[p] <= started[p]

(* An object waits in one list, once. *)
Lists ==
  /\ \A x, y \in Listed : x[1] = y[1] => x = y
  /\ \A p \in Collectors : gcList[p] \cap (freeList \cup InGarbage) = {}
  /\ \A p, q \in Collectors : p # q => gcList[p] \cap gcList[q] = {}
  /\ freeList \cap InGarbage = {}
  /\ \A j, k \in 1..Len(garbage) : garbage[j] = garbage[k] => j = k

(* It is not what the attribute points to, ... *)
Pointed ==
  /\ pointer \in memory
  /\ \A x \in Listed : x[1] \in memory /\ x[1] # pointer
  /\ \A c \in Clients : owner = c /\ at[c] = "tick" => backup[c] = pointer

(* ... and not what a writer may put back or has still to hand over. *)
Backups ==
  \A c \in Clients : HasBackup(c) =>
    /\ backup[c] \in memory /\ backup[c] # pointer
    /\ \A x \in Listed : x[1] # backup[c]
    /\ \A d \in Clients : HasBackup(d) /\ c # d => backup[c] # backup[d]

(* What the check of a read lets through is the present pointer. *)
Loads ==
  \A c \in Clients : at[c] = "check" =>
    /\ MayUse(c) => loaded[c] = pointer
    /\ \A d \in Clients : at[d] = "unlock" /\ endOf[d] <= started[c] => loaded[c] = pointer

(* Nobody else has seen what a writer has not committed. *)
Clean ==
  \A c, d \in Clients : Uses(c) /\ Writing(d) /\ c # d => pointer \notin held[c]

(* What a transaction holds is released at a time after its start. *)
Holds ==
  \A c \in Clients : Uses(c) => \A o \in held[c] :
    /\ o \in memory
    /\ \A x \in Listed : x[1] = o => started[c] < x[2]
    /\ \A d \in Clients : HasEnd(d) /\ backup[d] = o => started[c] < endOf[d]

(* A collection under way will find a time before t. *)
Spared(p, c, t) == gcTime[p] < t \/ c \in gcLeft[p] \/ (p \in gcLeft[p] /\ started[p] < t)

(* So does every collection under way that may come across it. *)
Scans ==
  \A p \in Collectors, c \in Clients : Uses(c) => \A o \in held[c] :
    /\ gcAt[p] = "scan" => \A x \in Waiting : x[1] = o => Spared(p, c, x[2])
    /\ gcAt[p] = "scan" /\ p \in Clients =>
         /\ \A x \in InGarbage : x[1] = o => Spared(p, c, x[2])
         /\ \A d \in Clients : HasEnd(d) /\ backup[d] = o => Spared(p, c, endOf[d])
    /\ \A x \in gcList[p] : x[1] = o => gcTime[p] < x[2]

ReclaimInv ==
  /\ ReclaimTypes /\ Times /\ Starts /\ Owners /\ Collections /\ Lists /\ Pointed /\ Backups
  /\ Loads /\ Clean /\ Holds /\ Scans

-----------------------------------------------------------------------------
(* A step that moves nothing between the lists keeps what transactions hold:
   they hold at most the present pointer besides, and an end that was not there
   before is after now. *)
LEMMA NothingReleased ==
  ASSUME ReclaimInv,
         UNCHANGED <<garbage, freeList, gcVars>>,
         memory \subseteq memory',
         \A d \in Clients : Uses(d)' =>
            \/ held'[d] = {}
            \/ /\ Uses(d) /\ started'[d] = started[d]
               /\ held'[d] \subseteq held[d] \cup {pointer},
         \A d \in Clients : HasEnd(d)' =>
            /\ backup'[d] = backup[d] /\ HasBackup(d)
            /\ endOf'[d] \in Nat
            /\ (HasEnd(d) /\ endOf'[d] = endOf[d]) \/ now < endOf'[d],
         \A p \in Clients : gcAt[p] = "scan" => started'[p] = started[p]
  PROVE  Lists' /\ Holds' /\ Scans'
<1>1. InGarbage' = InGarbage /\ Waiting' = Waiting /\ Listed' = Listed
  BY DEF gcVars, InGarbage, Waiting, Listed
<1>2. Lists'
  BY <1>1 DEF ReclaimInv, Lists, gcVars
<1>4. Holds'
  <2> SUFFICES ASSUME NEW c \in Clients, Uses(c)', NEW o \in held'[c]
               PROVE  /\ o \in memory'
                      /\ \A x \in Listed : x[1] = o => started'[c] < x[2]
                      /\ \A d \in Clients : HasEnd(d)' /\ backup'[d] = o => started'[c] < endOf'[d]
    BY <1>1 DEF Holds
  <2>1. Uses(c) /\ started'[c] = started[c] /\ o \in held[c] \cup {pointer}
    OBVIOUS
  <2>2. started[c] <= now
    BY <2>1 DEF ReclaimInv, Times
  <2>3. CASE o = pointer
    BY <2>1, <2>3 DEF ReclaimInv, Pointed, Backups
  <2>4. CASE o \in held[c]
    <3>1. o \in memory' /\ \A x \in Listed : x[1] = o => started'[c] < x[2]
      BY <2>1, <2>4 DEF ReclaimInv, Holds
    <3>2. ASSUME NEW d \in Clients, HasEnd(d)', backup'[d] = o PROVE started'[c] < endOf'[d]
      <4>1. CASE now < endOf'[d]
        BY <2>1, <2>2, <4>1, <3>2 DEF ReclaimInv, ReclaimTypes
      <4>2. CASE HasEnd(d) /\ endOf'[d] = endOf[d]
        BY <2>1, <2>4, <3>2, <4>2 DEF ReclaimInv, Holds
      <4> QED
        BY <3>2, <4>1, <4>2
    <3> QED
      BY <3>1, <3>2
  <2> QED
    BY <2>1, <2>3, <2>4
<1>5. Scans'
  <2> SUFFICES ASSUME NEW p \in Collectors, NEW c \in Clients, Uses(c)', NEW o \in held'[c]
               PROVE
                 /\ gcAt[p] = "scan" => \A x \in Waiting : x[1] = o => Spared(p, c, x[2])'
                 /\ gcAt[p] = "scan" /\ p \in Clients =>
                      /\ \A x \in InGarbage : x[1] = o => Spared(p, c, x[2])'
                      /\ \A d \in Clients : HasEnd(d)' /\ backup'[d] = o => Spared(p, c, endOf[d])'
                 /\ \A x \in gcList[p] : x[1] = o => gcTime[p] < x[2]
    BY <1>1 DEF Scans, gcVars
  <2>1. gcAt[p] = "scan" => \A t \in Nat : Spared(p, c, t) => Spared(p, c, t)'
    BY DEF Spared, gcVars, ReclaimInv, ReclaimTypes
  <2>2. Uses(c) /\ o \in held[c] \cup {pointer}
    OBVIOUS
  <2>3. CASE o = pointer
    <3>1. Waiting \cup InGarbage \cup gcList[p] \subseteq Listed
      BY DEF Waiting, Listed
    <3>2. \A d \in Clients : HasEnd(d)' => backup'[d] # pointer
      BY DEF ReclaimInv, Backups
    <3> QED
      BY <2>3, <3>1, <3>2 DEF ReclaimInv, Pointed
  <2>4. CASE o \in held[c]
    <3>1. \A x \in Waiting \cup InGarbage : x[2] \in Nat
      BY DEF ReclaimInv, ReclaimTypes, InGarbage, Waiting
    <3>2. /\ gcAt[p] = "scan" => \A x \in Waiting : x[1] = o => Spared(p, c, x[2])'
          /\ gcAt[p] = "scan" /\ p \in Clients => \A x \in InGarbage : x[1] = o => Spared(p, c, x[2])'
      BY <2>1, <2>2, <2>4, <3>1 DEF ReclaimInv, Scans
    <3>3. \A x \in gcList[p] : x[1] = o => gcTime[p] < x[2]
      BY <2>2, <2>4 DEF ReclaimInv, Scans
    <3>4. ASSUME NEW d \in Clients, gcAt[p] = "scan", p \in Clients, HasEnd(d)', backup'[d] = o
          PROVE  Spared(p, c, endOf[d])'
      <4>1. CASE HasEnd(d) /\ endOf'[d] = endOf[d]
        BY <2>1, <2>2, <2>4, <3>4, <4>1 DEF ReclaimInv, ReclaimTypes, Scans
      <4>2. CASE now < endOf'[d]
        <5>1. started[p] <= now
          BY <3>4 DEF ReclaimInv, Times
        <5>2. p \in gcLeft[p] \/ gcTime[p] <= started[p]
          BY <3>4 DEF ReclaimInv, Collections
        <5> QED
          BY SMTT(30), <3>4, <4>2, <5>1, <5>2 DEF Spared, gcVars, ReclaimInv, ReclaimTypes
      <4> QED
        BY <3>4, <4>1, <4>2
    <3> QED
      BY <3>2, <3>3, <3>4
  <2> QED
    BY <2>2, <2>3, <2>4
<1> QED
  BY <1>2, <1>4, <1>5

LEMMA BeginReadKeeps ==
  ASSUME ReclaimInv, NEW c \in Clients, BeginRead(c)
  PROVE  ReclaimInv'
<1>0. InGarbage' = InGarbage /\ Listed' = Listed
  BY DEF BeginRead, gcVars, InGarbage, Waiting, Listed
<1>1. ReclaimTypes'
  BY DEF ReclaimInv, BeginRead, Walk, lockVars, gcVars, Places, ReclaimTypes
<1>2. Times'
  <2>1. now \in Nat /\ now' \in Nat /\ now <= now'
    BY DEF BeginRead, ReclaimInv, ReclaimTypes
  <2>2. 0 < now' /\ version' <= now'
    BY <2>1 DEF BeginRead, lockVars, ReclaimInv, ReclaimTypes, Times
  <2>3. ASSUME NEW d \in Clients
        PROVE  readClock'[d] <= now' /\ started'[d] <= now' /\ endOf'[d] <= now'
    BY <2>1 DEF BeginRead, ReclaimInv, ReclaimTypes, Times
  <2> QED
    BY <2>2, <2>3 DEF Times
<1>3. Starts'
  BY DEF ReclaimInv, BeginRead, Walk, ReclaimTypes, Times, Starts
<1>4. Owners'
  BY DEF ReclaimInv, BeginRead, Walk, lockVars, Owners
<1>5. Collections'
  BY DEF ReclaimInv, BeginRead, Walk, gcVars, Collections
<1>6. Pointed'
  BY <1>0 DEF ReclaimInv, BeginRead, Walk, lockVars, ReclaimTypes, Pointed
<1>7. Backups'
  BY <1>0
  DEF ReclaimInv, BeginRead, Walk, lockVars, ReclaimTypes, Backups, HasBackup, Writing
<1>8. Loads'
  BY DEF ReclaimInv, BeginRead, Walk, lockVars, Loads, MayUse
<1>9. Clean'
  BY DEF ReclaimInv, BeginRead, Walk, lockVars, Clean, Uses, Writing
<1>10. Lists' /\ Holds' /\ Scans'
  <2>1. UNCHANGED <<garbage, freeList, gcVars>>
    BY DEF BeginRead
  <2>2. memory \subseteq memory'
    BY DEF BeginRead
  <2>3. \A d \in Clients : Uses(d)' =>
            \/ held'[d] = {}
            \/ /\ Uses(d) /\ started'[d] = started[d]
               /\ held'[d] \subseteq held[d] \cup {pointer}
    BY DEF BeginRead, Walk, Uses
  <2>4. \A d \in Clients : HasEnd(d)' =>
            /\ backup'[d] = backup[d] /\ HasBackup(d)
            /\ endOf'[d] \in Nat
            /\ (HasEnd(d) /\ endOf'[d] = endOf[d]) \/ now < endOf'[d]
    BY DEF BeginRead, Walk, ReclaimInv, ReclaimTypes, Owners, HasEnd, HasBackup, Writing
  <2>5. \A p \in Clients : gcAt[p] = "scan" => started'[p] = started[p]
    BY DEF BeginRead
  <2> QED
    BY <2>1, <2>2, <2>3, <2>4, <2>5, NothingReleased
<1> QED
  BY <1>1, <1>2, <1>3, <1>4, <1>5, <1>6, <1>7, <1>8, <1>9, <1>10 DEF ReclaimInv

LEMMA BeginPublishKeeps ==
  ASSUME ReclaimInv, NEW c \in Clients, BeginPublish(c)
  PROVE  ReclaimInv'
<1>0. InGarbage' = InGarbage /\ Listed' = Listed
  BY DEF BeginPublish, gcVars, InGarbage, Waiting, Listed
<1>1. ReclaimTypes'
  BY DEF ReclaimInv, BeginPublish, Walk, lockVars, gcVars, Places, ReclaimTypes
<1>2. Times'
  <2>1. now \in Nat /\ now' \in Nat /\ now <= now'
    BY DEF BeginPublish, ReclaimInv, ReclaimTypes
  <2>2. 0 < now' /\ version' <= now'
    BY <2>1 DEF BeginPublish, lockVars, ReclaimInv, ReclaimTypes, Times
  <2>3. ASSUME NEW d \in Clients
        PROVE  readClock'[d] <= now' /\ started'[d] <= now' /\ endOf'[d] <= now'
    BY <2>1 DEF BeginPublish, ReclaimInv, ReclaimTypes, Times
  <2> QED
    BY <2>2, <2>3 DEF Times
<1>3. Starts'
  BY DEF ReclaimInv, BeginPublish, Walk, ReclaimTypes, Starts
<1>4. Owners'
  BY DEF ReclaimInv, BeginPublish, Walk, lockVars, Owners
<1>5. Collections'
  BY DEF ReclaimInv, BeginPublish, Walk, gcVars, Collections
<1>6. Pointed'
  BY <1>0 DEF ReclaimInv, BeginPublish, Walk, lockVars, ReclaimTypes, Pointed
<1>7. Backups'
  <2>1. \A d \in Clients : HasBackup(d)' => HasBackup(d) /\ backup'[d] = backup[d]
    BY ReclaimAssumption
    DEF BeginPublish, Walk, lockVars, ReclaimInv, ReclaimTypes, Owners, HasBackup, Writing
  <2>2. pointer' = pointer /\ memory' = memory
    BY DEF BeginPublish, lockVars
  <2> QED
    BY <1>0, <2>1, <2>2 DEF ReclaimInv, Backups
<1>8. Loads'
  BY DEF ReclaimInv, BeginPublish, Walk, lockVars, Loads, MayUse
<1>9. Clean'
  BY ReclaimAssumption
  DEF ReclaimInv, BeginPublish, Walk, lockVars, Clean, Owners, Starts, Uses, Writing
<1>10. Lists' /\ Holds' /\ Scans'
  <2>1. UNCHANGED <<garbage, freeList, gcVars>>
    BY DEF BeginPublish
  <2>2. memory \subseteq memory'
    BY DEF BeginPublish
  <2>3. \A d \in Clients : Uses(d)' =>
            \/ held'[d] = {}
            \/ /\ Uses(d) /\ started'[d] = started[d]
               /\ held'[d] \subseteq held[d] \cup {pointer}
    BY DEF BeginPublish, Walk, ReclaimInv, Starts, Uses
  <2>4. \A d \in Clients : HasEnd(d)' =>
            /\ backup'[d] = backup[d] /\ HasBackup(d)
            /\ endOf'[d] \in Nat
            /\ (HasEnd(d) /\ endOf'[d] = endOf[d]) \/ now < endOf'[d]
    BY DEF BeginPublish, Walk, ReclaimInv, ReclaimTypes, Owners, HasEnd, HasBackup, Writing
  <2>5. \A p \in Clients : gcAt[p] = "scan" => started'[p] = started[p]
    BY DEF BeginPublish, Walk, ReclaimInv, Collections
  <2> QED
    BY <2>1, <2>2, <2>3, <2>4, <2>5, NothingReleased
<1> QED
  BY <1>1, <1>2, <1>3, <1>4, <1>5, <1>6, <1>7, <1>8, <1>9, <1>10 DEF ReclaimInv

LEMMA ReadLoadKeeps ==
  ASSUME ReclaimInv, NEW c \in Clients, ReadLoad(c)
  PROVE  ReclaimInv'
<1>0. InGarbage' = InGarbage /\ Listed' = Listed
  BY DEF ReadLoad, gcVars, InGarbage, Waiting, Listed
<1>1. ReclaimTypes'
  BY DEF ReclaimInv, ReadLoad, Walk, lockVars, gcVars, Places, ReclaimTypes
<1>2. Times'
  BY DEF ReclaimInv, ReadLoad, lockVars, Times
<1>3. Starts'
  BY DEF ReclaimInv, ReadLoad, Walk, Starts
<1>4. Owners'
  BY DEF ReclaimInv, ReadLoad, Walk, lockVars, Owners
<1>5. Collections'
  BY DEF ReclaimInv, ReadLoad, Walk, gcVars, Collections
<1>6. Pointed'
  BY <1>0 DEF ReclaimInv, ReadLoad, Walk, lockVars, ReclaimTypes, Pointed
<1>7. Backups'
  BY <1>0
  DEF ReclaimInv, ReadLoad, Walk, lockVars, ReclaimTypes, Backups, HasBackup, Writing
<1>8. Loads'
  BY DEF ReclaimInv, ReadLoad, Walk, lockVars, ReclaimTypes, Loads, MayUse
<1>9. Clean'
  BY DEF ReclaimInv, ReadLoad, Walk, lockVars, Clean, Uses, Writing
<1>10. Lists' /\ Holds' /\ Scans'
  <2>1. UNCHANGED <<garbage, freeList, gcVars>>
    BY DEF ReadLoad
  <2>2. memory \subseteq memory'
    BY DEF ReadLoad
  <2>3. \A d \in Clients : Uses(d)' =>
            \/ held'[d] = {}
            \/ /\ Uses(d) /\ started'[d] = started[d]
               /\ held'[d] \subseteq held[d] \cup {pointer}
    BY DEF ReadLoad, Walk, Uses
  <2>4. \A d \in Clients : HasEnd(d)' =>
            /\ backup'[d] = backup[d] /\ HasBackup(d)
            /\ endOf'[d] \in Nat
            /\ (HasEnd(d) /\ endOf'[d] = endOf[d]) \/ now < endOf'[d]
    BY DEF ReadLoad, Walk, ReclaimInv, ReclaimTypes, Owners, HasEnd, HasBackup, Writing
  <2>5. \A p \in Clients : gcAt[p] = "scan" => started'[p] = started[p]
    BY DEF ReadLoad
  <2> QED
    BY <2>1, <2>2, <2>3, <2>4, <2>5, NothingReleased
<1> QED
  BY <1>1, <1>2, <1>3, <1>4, <1>5, <1>6, <1>7, <1>8, <1>9, <1>10 DEF ReclaimInv

LEMMA ReadCheckKeeps ==
  ASSUME ReclaimInv, NEW c \in Clients, ReadCheck(c)
  PROVE  ReclaimInv'
<1>0. InGarbage' = InGarbage /\ Listed' = Listed
  BY DEF ReadCheck, gcVars, InGarbage, Waiting, Listed
<1>1. ReclaimTypes'
  <2>1. MayUse(c) => loaded[c] \in Objects
    BY DEF ReadCheck, Loads, ReclaimInv, ReclaimTypes
  <2>2. held' \in [Clients -> SUBSET Objects]
    <3>1. CASE MayUse(c)
      <4>1. held[c] \cup {loaded[c]} \in SUBSET Objects
        BY <2>1, <3>1 DEF ReclaimInv, ReclaimTypes
      <4>2. held' = [held EXCEPT ![c] = held[c] \cup {loaded[c]}]
        BY <3>1 DEF ReadCheck
      <4> QED
        BY <4>1, <4>2 DEF ReclaimInv, ReclaimTypes
    <3>2. CASE ~MayUse(c)
      BY <3>2 DEF ReadCheck, ReclaimInv, ReclaimTypes
    <3> QED
      BY <3>1, <3>2
  <2> QED
    BY <2>2 DEF ReadCheck, lockVars, gcVars, Places, ReclaimInv, ReclaimTypes
<1>2. Times'
  BY DEF ReclaimInv, ReadCheck, lockVars, Times
<1>3. Starts'
  BY DEF ReclaimInv, ReadCheck, ReclaimTypes, Starts
<1>4. Owners'
  BY DEF ReclaimInv, ReadCheck, lockVars, ReclaimTypes, Owners
<1>5. Collections'
  BY DEF ReclaimInv, ReadCheck, gcVars, ReclaimTypes, Collections
<1>6. Pointed'
  BY <1>0 DEF ReclaimInv, ReadCheck, lockVars, ReclaimTypes, Pointed
<1>7. Backups'
  <2>1. \A d \in Clients : HasBackup(d)' => HasBackup(d) /\ backup'[d] = backup[d]
    BY DEF ReadCheck, lockVars, ReclaimInv, ReclaimTypes, HasBackup, Writing
  <2>2. pointer' = pointer /\ memory' = memory
    BY DEF ReadCheck, lockVars
  <2> QED
    BY <1>0, <2>1, <2>2 DEF ReclaimInv, Backups
<1>8. Loads'
  BY DEF ReclaimInv, ReadCheck, lockVars, ReclaimTypes, Loads, MayUse
<1>9. Clean'
  BY ReclaimAssumption
  DEF ReclaimInv, ReadCheck, lockVars, ReclaimTypes, Clean, MayUse, Uses, Writing
<1>10. Lists' /\ Holds' /\ Scans'
  <2>1. UNCHANGED <<garbage, freeList, gcVars>>
    BY DEF ReadCheck
  <2>2. memory \subseteq memory'
    BY DEF ReadCheck
  <2>3. \A d \in Clients : Uses(d)' =>
            \/ held'[d] = {}
            \/ /\ Uses(d) /\ started'[d] = started[d]
               /\ held'[d] \subseteq held[d] \cup {pointer}
    BY DEF ReadCheck, ReclaimInv, ReclaimTypes, Loads, Uses
  <2>4. \A d \in Clients : HasEnd(d)' =>
            /\ backup'[d] = backup[d] /\ HasBackup(d)
            /\ endOf'[d] \in Nat
            /\ (HasEnd(d) /\ endOf'[d] = endOf[d]) \/ now < endOf'[d]
    BY DEF ReadCheck, ReclaimInv, ReclaimTypes, Owners, HasEnd, HasBackup, Writing
  <2>5. \A p \in Clients : gcAt[p] = "scan" => started'[p] = started[p]
    BY DEF ReadCheck
  <2> QED
    BY <2>1, <2>2, <2>3, <2>4, <2>5, NothingReleased
<1> QED
  BY <1>1, <1>2, <1>3, <1>4, <1>5, <1>6, <1>7, <1>8, <1>9, <1>10 DEF ReclaimInv

LEMMA WriteObjectKeeps ==
  ASSUME ReclaimInv, NEW c \in Clients, WriteObject(c)
  PROVE  ReclaimInv'
<1>0. InGarbage' = InGarbage /\ Listed' = Listed
  BY DEF WriteObject, gcVars, InGarbage, Waiting, Listed
<1>1. ReclaimTypes'
  BY DEF ReclaimInv, WriteObject, gcVars, ReclaimTypes
<1>2. Times'
  BY DEF ReclaimInv, WriteObject, Times
<1>3. Starts'
  BY DEF ReclaimInv, WriteObject, Starts
<1>4. Owners'
  BY ReclaimAssumption DEF ReclaimInv, WriteObject, Owners
<1>5. Collections'
  BY DEF ReclaimInv, WriteObject, gcVars, Collections
<1>6. Pointed'
  BY <1>0 DEF ReclaimInv, WriteObject, Pointed
<1>7. Backups'
  BY <1>0 DEF ReclaimInv, WriteObject, ReclaimTypes, Pointed, Backups, HasBackup, Writing
<1>8. Loads'
  BY ReclaimAssumption DEF ReclaimInv, WriteObject, Loads, Owners, MayUse
<1>9. Clean'
  <2> SUFFICES ASSUME NEW d \in Clients, NEW e \in Clients, Uses(d)', Writing(e)', d # e
               PROVE  pointer' \notin held'[d]
    BY DEF Clean
  <2>1. e = c /\ Uses(d)
    BY DEF WriteObject, Uses, Writing
  <2>2. held[d] \subseteq memory
    BY <2>1 DEF ReclaimInv, Holds
  <2> QED
    BY <2>2 DEF WriteObject
<1>10. Lists' /\ Holds' /\ Scans'
  <2>1. UNCHANGED <<garbage, freeList, gcVars>>
    BY DEF WriteObject
  <2>2. memory \subseteq memory'
    BY DEF WriteObject
  <2>3. \A d \in Clients : Uses(d)' =>
            \/ held'[d] = {}
            \/ /\ Uses(d) /\ started'[d] = started[d]
               /\ held'[d] \subseteq held[d] \cup {pointer}
    BY DEF WriteObject, Uses
  <2>4. \A d \in Clients : HasEnd(d)' =>
            /\ backup'[d] = backup[d] /\ HasBackup(d)
            /\ endOf'[d] \in Nat
            /\ (HasEnd(d) /\ endOf'[d] = endOf[d]) \/ now < endOf'[d]
    BY DEF WriteObject, ReclaimInv, ReclaimTypes, Owners, HasEnd, HasBackup, Writing
  <2>5. \A p \in Clients : gcAt[p] = "scan" => started'[p] = started[p]
    BY DEF WriteObject
  <2> QED
    BY <2>1, <2>2, <2>3, <2>4, <2>5, NothingReleased
<1> QED
  BY <1>1, <1>2, <1>3, <1>4, <1>5, <1>6, <1>7, <1>8, <1>9, <1>10 DEF ReclaimInv

LEMMA EndReadingKeeps ==
  ASSUME ReclaimInv, NEW c \in Clients, EndReading(c)
  PROVE  ReclaimInv'
<1>0. InGarbage' = InGarbage /\ Listed' = Listed
  BY DEF EndReading, gcVars, InGarbage, Waiting, Listed
<1>1. ReclaimTypes'
  <2>1. now' \in Nat
    BY DEF EndReading, ReclaimInv, ReclaimTypes
  <2>2. at' \in [Clients -> Places]
    BY <2>1 DEF EndReading, Walk, ReclaimInv, ReclaimTypes, Places
  <2> QED
    BY <2>1, <2>2 DEF EndReading, lockVars, gcVars, ReclaimInv, ReclaimTypes
<1>2. Times'
  <2>1. now \in Nat /\ now' \in Nat /\ now <= now'
    BY DEF EndReading, ReclaimInv, ReclaimTypes
  <2>2. 0 < now' /\ version' <= now'
    BY <2>1 DEF EndReading, lockVars, ReclaimInv, ReclaimTypes, Times
  <2>3. ASSUME NEW d \in Clients
        PROVE  readClock'[d] <= now' /\ started'[d] <= now' /\ endOf'[d] <= now'
    BY <2>1 DEF EndReading, ReclaimInv, ReclaimTypes, Times
  <2> QED
    BY <2>2, <2>3 DEF Times
<1>3. Starts'
  BY DEF ReclaimInv, EndReading, Walk, Starts
<1>4. Owners'
  BY DEF ReclaimInv, EndReading, Walk, lockVars, Owners
<1>5. Collections'
  BY DEF ReclaimInv, EndReading, Walk, gcVars, Collections
<1>6. Pointed'
  BY <1>0 DEF ReclaimInv, EndReading, Walk, lockVars, ReclaimTypes, Pointed
<1>7. Backups'
  BY <1>0
  DEF ReclaimInv, EndReading, Walk, lockVars, ReclaimTypes, Backups, HasBackup, Writing
<1>8. Loads'
  BY DEF ReclaimInv, EndReading, Walk, lockVars, Loads, MayUse
<1>9. Clean'
  BY DEF ReclaimInv, EndReading, Walk, lockVars, Clean, Uses, Writing
<1>10. Lists' /\ Holds' /\ Scans'
  <2>1. UNCHANGED <<garbage, freeList, gcVars>>
    BY DEF EndReading
  <2>2. memory \subseteq memory'
    BY DEF EndReading
  <2>3. \A d \in Clients : Uses(d)' =>
            \/ held'[d] = {}
            \/ /\ Uses(d) /\ started'[d] = started[d]
               /\ held'[d] \subseteq held[d] \cup {pointer}
    BY DEF EndReading, Walk, Uses
  <2>4. \A d \in Clients : HasEnd(d)' =>
            /\ backup'[d] = backup[d] /\ HasBackup(d)
            /\ endOf'[d] \in Nat
            /\ (HasEnd(d) /\ endOf'[d] = endOf[d]) \/ now < endOf'[d]
    BY DEF EndReading, Walk, ReclaimInv, ReclaimTypes, Owners, HasEnd, HasBackup, Writing
  <2>5. \A p \in Clients : gcAt[p] = "scan" => started'[p] = started[p]
    BY DEF EndReading
  <2> QED
    BY <2>1, <2>2, <2>3, <2>4, <2>5, NothingReleased
<1> QED
  BY <1>1, <1>2, <1>3, <1>4, <1>5, <1>6, <1>7, <1>8, <1>9, <1>10 DEF ReclaimInv

LEMMA CommitTickKeeps ==
  ASSUME ReclaimInv, NEW c \in Clients, CommitTick(c)
  PROVE  ReclaimInv'
<1>0. InGarbage' = InGarbage /\ Listed' = Listed
  BY DEF CommitTick, gcVars, InGarbage, Waiting, Listed
<1>1. ReclaimTypes'
  <2>1. now' \in Nat
    BY DEF CommitTick, ReclaimInv, ReclaimTypes
  <2>2. at' \in [Clients -> Places] /\ endOf' \in [Clients -> Nat]
    BY <2>1 DEF CommitTick, Walk, ReclaimInv, ReclaimTypes, Places
  <2> QED
    BY <2>1, <2>2 DEF CommitTick, lockVars, gcVars, ReclaimInv, ReclaimTypes
<1>2. Times'
  <2>1. now \in Nat /\ now' \in Nat /\ now <= now'
    BY DEF CommitTick, ReclaimInv, ReclaimTypes
  <2>2. 0 < now' /\ version' <= now'
    BY <2>1 DEF CommitTick, lockVars, ReclaimInv, ReclaimTypes, Times
  <2>3. ASSUME NEW d \in Clients
        PROVE  readClock'[d] <= now' /\ started'[d] <= now' /\ endOf'[d] <= now'
    BY <2>1 DEF CommitTick, ReclaimInv, ReclaimTypes, Times
  <2> QED
    BY <2>2, <2>3 DEF Times
<1>3. Starts'
  BY DEF ReclaimInv, CommitTick, Walk, Starts
<1>4. Owners'
  BY DEF ReclaimInv, CommitTick, Walk, lockVars, Owners
<1>5. Collections'
  BY DEF ReclaimInv, CommitTick, Walk, gcVars, Collections
<1>6. Pointed'
  BY <1>0 DEF ReclaimInv, CommitTick, Walk, lockVars, ReclaimTypes, Pointed
<1>7. Backups'
  BY <1>0
  DEF ReclaimInv, CommitTick, Walk, lockVars, ReclaimTypes, Backups, HasBackup, Writing
<1>8. Loads'
  <2> SUFFICES ASSUME NEW d \in Clients, at'[d] = "check"
               PROVE  /\ MayUse(d)' => loaded'[d] = pointer'
                      /\ \A e \in Clients :
                           at'[e] = "unlock" /\ endOf'[e] <= started'[d] => loaded'[d] = pointer'
    BY DEF Loads
  <2>1. /\ d # c /\ at[d] = "check" /\ started'[d] = started[d]
        /\ loaded'[d] = loaded[d] /\ pointer' = pointer
    BY DEF CommitTick, Walk, lockVars, ReclaimInv, ReclaimTypes
  <2>2. started[d] <= now /\ started[d] \in Nat /\ now \in Nat
    BY <2>1 DEF ReclaimInv, ReclaimTypes, Times
  <2>3. MayUse(d)' => loaded[d] = pointer
    BY <2>1, ReclaimAssumption DEF CommitTick, lockVars, MayUse
  <2>4. ASSUME NEW e \in Clients, at'[e] = "unlock", endOf'[e] <= started'[d]
        PROVE  loaded[d] = pointer
    BY <2>1, <2>2, <2>4 DEF CommitTick, Walk, ReclaimInv, Loads, ReclaimTypes
  <2> QED
    BY <2>1, <2>3, <2>4
<1>9. Clean'
  BY DEF ReclaimInv, CommitTick, Walk, lockVars, Clean, Uses, Writing
<1>10. Lists' /\ Holds' /\ Scans'
  <2>1. UNCHANGED <<garbage, freeList, gcVars>>
    BY DEF CommitTick
  <2>2. memory \subseteq memory'
    BY DEF CommitTick
  <2>3. \A d \in Clients : Uses(d)' =>
            \/ held'[d] = {}
            \/ /\ Uses(d) /\ started'[d] = started[d]
               /\ held'[d] \subseteq held[d] \cup {pointer}
    BY DEF CommitTick, Walk, Uses
  <2>4. \A d \in Clients : HasEnd(d)' =>
            /\ backup'[d] = backup[d] /\ HasBackup(d)
            /\ endOf'[d] \in Nat
            /\ (HasEnd(d) /\ endOf'[d] = endOf[d]) \/ now < endOf'[d]
    <3> SUFFICES ASSUME NEW d \in Clients, HasEnd(d)'
                 PROVE  /\ backup'[d] = backup[d] /\ HasBackup(d)
                        /\ endOf'[d] \in Nat
                        /\ (HasEnd(d) /\ endOf'[d] = endOf[d]) \/ now < endOf'[d]
      OBVIOUS
    <3>1. CASE d = c
      BY <3>1 DEF CommitTick, Walk, ReclaimInv, ReclaimTypes, Owners, HasBackup, Writing
    <3>2. CASE d # c
      BY <3>2 DEF CommitTick, Walk, ReclaimInv, ReclaimTypes, Owners, HasEnd, HasBackup
    <3> QED
      BY <3>1, <3>2
  <2>5. \A p \in Clients : gcAt[p] = "scan" => started'[p] = started[p]
    BY DEF CommitTick
  <2> QED
    BY <2>1, <2>2, <2>3, <2>4, <2>5, NothingReleased
<1> QED
  BY <1>1, <1>2, <1>3, <1>4, <1>5, <1>6, <1>7, <1>8, <1>9, <1>10 DEF ReclaimInv

LEMMA CommitUnlockKeeps ==
  ASSUME ReclaimInv, NEW c \in Clients, CommitUnlock(c)
  PROVE  ReclaimInv'
<1>0. InGarbage' = InGarbage /\ Listed' = Listed
  BY DEF CommitUnlock, gcVars, InGarbage, Waiting, Listed
<1>1. ReclaimTypes'
  BY DEF ReclaimInv, CommitUnlock, Walk, gcVars, Places, ReclaimTypes
<1>2. Times'
  BY DEF ReclaimInv, CommitUnlock, Times
<1>3. Starts'
  BY DEF ReclaimInv, CommitUnlock, Walk, ReclaimTypes, Starts
<1>4. Owners'
  BY DEF ReclaimInv, CommitUnlock, Walk, ReclaimTypes, Owners
<1>5. Collections'
  BY DEF ReclaimInv, CommitUnlock, Walk, gcVars, ReclaimTypes, Collections
<1>6. Pointed'
  BY <1>0, ReclaimAssumption DEF ReclaimInv, CommitUnlock, Pointed
<1>7. Backups'
  BY ZenonT(60), <1>0, ReclaimAssumption
  DEF ReclaimInv, CommitUnlock, Walk, ReclaimTypes, Backups, Owners, HasBackup, Writing
<1>8. Loads'
  BY ReclaimAssumption DEF ReclaimInv, CommitUnlock, Walk, ReclaimTypes, Loads, MayUse
<1>9. Clean'
  BY ReclaimAssumption DEF CommitUnlock, Clean, Writing
<1>10. Lists' /\ Holds' /\ Scans'
  <2>1. UNCHANGED <<garbage, freeList, gcVars>>
    BY DEF CommitUnlock
  <2>2. memory \subseteq memory'
    BY DEF CommitUnlock
  <2>3. \A d \in Clients : Uses(d)' =>
            \/ held'[d] = {}
            \/ /\ Uses(d) /\ started'[d] = started[d]
               /\ held'[d] \subseteq held[d] \cup {pointer}
    BY DEF CommitUnlock, Walk, ReclaimInv, ReclaimTypes, Uses
  <2>4. \A d \in Clients : HasEnd(d)' =>
            /\ backup'[d] = backup[d] /\ HasBackup(d)
            /\ endOf'[d] \in Nat
            /\ (HasEnd(d) /\ endOf'[d] = endOf[d]) \/ now < endOf'[d]
    BY DEF CommitUnlock, Walk, ReclaimInv, ReclaimTypes, Owners, HasEnd, HasBackup, Writing
  <2>5. \A p \in Clients : gcAt[p] = "scan" => started'[p] = started[p]
    BY DEF CommitUnlock
  <2> QED
    BY <2>1, <2>2, <2>3, <2>4, <2>5, NothingReleased
<1> QED
  BY <1>1, <1>2, <1>3, <1>4, <1>5, <1>6, <1>7, <1>8, <1>9, <1>10 DEF ReclaimInv

LEMMA AbortKeeps ==
  ASSUME ReclaimInv, NEW c \in Clients, Abort(c)
  PROVE  ReclaimInv'
<1>0. InGarbage' = InGarbage /\ Listed' = Listed
  BY DEF Abort, gcVars, InGarbage, Waiting, Listed
<1>1. ReclaimTypes'
  BY DEF ReclaimInv, Abort, Walk, lockVars, gcVars, Places, ReclaimTypes
<1>2. Times'
  BY DEF ReclaimInv, Abort, lockVars, Times
<1>3. Starts'
  BY DEF ReclaimInv, Abort, Walk, Starts
<1>4. Owners'
  BY DEF ReclaimInv, Abort, Walk, lockVars, Owners
<1>5. Collections'
  BY DEF ReclaimInv, Abort, Walk, gcVars, Collections
<1>6. Pointed'
  BY <1>0 DEF ReclaimInv, Abort, Walk, lockVars, ReclaimTypes, Pointed
<1>7. Backups'
  BY ZenonT(60), <1>0 DEF ReclaimInv, Abort, Walk, lockVars, ReclaimTypes, Backups, HasBackup, Writing
<1>8. Loads'
  BY DEF ReclaimInv, Abort, Walk, lockVars, Loads, MayUse
<1>9. Clean'
  BY DEF ReclaimInv, Abort, Walk, lockVars, Clean, Uses, Writing
<1>10. Lists' /\ Holds' /\ Scans'
  <2>1. UNCHANGED <<garbage, freeList, gcVars>>
    BY DEF Abort
  <2>2. memory \subseteq memory'
    BY DEF Abort
  <2>3. \A d \in Clients : Uses(d)' =>
            \/ held'[d] = {}
            \/ /\ Uses(d) /\ started'[d] = started[d]
               /\ held'[d] \subseteq held[d] \cup {pointer}
    BY DEF Abort, Walk, Uses
  <2>4. \A d \in Clients : HasEnd(d)' =>
            /\ backup'[d] = backup[d] /\ HasBackup(d)
            /\ endOf'[d] \in Nat
            /\ (HasEnd(d) /\ endOf'[d] = endOf[d]) \/ now < endOf'[d]
    BY DEF Abort, Walk, ReclaimInv, ReclaimTypes, Owners, HasEnd, HasBackup, Writing
  <2>5. \A p \in Clients : gcAt[p] = "scan" => started'[p] = started[p]
    BY DEF Abort
  <2> QED
    BY <2>1, <2>2, <2>3, <2>4, <2>5, NothingReleased
<1> QED
  BY <1>1, <1>2, <1>3, <1>4, <1>5, <1>6, <1>7, <1>8, <1>9, <1>10 DEF ReclaimInv

LEMMA RollbackKeeps ==
  ASSUME ReclaimInv, NEW c \in Clients, Rollback(c), owner # c
  PROVE  ReclaimInv'
<1>0. InGarbage' = InGarbage /\ Listed' = Listed
  BY DEF Rollback, gcVars, InGarbage, Waiting, Listed
<1>1. ReclaimTypes'
  BY DEF ReclaimInv, Rollback, Walk, gcVars, Places, ReclaimTypes
<1>2. Times'
  BY DEF ReclaimInv, Rollback, Times
<1>3. Starts'
  BY DEF ReclaimInv, Rollback, Walk, Starts
<1>4. Owners'
  BY DEF ReclaimInv, Rollback, Walk, Owners
<1>5. Collections'
  BY DEF ReclaimInv, Rollback, Walk, gcVars, Collections
<1>6. Pointed'
  BY <1>0 DEF ReclaimInv, Rollback, Walk, ReclaimTypes, Pointed
<1>7. Backups'
  BY <1>0 DEF ReclaimInv, Rollback, Walk, ReclaimTypes, Backups, HasBackup, Writing
<1>8. Loads'
  BY DEF ReclaimInv, Rollback, Walk, Loads, MayUse
<1>9. Clean'
  BY DEF ReclaimInv, Rollback, Walk, Clean, Uses, Writing
<1>10. Lists' /\ Holds' /\ Scans'
  <2>1. UNCHANGED <<garbage, freeList, gcVars>>
    BY DEF Rollback
  <2>2. memory \subseteq memory'
    BY DEF Rollback
  <2>3. \A d \in Clients : Uses(d)' =>
            \/ held'[d] = {}
            \/ /\ Uses(d) /\ started'[d] = started[d]
               /\ held'[d] \subseteq held[d] \cup {pointer}
    BY DEF Rollback, Walk, Uses
  <2>4. \A d \in Clients : HasEnd(d)' =>
            /\ backup'[d] = backup[d] /\ HasBackup(d)
            /\ endOf'[d] \in Nat
            /\ (HasEnd(d) /\ endOf'[d] = endOf[d]) \/ now < endOf'[d]
    BY DEF Rollback, Walk, ReclaimInv, ReclaimTypes, Owners, HasEnd, HasBackup, Writing
  <2>5. \A p \in Clients : gcAt[p] = "scan" => started'[p] = started[p]
    BY DEF Rollback
  <2> QED
    BY <2>1, <2>2, <2>3, <2>4, <2>5, NothingReleased
<1> QED
  BY <1>1, <1>2, <1>3, <1>4, <1>5, <1>6, <1>7, <1>8, <1>9, <1>10 DEF ReclaimInv

LEMMA AbortUnlockKeeps ==
  ASSUME ReclaimInv, NEW c \in Clients, AbortUnlock(c)
  PROVE  ReclaimInv'
<1>0. InGarbage' = InGarbage /\ Listed' = Listed
  BY DEF AbortUnlock, gcVars, InGarbage, Waiting, Listed
<1>1. ReclaimTypes'
  <2>1. now' \in Nat
    BY DEF AbortUnlock, ReclaimInv, ReclaimTypes
  <2>2. at' \in [Clients -> Places] /\ version' \in Nat /\ owner' \in Clients \cup {NoClient}
    BY <2>1 DEF AbortUnlock, Walk, ReclaimInv, ReclaimTypes, Places
  <2> QED
    BY <2>1, <2>2 DEF AbortUnlock, lockVars, gcVars, ReclaimInv, ReclaimTypes
<1>2. Times'
  <2>1. now \in Nat /\ now' \in Nat /\ now <= now'
    BY DEF AbortUnlock, ReclaimInv, ReclaimTypes
  <2>2. 0 < now' /\ version' <= now'
    BY <2>1 DEF AbortUnlock, lockVars, ReclaimInv, ReclaimTypes, Times
  <2>3. ASSUME NEW d \in Clients
        PROVE  readClock'[d] <= now' /\ started'[d] <= now' /\ endOf'[d] <= now'
    BY <2>1 DEF AbortUnlock, ReclaimInv, ReclaimTypes, Times
  <2> QED
    BY <2>2, <2>3 DEF Times
<1>3. Starts'
  BY DEF ReclaimInv, AbortUnlock, Walk, Starts
<1>4. Owners'
  BY DEF ReclaimInv, AbortUnlock, Walk, Owners
<1>5. Collections'
  BY DEF ReclaimInv, AbortUnlock, Walk, gcVars, Collections
<1>6. Pointed'
  BY <1>0, ReclaimAssumption DEF ReclaimInv, AbortUnlock, Walk, ReclaimTypes, Pointed
<1>7. Backups'
  <2>1. \A d \in Clients : HasBackup(d)' => HasBackup(d) /\ backup'[d] = backup[d]
    BY ReclaimAssumption DEF AbortUnlock, Walk, ReclaimInv, ReclaimTypes, HasBackup, Writing
  <2>2. pointer' = pointer /\ memory' = memory
    BY DEF AbortUnlock, lockVars
  <2> QED
    BY <1>0, <2>1, <2>2 DEF ReclaimInv, Backups
<1>8. Loads'
  <2> SUFFICES ASSUME NEW d \in Clients, at'[d] = "check"
               PROVE  /\ MayUse(d)' => loaded'[d] = pointer'
                      /\ \A e \in Clients :
                           at'[e] = "unlock" /\ endOf'[e] <= started'[d] => loaded'[d] = pointer'
    BY DEF Loads
  <2>1. /\ d # c /\ at[d] = "check" /\ started'[d] = started[d]
        /\ loaded'[d] = loaded[d] /\ pointer' = pointer
    BY DEF AbortUnlock, Walk, lockVars, ReclaimInv, ReclaimTypes
  <2>2. started[d] <= now /\ started[d] \in Nat /\ now \in Nat
    BY <2>1 DEF ReclaimInv, ReclaimTypes, Times
  <2>3. MayUse(d)' => loaded[d] = pointer
    BY <2>1, <2>2, ReclaimAssumption DEF AbortUnlock, ReclaimInv, Loads, MayUse
  <2>4. ASSUME NEW e \in Clients, at'[e] = "unlock", endOf'[e] <= started'[d]
        PROVE  loaded[d] = pointer
    BY <2>1, <2>2, <2>4 DEF AbortUnlock, Walk, ReclaimInv, Loads, ReclaimTypes
  <2> QED
    BY <2>1, <2>3, <2>4
<1>9. Clean'
  BY ReclaimAssumption DEF ReclaimInv, AbortUnlock, Walk, Clean, Uses, Writing
<1>10. Lists' /\ Holds' /\ Scans'
  <2>1. UNCHANGED <<garbage, freeList, gcVars>>
    BY DEF AbortUnlock
  <2>2. memory \subseteq memory'
    BY DEF AbortUnlock
  <2>3. \A d \in Clients : Uses(d)' =>
            \/ held'[d] = {}
            \/ /\ Uses(d) /\ started'[d] = started[d]
               /\ held'[d] \subseteq held[d] \cup {pointer}
    BY DEF AbortUnlock, Walk, Uses
  <2>4. \A d \in Clients : HasEnd(d)' =>
            /\ backup'[d] = backup[d] /\ HasBackup(d)
            /\ endOf'[d] \in Nat
            /\ (HasEnd(d) /\ endOf'[d] = endOf[d]) \/ now < endOf'[d]
    BY DEF AbortUnlock, Walk, ReclaimInv, ReclaimTypes, Owners, HasEnd, HasBackup, Writing
  <2>5. \A p \in Clients : gcAt[p] = "scan" => started'[p] = started[p]
    BY DEF AbortUnlock
  <2> QED
    BY <2>1, <2>2, <2>3, <2>4, <2>5, NothingReleased
<1> QED
  BY <1>1, <1>2, <1>3, <1>4, <1>5, <1>6, <1>7, <1>8, <1>9, <1>10 DEF ReclaimInv

LEMMA CleanUpKeeps ==
  ASSUME ReclaimInv, NEW c \in Clients, CleanUp(c)
  PROVE  ReclaimInv'
<1>0. InGarbage' = InGarbage /\ Listed' = Listed
  BY DEF CleanUp, gcVars, InGarbage, Waiting, Listed
<1>1. ReclaimTypes'
  BY DEF ReclaimInv, CleanUp, Walk, lockVars, gcVars, Places, ReclaimTypes
<1>2. Times'
  <2>1. now \in Nat /\ now' \in Nat /\ now <= now'
    BY DEF CleanUp, ReclaimInv, ReclaimTypes
  <2>2. 0 < now' /\ version' <= now'
    BY <2>1 DEF CleanUp, lockVars, ReclaimInv, ReclaimTypes, Times
  <2>3. ASSUME NEW d \in Clients
        PROVE  readClock'[d] <= now' /\ started'[d] <= now' /\ endOf'[d] <= now'
    BY <2>1 DEF CleanUp, ReclaimInv, ReclaimTypes, Times
  <2> QED
    BY <2>2, <2>3 DEF Times
<1>3. Starts'
  BY DEF ReclaimInv, CleanUp, Walk, ReclaimTypes, Starts
<1>4. Owners'
  BY DEF ReclaimInv, CleanUp, Walk, lockVars, Owners
<1>5. Collections'
  BY DEF ReclaimInv, CleanUp, Walk, gcVars, Collections
<1>6. Pointed'
  BY <1>0 DEF ReclaimInv, CleanUp, Walk, lockVars, ReclaimTypes, Pointed
<1>7. Backups'
  BY <1>0 DEF ReclaimInv, CleanUp, Walk, lockVars, ReclaimTypes, Backups, HasBackup, Writing
<1>8. Loads'
  BY DEF ReclaimInv, CleanUp, Walk, lockVars, Loads, MayUse
<1>9. Clean'
  BY DEF ReclaimInv, CleanUp, Walk, lockVars, Clean, Uses, Writing
<1>10. Lists' /\ Holds' /\ Scans'
  <2>1. UNCHANGED <<garbage, freeList, gcVars>>
    BY DEF CleanUp
  <2>2. memory \subseteq memory'
    BY DEF CleanUp
  <2>3. \A d \in Clients : Uses(d)' =>
            \/ held'[d] = {}
            \/ /\ Uses(d) /\ started'[d] = started[d]
               /\ held'[d] \subseteq held[d] \cup {pointer}
    BY DEF CleanUp, Walk, Uses
  <2>4. \A d \in Clients : HasEnd(d)' =>
            /\ backup'[d] = backup[d] /\ HasBackup(d)
            /\ endOf'[d] \in Nat
            /\ (HasEnd(d) /\ endOf'[d] = endOf[d]) \/ now < endOf'[d]
    BY DEF CleanUp, Walk, ReclaimInv, ReclaimTypes, Owners, HasEnd, HasBackup, Writing
  <2>5. \A p \in Clients : gcAt[p] = "scan" => started'[p] = started[p]
    BY DEF CleanUp, Walk, ReclaimInv, Collections
  <2> QED
    BY <2>1, <2>2, <2>3, <2>4, <2>5, NothingReleased
<1> QED
  BY <1>1, <1>2, <1>3, <1>4, <1>5, <1>6, <1>7, <1>8, <1>9, <1>10 DEF ReclaimInv

-----------------------------------------------------------------------------
(* Steps that move items *)

(* The items of a sequence after one was added or taken. *)
LEMMA ItemsOf ==
  ASSUME NEW S, NEW s \in Seq(S)
  PROVE  /\ \A x \in S : {Append(s, x)[k] : k \in 1..Len(Append(s, x))}
                           = {s[k] : k \in 1..Len(s)} \cup {x}
         /\ s # <<>> => {s[k] : k \in 1..Len(s)}
                           = {Tail(s)[k] : k \in 1..Len(Tail(s))} \cup {Head(s)}
<1>1. Len(s) \in Nat
  OBVIOUS
<1>2. ASSUME NEW x \in S
      PROVE  {Append(s, x)[k] : k \in 1..Len(Append(s, x))} = {s[k] : k \in 1..Len(s)} \cup {x}
  <2>1. /\ Len(Append(s, x)) = Len(s) + 1
        /\ \A k \in 1..Len(s) : Append(s, x)[k] = s[k]
        /\ Append(s, x)[Len(s) + 1] = x
    OBVIOUS
  <2>2. 1..Len(s) + 1 = 1..Len(s) \cup {Len(s) + 1}
    BY <1>1
  <2> QED
    BY <2>1, <2>2, Zenon
<1>3. ASSUME s # <<>>
      PROVE  {s[k] : k \in 1..Len(s)} = {Tail(s)[k] : k \in 1..Len(Tail(s))} \cup {Head(s)}
  <2>1. /\ Len(s) # 0 /\ Len(Tail(s)) = Len(s) - 1
        /\ \A k \in 1..Len(s) - 1 : Tail(s)[k] = s[k + 1]
        /\ Head(s) = s[1]
    BY <1>3
  <2>2. ASSUME NEW k \in 1..Len(s) PROVE s[k] \in {Tail(s)[j] : j \in 1..Len(Tail(s))} \cup {Head(s)}
    <3>1. CASE k = 1
      BY <2>1, <3>1
    <3>2. CASE k # 1
      <4>1. k - 1 \in 1..Len(Tail(s)) /\ Tail(s)[k - 1] = s[k]
        BY <1>1, <2>1, <3>2
      <4> QED
        BY <4>1
    <3> QED
      BY <3>1, <3>2
  <2>3. ASSUME NEW k \in 1..Len(Tail(s)) PROVE Tail(s)[k] \in {s[j] : j \in 1..Len(s)}
    BY <1>1, <2>1
  <2>4. Head(s) \in {s[j] : j \in 1..Len(s)}
    BY <1>1, <2>1
  <2> QED
    BY <2>2, <2>3, <2>4
<1> QED
  BY <1>2, <1>3

LEMMA CommitHandOverKeeps ==
  ASSUME ReclaimInv, NEW c \in Clients, CommitHandOver(c)
  PROVE  ReclaimInv'
<1> DEFINE item == <<backup[c], endOf[c]>>
<1>1. HasEnd(c) /\ HasBackup(c) /\ at[c] = "hand over"
  BY DEF CommitHandOver, Walk, HasEnd, HasBackup
<1>2. item \in Objects \X Nat /\ item[1] = backup[c] /\ item[2] = endOf[c]
  BY <1>1 DEF ReclaimInv, ReclaimTypes, Backups
<1>3. garbage \in Seq(Objects \X Nat) /\ garbage' = Append(garbage, item)
  BY DEF CommitHandOver, ReclaimInv, ReclaimTypes
<1> HIDE DEF item
<1>4. InGarbage' = InGarbage \cup {item} /\ Waiting' = Waiting /\ Listed' = Listed \cup {item}
  <2>1. InGarbage' = InGarbage \cup {item}
    BY <1>2, <1>3, ItemsOf DEF InGarbage
  <2> QED
    BY <2>1 DEF CommitHandOver, gcVars, Waiting, Listed
<1>5. item \notin Listed /\ \A x \in Listed : x[1] # item[1]
  BY <1>1, <1>2 DEF ReclaimInv, Backups
<1>6. ReclaimTypes'
  <2>1. garbage' \in Seq(Objects \X Nat)
    BY <1>2, <1>3
  <2>2. at' \in [Clients -> Places] /\ endOf' \in [Clients -> Nat]
    BY DEF CommitHandOver, Walk, Places, ReclaimInv, ReclaimTypes
  <2> QED
    BY <2>1, <2>2 DEF CommitHandOver, lockVars, gcVars, ReclaimInv, ReclaimTypes
<1>7. Times' /\ Starts' /\ Owners' /\ Collections'
  <2>1. Times'
    <3>1. ASSUME NEW d \in Clients PROVE endOf'[d] <= now
      <4>1. endOf'[d] = (IF d = c THEN 0 ELSE endOf[d]) /\ now \in Nat
        BY DEF CommitHandOver, ReclaimInv, ReclaimTypes
      <4> QED
        BY <4>1 DEF ReclaimInv, Times
    <3> QED
      BY <3>1 DEF CommitHandOver, lockVars, ReclaimInv, Times
  <2>2. Starts'
    BY DEF CommitHandOver, Walk, ReclaimInv, ReclaimTypes, Starts
  <2>3. Owners'
    BY ReclaimAssumption
    DEF CommitHandOver, Walk, lockVars, ReclaimInv, ReclaimTypes, Owners
  <2>4. Collections'
    BY DEF CommitHandOver, Walk, gcVars, ReclaimInv, ReclaimTypes, Collections
  <2> QED
    BY <2>1, <2>2, <2>3, <2>4
<1>8. Lists'
  <2>1. \A x, y \in Listed' : x[1] = y[1] => x = y
    BY <1>4, <1>5 DEF ReclaimInv, Lists
  <2>2. freeList' = freeList /\ gcList' = gcList
    BY DEF CommitHandOver, gcVars
  <2>3. item \notin freeList /\ \A p \in Collectors : item \notin gcList[p]
    BY <1>5 DEF Listed, Waiting
  <2>4. \A j, k \in 1..Len(garbage') : garbage'[j] = garbage'[k] => j = k
    <3> SUFFICES ASSUME NEW j \in 1..Len(garbage'), NEW k \in 1..Len(garbage'),
                        garbage'[j] = garbage'[k]
                 PROVE  j = k
      OBVIOUS
    <3>1. /\ Len(garbage) \in Nat /\ Len(garbage') = Len(garbage) + 1
          /\ \A i \in 1..Len(garbage) : garbage'[i] = garbage[i]
          /\ garbage'[Len(garbage) + 1] = item
      BY <1>2, <1>3
    <3>2. \A i \in 1..Len(garbage) : garbage[i] # item
      BY <1>5 DEF Listed, InGarbage
    <3>3. \A i, l \in 1..Len(garbage) : garbage[i] = garbage[l] => i = l
      BY DEF ReclaimInv, Lists
    <3> QED
      BY <3>1, <3>2, <3>3
  <2> QED
    BY <1>4, <2>1, <2>2, <2>3, <2>4 DEF ReclaimInv, Lists
<1>9. pointer' = pointer /\ memory' = memory /\ backup' = backup /\ owner' = owner
  BY DEF CommitHandOver, lockVars
<1>10. \A d \in Clients : at'[d] = IF d = c THEN "cleanup" ELSE at[d]
  BY DEF CommitHandOver, Walk, ReclaimInv, ReclaimTypes
<1>11. Pointed'
  <2>1. item[1] \in memory /\ item[1] # pointer
    BY <1>1, <1>2 DEF ReclaimInv, Backups
  <2> QED
    BY <1>4, <1>9, <1>10, <2>1 DEF ReclaimInv, Pointed
<1>12. Backups'
  <2>1. \A d \in Clients : HasBackup(d)' => HasBackup(d) /\ d # c
    BY <1>9, <1>10, <1>1 DEF HasBackup, Writing, ReclaimInv, Owners
  <2> QED
    BY <1>1, <1>2, <1>4, <1>9, <2>1 DEF ReclaimInv, Backups
<1>13. Loads'
  BY <1>9, <1>10 DEF CommitHandOver, lockVars, MayUse, ReclaimInv, ReclaimTypes, Loads
<1>14. Clean'
  BY <1>9, <1>10 DEF CommitHandOver, ReclaimInv, Clean, Uses, Writing
<1>15. \A d \in Clients : Uses(d)' => Uses(d) /\ held'[d] = held[d] /\ started'[d] = started[d]
  BY <1>10 DEF CommitHandOver, Uses
<1>16. \A d \in Clients : HasEnd(d)' => HasEnd(d) /\ endOf'[d] = endOf[d]
  BY <1>10 DEF CommitHandOver, HasEnd, ReclaimInv, ReclaimTypes
<1>17. Holds'
  <2> SUFFICES ASSUME NEW d \in Clients, Uses(d)', NEW o \in held'[d]
               PROVE  /\ o \in memory'
                      /\ \A x \in Listed' : x[1] = o => started'[d] < x[2]
                      /\ \A e \in Clients :
                           HasEnd(e)' /\ backup'[e] = o => started'[d] < endOf'[e]
    BY DEF Holds
  <2>1. Uses(d) /\ o \in held[d] /\ started'[d] = started[d]
    BY <1>15
  <2>2. backup[c] = o => started[d] < endOf[c]
    BY <1>1, <2>1 DEF ReclaimInv, Holds
  <2> QED
    BY <1>2, <1>4, <1>9, <1>16, <2>1, <2>2 DEF ReclaimInv, Holds
<1>18. Scans'
  <2>1. gcAt' = gcAt /\ gcLeft' = gcLeft /\ gcTime' = gcTime /\ gcList' = gcList /\ started' = started
    BY DEF CommitHandOver, gcVars
  <2> SUFFICES ASSUME NEW p \in Collectors, NEW d \in Clients, Uses(d)', NEW o \in held'[d]
               PROVE
                 /\ gcAt[p] = "scan" => \A x \in Waiting : x[1] = o => Spared(p, d, x[2])'
                 /\ gcAt[p] = "scan" /\ p \in Clients =>
                      /\ \A x \in InGarbage' : x[1] = o => Spared(p, d, x[2])'
                      /\ \A e \in Clients : HasEnd(e)' /\ backup'[e] = o => Spared(p, d, endOf[e])'
                 /\ \A x \in gcList[p] : x[1] = o => gcTime[p] < x[2]
    BY <1>4, <2>1 DEF Scans
  <2>3. Uses(d) /\ o \in held[d]
    BY <1>15
  <2>4. \A t : Spared(p, d, t) <=> Spared(p, d, t)'
    BY <2>1 DEF Spared
  <2>5. /\ gcAt[p] = "scan" => \A x \in Waiting : x[1] = o => Spared(p, d, x[2])'
        /\ \A x \in gcList[p] : x[1] = o => gcTime[p] < x[2]
    BY <2>3, <2>4 DEF ReclaimInv, Scans
  <2>6. ASSUME gcAt[p] = "scan", p \in Clients
        PROVE  \A x \in InGarbage' : x[1] = o => Spared(p, d, x[2])'
    <3>1. \A x \in InGarbage : x[1] = o => Spared(p, d, x[2])
      BY <2>3, <2>6 DEF ReclaimInv, Scans
    <3>2. backup[c] = o => Spared(p, d, endOf[c])
      BY <1>1, <2>3, <2>6 DEF ReclaimInv, Scans
    <3> QED
      BY <1>2, <1>4, <2>4, <3>1, <3>2
  <2>7. ASSUME gcAt[p] = "scan", p \in Clients, NEW e \in Clients, HasEnd(e)', backup'[e] = o
        PROVE  Spared(p, d, endOf[e])'
    <3>1. Spared(p, d, endOf[e])
      BY <1>9, <1>16, <2>3, <2>7 DEF ReclaimInv, Scans
    <3> QED
      BY <1>16, <2>1, <2>7, <3>1 DEF Spared
  <2> QED
    BY <2>5, <2>6, <2>7
<1> QED
  BY <1>6, <1>7, <1>8, <1>11, <1>12, <1>13, <1>14, <1>17, <1>18 DEF ReclaimInv


(* A collection of a client or of the service thread that begins has everybody
   still to look at. *)
LEMMA MayCollectKeeps ==
  ASSUME ReclaimTypes, Collections, NEW p \in Collectors, gcAt[p] = "none", MayCollect(p)
  PROVE  /\ gcAt' \in [Collectors -> {"none", "scan", "sweep"}]
         /\ gcLeft' \in [Collectors -> SUBSET Clients]
         /\ gcTime' \in [Collectors -> Nat]
         /\ gcList' = gcList
         /\ gcList[p] = {}
         /\ gcAt'[p] = "none" \/ (gcAt'[p] = "scan" /\ gcLeft'[p] = Clients)
         /\ \A q \in Collectors : q # p =>
              gcAt'[q] = gcAt[q] /\ gcLeft'[q] = gcLeft[q] /\ gcTime'[q] = gcTime[q]
<1>1. Forever \in Nat
  BY ReclaimAssumption DEF Forever
<1>2. gcList[p] = {}
  BY DEF Collections
<1>3. CASE StartCollection(p)
  BY <1>1, <1>2, <1>3 DEF StartCollection, ReclaimTypes
<1>4. CASE UNCHANGED gcVars
  BY <1>2, <1>4 DEF gcVars, ReclaimTypes
<1> QED
  BY <1>3, <1>4 DEF MayCollect

LEMMA RollbackWriteKeeps ==
  ASSUME ReclaimInv, NEW c \in Clients, Rollback(c), owner = c
  PROVE  ReclaimInv'
<1> DEFINE item == <<pointer, now>>
<1>1. at[c] = "abort" /\ Writing(c) /\ HasBackup(c)
  BY DEF Rollback, Walk, Writing, HasBackup
<1>2. item \in Objects \X Nat /\ item[1] = pointer
  BY DEF ReclaimInv, ReclaimTypes
<1>3. pointer' = backup[c] /\ freeList' = freeList \cup {item} /\ MayCollect(c)
  BY DEF Rollback
<1>4. UNCHANGED <<now, started, readClock, version, owner, loaded, held, backup,
                  endOf, garbage, memory>>
  BY DEF Rollback
<1>5. at' \in [Clients -> Places] /\ \A d \in Clients : at'[d] = IF d = c THEN "tick" ELSE at[d]
  BY DEF Rollback, Walk, Places, ReclaimInv, ReclaimTypes
<1> HIDE DEF item
<1>6. c \in Collectors /\ gcAt[c] = "none"
  BY <1>1 DEF ReclaimInv, Collections, Collectors
<1>7. /\ gcAt' \in [Collectors -> {"none", "scan", "sweep"}]
      /\ gcLeft' \in [Collectors -> SUBSET Clients]
      /\ gcTime' \in [Collectors -> Nat]
      /\ gcList' = gcList
      /\ gcList[c] = {}
      /\ gcAt'[c] = "none" \/ (gcAt'[c] = "scan" /\ gcLeft'[c] = Clients)
      /\ \A q \in Collectors : q # c =>
           gcAt'[q] = gcAt[q] /\ gcLeft'[q] = gcLeft[q] /\ gcTime'[q] = gcTime[q]
  BY <1>3, <1>6, MayCollectKeeps DEF ReclaimInv
<1>8. InGarbage' = InGarbage /\ Waiting' = Waiting \cup {item} /\ Listed' = Listed \cup {item}
  BY <1>3, <1>4, <1>7 DEF InGarbage, Waiting, Listed
<1>9. \A x \in Listed : x[1] # item[1]
  BY <1>2 DEF ReclaimInv, Pointed
<1>10. ReclaimTypes'
  <2>1. pointer' \in Objects
    BY <1>1, <1>3 DEF ReclaimInv, ReclaimTypes, Backups
  <2>2. freeList' \in SUBSET (Objects \X Nat)
    BY <1>2, <1>3 DEF ReclaimInv, ReclaimTypes
  <2> QED
    BY <1>4, <1>5, <1>7, <2>1, <2>2 DEF ReclaimInv, ReclaimTypes
<1>11. Times' /\ Starts' /\ Owners'
  BY <1>1, <1>4, <1>5 DEF ReclaimInv, Times, Starts, Owners
<1>12. Collections'
  BY <1>4, <1>5, <1>7 DEF ReclaimInv, Collections, Collectors
<1>13. Lists'
  <2>1. \A x, y \in Listed' : x[1] = y[1] => x = y
    BY <1>8, <1>9 DEF ReclaimInv, Lists
  <2>2. item \notin InGarbage /\ \A p \in Collectors : item \notin gcList[p]
    BY <1>9 DEF Listed, Waiting
  <2> QED
    BY <1>3, <1>4, <1>7, <1>8, <2>1, <2>2 DEF ReclaimInv, Lists
<1>14. Pointed'
  <2>1. backup[c] \in memory /\ backup[c] # pointer /\ \A x \in Listed : x[1] # backup[c]
    BY <1>1 DEF ReclaimInv, Backups
  <2>2. pointer \in memory /\ \A x \in Listed : x[1] \in memory
    BY DEF ReclaimInv, Pointed
  <2> QED
    BY <1>2, <1>3, <1>4, <1>8, <2>1, <2>2 DEF Pointed
<1>15. Backups'
  <2>1. \A d \in Clients : HasBackup(d)' => HasBackup(d) /\ d # c
    BY <1>1, <1>4, <1>5 DEF HasBackup, Writing, ReclaimInv
  <2> QED
    BY <1>1, <1>2, <1>3, <1>4, <1>8, <2>1 DEF ReclaimInv, Backups
<1>16. Loads'
  <2>1. \A d \in Clients : at'[d] = "check" => ~MayUse(d)'
    BY <1>4, <1>5, ReclaimAssumption DEF MayUse
  <2>2. \A d \in Clients : at'[d] # "unlock"
    BY <1>1, <1>5 DEF ReclaimInv, Owners
  <2> QED
    BY <2>1, <2>2 DEF Loads
<1>17. Clean'
  BY <1>4, <1>5 DEF Clean, Writing
<1>18. \A d \in Clients : Uses(d)' => Uses(d) /\ d # c /\ pointer \notin held[d]
  BY <1>1, <1>5 DEF Uses, ReclaimInv, Clean
<1>19. \A d \in Clients : HasEnd(d)' => HasEnd(d)
  BY <1>5 DEF HasEnd
<1>20. Holds'
  BY <1>2, <1>4, <1>8, <1>18, <1>19 DEF ReclaimInv, Holds
<1>21. Scans'
  <2> SUFFICES ASSUME NEW p \in Collectors, NEW d \in Clients, Uses(d)', NEW o \in held[d]
               PROVE
                 /\ gcAt'[p] = "scan" => \A x \in Waiting' : x[1] = o => Spared(p, d, x[2])'
                 /\ gcAt'[p] = "scan" /\ p \in Clients =>
                      /\ \A x \in InGarbage : x[1] = o => Spared(p, d, x[2])'
                      /\ \A e \in Clients : HasEnd(e)' /\ backup[e] = o => Spared(p, d, endOf[e])'
                 /\ \A x \in gcList[p] : x[1] = o => gcTime'[p] < x[2]
    BY <1>4, <1>7, <1>8 DEF Scans
  <2>1. \A x \in Waiting' : x[1] = o => x \in Waiting
    BY <1>2, <1>8, <1>18
  <2>2. CASE p = c
    BY <1>7, <2>2 DEF Spared
  <2>3. CASE p # c
    <3>1. gcAt'[p] = gcAt[p] /\ gcTime'[p] = gcTime[p] /\ \A t : Spared(p, d, t) <=> Spared(p, d, t)'
      BY <1>4, <1>7, <2>3 DEF Spared
    <3>2. \A e \in Clients : Spared(p, d, endOf[e]) <=> Spared(p, d, endOf[e])'
      BY <1>4, <1>7, <2>3 DEF Spared
    <3> QED
      BY <1>18, <1>19, <2>1, <3>1, <3>2 DEF ReclaimInv, Scans
  <2> QED
    BY <2>2, <2>3
<1> QED
  BY <1>10, <1>11, <1>12, <1>13, <1>14, <1>15, <1>16, <1>17, <1>20, <1>21 DEF ReclaimInv

(* A step of the service thread or of a collection touches no client. *)
LEMMA ClientsStay ==
  ASSUME ReclaimInv,
         UNCHANGED <<now, started, at, readClock, lockVars, loaded, held, backup, endOf>>
  PROVE  /\ Times' /\ Starts' /\ Owners' /\ Loads' /\ Clean'
         /\ \A d \in Clients : (Uses(d)' <=> Uses(d)) /\ (HasEnd(d)' <=> HasEnd(d))
                                  /\ (HasBackup(d)' <=> HasBackup(d))
<1>1. Times' /\ Starts' /\ Owners'
  BY DEF lockVars, ReclaimInv, Times, Starts, Owners
<1>2. Loads' /\ Clean'
  BY DEF lockVars, ReclaimInv, Loads, Clean, MayUse, Uses, Writing
<1>3. \A d \in Clients : (Uses(d)' <=> Uses(d)) /\ (HasEnd(d)' <=> HasEnd(d))
                            /\ (HasBackup(d)' <=> HasBackup(d))
  BY DEF lockVars, Uses, HasEnd, HasBackup, Writing
<1> QED
  BY <1>1, <1>2, <1>3

LEMMA ServiceFreesKeeps ==
  ASSUME ReclaimInv, ServiceFrees
  PROVE  ReclaimInv'
<1> DEFINE item == Head(garbage)
<1>1. /\ Times' /\ Starts' /\ Owners' /\ Loads' /\ Clean'
      /\ \A d \in Clients : (Uses(d)' <=> Uses(d)) /\ (HasEnd(d)' <=> HasEnd(d))
                              /\ (HasBackup(d)' <=> HasBackup(d))
  BY ClientsStay DEF ServiceFrees
<1>2. UNCHANGED <<now, started, at, readClock, pointer, version, owner, loaded, held, backup,
                  endOf, memory>>
  BY DEF ServiceFrees, lockVars
<1>3. /\ garbage \in Seq(Objects \X Nat) /\ garbage # <<>>
      /\ garbage' = Tail(garbage) /\ freeList' = freeList \cup {item}
      /\ MayCollect(Service)
  BY DEF ServiceFrees, ReclaimInv, ReclaimTypes
<1>4. /\ Len(garbage) \in Nat /\ Len(garbage') = Len(garbage) - 1
      /\ \A k \in 1..Len(garbage') : garbage'[k] = garbage[k + 1]
      /\ item = garbage[1] /\ 1 \in 1..Len(garbage)
      /\ garbage' \in Seq(Objects \X Nat) /\ item \in Objects \X Nat
  BY <1>3
<1>5. InGarbage = InGarbage' \cup {item}
  <2>1. InGarbage = {Tail(garbage)[k] : k \in 1..Len(Tail(garbage))} \cup {Head(garbage)}
    BY <1>3, ItemsOf DEF InGarbage
  <2>2. InGarbage' = {Tail(garbage)[k] : k \in 1..Len(Tail(garbage))}
    BY <1>3 DEF InGarbage
  <2> QED
    BY <2>1, <2>2
<1> HIDE DEF item
<1>6. Service \in Collectors /\ gcAt[Service] = "none"
  BY DEF ServiceFrees, Collectors
<1>7. /\ gcAt' \in [Collectors -> {"none", "scan", "sweep"}]
      /\ gcLeft' \in [Collectors -> SUBSET Clients]
      /\ gcTime' \in [Collectors -> Nat]
      /\ gcList' = gcList
      /\ gcList[Service] = {}
      /\ gcAt'[Service] = "none" \/ (gcAt'[Service] = "scan" /\ gcLeft'[Service] = Clients)
      /\ \A q \in Collectors : q # Service =>
           gcAt'[q] = gcAt[q] /\ gcLeft'[q] = gcLeft[q] /\ gcTime'[q] = gcTime[q]
  BY <1>3, <1>6, MayCollectKeeps DEF ReclaimInv
<1>8. Waiting' = Waiting \cup {item} /\ Listed' = Listed
  <2>1. Waiting' = Waiting \cup {item}
    BY <1>3, <1>7 DEF Waiting
  <2> QED
    BY <1>5, <2>1 DEF Listed
<1>9. ReclaimTypes'
  <2>1. freeList' \in SUBSET (Objects \X Nat)
    BY <1>3, <1>4 DEF ReclaimInv, ReclaimTypes
  <2> QED
    BY <1>2, <1>4, <1>7, <2>1 DEF ReclaimInv, ReclaimTypes
<1>10. Collections'
  <2>1. Service \notin Clients
    BY ReclaimAssumption
  <2> QED
    BY <1>2, <1>7, <2>1 DEF ReclaimInv, Collections, Collectors
<1>11. Lists'
  <2>1. item \notin InGarbage'
    <3>1. \A k \in 1..Len(garbage') : garbage'[k] # item
      BY <1>4 DEF ReclaimInv, Lists
    <3> QED
      BY <3>1 DEF InGarbage
  <2>2. \A j, k \in 1..Len(garbage') : garbage'[j] = garbage'[k] => j = k
    <3> SUFFICES ASSUME NEW j \in 1..Len(garbage'), NEW k \in 1..Len(garbage'),
                        garbage'[j] = garbage'[k]
                 PROVE  j = k
      OBVIOUS
    <3>1. j + 1 \in 1..Len(garbage) /\ k + 1 \in 1..Len(garbage) /\ garbage[j + 1] = garbage[k + 1]
      BY <1>4
    <3>2. j + 1 = k + 1
      BY <3>1 DEF ReclaimInv, Lists
    <3> QED
      BY <1>4, <3>2
  <2>3. item \in InGarbage /\ InGarbage' \subseteq InGarbage
    BY <1>5
  <2> QED
    BY <1>3, <1>7, <1>8, <2>1, <2>2, <2>3 DEF ReclaimInv, Lists
<1>12. Pointed' /\ Backups'
  BY <1>1, <1>2, <1>8 DEF ReclaimInv, Pointed, Backups
<1>13. Holds'
  BY <1>1, <1>2, <1>8 DEF ReclaimInv, Holds
<1>14. Scans'
  <2> SUFFICES ASSUME NEW p \in Collectors, NEW d \in Clients, Uses(d), NEW o \in held[d]
               PROVE
                 /\ gcAt'[p] = "scan" => \A x \in Waiting' : x[1] = o => Spared(p, d, x[2])'
                 /\ gcAt'[p] = "scan" /\ p \in Clients =>
                      /\ \A x \in InGarbage' : x[1] = o => Spared(p, d, x[2])'
                      /\ \A e \in Clients : HasEnd(e) /\ backup[e] = o => Spared(p, d, endOf[e])'
                 /\ \A x \in gcList[p] : x[1] = o => gcTime'[p] < x[2]
    BY <1>1, <1>2, <1>7 DEF Scans
  <2>1. CASE p = Service
    BY <1>7, <2>1 DEF Spared
  <2>2. CASE p # Service
    <3>1. p \in Clients
      BY <2>2 DEF Collectors
    <3>2. gcAt'[p] = gcAt[p] /\ gcTime'[p] = gcTime[p] /\ \A t : Spared(p, d, t) <=> Spared(p, d, t)'
      BY <1>2, <1>7, <2>2 DEF Spared
    <3>3. \A e \in Clients : Spared(p, d, endOf[e]) <=> Spared(p, d, endOf[e])'
      BY <1>2, <1>7, <2>2 DEF Spared
    <3>4. Waiting' \subseteq Waiting \cup InGarbage /\ InGarbage' \subseteq InGarbage
      BY <1>5, <1>8
    <3> QED
      BY <3>1, <3>2, <3>3, <3>4 DEF ReclaimInv, Scans
  <2> QED
    BY <2>1, <2>2
<1> QED
  BY <1>1, <1>9, <1>10, <1>11, <1>12, <1>13, <1>14 DEF ReclaimInv

LEMMA GcScanKeeps ==
  ASSUME ReclaimInv, NEW p \in Collectors, NEW c \in Clients, GcScan(p, c)
  PROVE  ReclaimInv'
<1>1. /\ Times' /\ Starts' /\ Owners' /\ Loads' /\ Clean'
      /\ \A d \in Clients : (Uses(d)' <=> Uses(d)) /\ (HasEnd(d)' <=> HasEnd(d))
                              /\ (HasBackup(d)' <=> HasBackup(d))
  BY ClientsStay DEF GcScan
<1>2. UNCHANGED <<now, started, at, readClock, pointer, version, owner, loaded, held, backup,
                  endOf, memory, garbage, freeList, gcAt, gcList>>
  BY DEF GcScan, lockVars
<1>3. /\ gcAt[p] = "scan" /\ c \in gcLeft[p]
      /\ gcLeft' \in [Collectors -> SUBSET Clients]
      /\ gcLeft'[p] = gcLeft[p] \ {c}
      /\ \A q \in Collectors : q # p => gcLeft'[q] = gcLeft[q]
  BY DEF GcScan, ReclaimInv, ReclaimTypes
<1>4. /\ gcTime' \in [Collectors -> Nat]
      /\ gcTime'[p] <= gcTime[p]
      /\ started[c] # 0 => gcTime'[p] <= started[c]
      /\ \A q \in Collectors : q # p => gcTime'[q] = gcTime[q]
  <2>1. started[c] \in Nat /\ gcTime[p] \in Nat
    BY DEF ReclaimInv, ReclaimTypes
  <2>2. CASE started[c] # 0 /\ started[c] < gcTime[p]
    BY <2>1, <2>2 DEF GcScan, ReclaimInv, ReclaimTypes
  <2>3. CASE ~(started[c] # 0 /\ started[c] < gcTime[p])
    BY <2>1, <2>3 DEF GcScan, ReclaimInv, ReclaimTypes
  <2> QED
    BY <2>2, <2>3
<1>5. InGarbage' = InGarbage /\ Waiting' = Waiting /\ Listed' = Listed
  BY <1>2 DEF InGarbage, Waiting, Listed
<1>6. ReclaimTypes'
  BY <1>2, <1>3, <1>4 DEF ReclaimInv, ReclaimTypes
<1>7. p \in Clients => 0 < started[p]
  BY <1>3 DEF ReclaimInv, Collections, Starts
<1>8. Collections'
  <2> SUFFICES ASSUME NEW q \in Clients, gcAt[q] = "scan", q \notin gcLeft'[q]
               PROVE  gcTime'[q] <= started[q]
    BY <1>2 DEF ReclaimInv, Collections
  <2>1. q \in Collectors /\ started[q] \in Nat /\ gcTime[q] \in Nat /\ gcTime'[q] \in Nat
    BY <1>4 DEF Collectors, ReclaimInv, ReclaimTypes
  <2>2. CASE q \notin gcLeft[q]
    <3>1. gcTime[q] <= started[q]
      BY <2>2 DEF ReclaimInv, Collections
    <3>2. gcTime'[q] <= gcTime[q]
      BY <1>4, <2>1
    <3> QED
      BY <2>1, <3>1, <3>2
  <2>3. CASE q \in gcLeft[q]
    BY <1>3, <1>4, <1>7, <2>1, <2>3
  <2> QED
    BY <2>2, <2>3
<1>9. Lists' /\ Pointed' /\ Backups' /\ Holds'
  BY <1>1, <1>2, <1>5 DEF ReclaimInv, Lists, Pointed, Backups, Holds
<1>10. Scans'
  <2>1. ASSUME NEW q \in Collectors, NEW d \in Clients, Uses(d), NEW t \in Nat,
               started[d] < t, gcAt[q] = "scan", Spared(q, d, t)
        PROVE  Spared(q, d, t)'
    <3>1. CASE q # p
      BY <1>2, <1>3, <1>4, <2>1, <3>1 DEF Spared
    <3>2. CASE q = p
      <4>1. /\ gcTime[p] \in Nat /\ gcTime'[p] \in Nat /\ started[c] \in Nat
            /\ \A e \in Clients : started[e] \in Nat
        BY <1>4 DEF ReclaimInv, ReclaimTypes
      <4>2. CASE gcTime[p] < t
        BY <1>4, <3>2, <4>1, <4>2 DEF Spared
      <4>3. CASE d \in gcLeft[p]
        <5>1. CASE d = c
          <6>1. 0 < started[d]
            BY <2>1 DEF Uses, ReclaimInv, Starts
          <6> QED
            BY <1>4, <2>1, <3>2, <4>1, <5>1, <6>1 DEF Spared
        <5>2. CASE d # c
          BY <1>3, <3>2, <4>3, <5>2 DEF Spared
        <5> QED
          BY <5>1, <5>2
      <4>4. CASE p \in gcLeft[p] /\ started[p] < t
        <5>0. p \in Clients
          BY <4>4 DEF ReclaimInv, ReclaimTypes
        <5>1. CASE p = c
          BY <1>4, <1>7, <3>2, <4>1, <4>4, <5>0, <5>1 DEF Spared
        <5>2. CASE p # c
          BY <1>2, <1>3, <3>2, <4>4, <5>2 DEF Spared
        <5> QED
          BY <5>1, <5>2
      <4> QED
        BY <2>1, <3>2, <4>2, <4>3, <4>4 DEF Spared
    <3> QED
      BY <3>1, <3>2
  <2> SUFFICES ASSUME NEW q \in Collectors, NEW d \in Clients, Uses(d), NEW o \in held[d]
               PROVE
                 /\ gcAt[q] = "scan" => \A x \in Waiting : x[1] = o => Spared(q, d, x[2])'
                 /\ gcAt[q] = "scan" /\ q \in Clients =>
                      /\ \A x \in InGarbage : x[1] = o => Spared(q, d, x[2])'
                      /\ \A e \in Clients : HasEnd(e) /\ backup[e] = o => Spared(q, d, endOf[e])'
                 /\ \A x \in gcList[q] : x[1] = o => gcTime'[q] < x[2]
    BY <1>1, <1>2, <1>5 DEF Scans
  <2>2. \A x \in Waiting \cup InGarbage : x[2] \in Nat /\ (x[1] = o => started[d] < x[2])
    <3>1. \A x \in Waiting \cup InGarbage : x[2] \in Nat
      BY DEF ReclaimInv, ReclaimTypes, InGarbage, Waiting
    <3> QED
      BY <3>1 DEF ReclaimInv, Holds, Listed
  <2>3. /\ gcAt[q] = "scan" => \A x \in Waiting : x[1] = o => Spared(q, d, x[2])'
        /\ gcAt[q] = "scan" /\ q \in Clients => \A x \in InGarbage : x[1] = o => Spared(q, d, x[2])'
    BY <2>1, <2>2 DEF ReclaimInv, Scans
  <2>4. ASSUME gcAt[q] = "scan", q \in Clients, NEW e \in Clients, HasEnd(e), backup[e] = o
        PROVE  Spared(q, d, endOf[e])'
    <3>1. endOf[e] \in Nat /\ started[d] < endOf[e] /\ Spared(q, d, endOf[e]) /\ endOf'[e] = endOf[e]
      BY <1>2, <2>4 DEF ReclaimInv, ReclaimTypes, Holds, Scans
    <3>2. \A t \in Nat : t = endOf[e] => Spared(q, d, t)'
      BY <2>1, <2>4, <3>1
    <3> QED
      BY <3>1, <3>2 DEF Spared
  <2>5. \A x \in gcList[q] : x[1] = o => gcTime'[q] < x[2]
    <3>1. CASE q = p
      BY <1>3, <3>1 DEF ReclaimInv, Collections
    <3>2. CASE q # p
      BY <1>4, <3>2 DEF ReclaimInv, Scans
    <3> QED
      BY <3>1, <3>2
  <2> QED
    BY <2>3, <2>4, <2>5
<1> QED
  BY <1>1, <1>6, <1>8, <1>9, <1>10 DEF ReclaimInv

LEMMA GcSwapKeeps ==
  ASSUME ReclaimInv, NEW p \in Collectors, GcSwap(p)
  PROVE  ReclaimInv'
<1>1. /\ Times' /\ Starts' /\ Owners' /\ Loads' /\ Clean'
      /\ \A d \in Clients : (Uses(d)' <=> Uses(d)) /\ (HasEnd(d)' <=> HasEnd(d))
                              /\ (HasBackup(d)' <=> HasBackup(d))
  BY ClientsStay DEF GcSwap
<1>2. UNCHANGED <<now, started, at, readClock, pointer, version, owner, loaded, held, backup,
                  endOf, memory, garbage, gcLeft, gcTime>>
  BY DEF GcSwap, lockVars
<1>3. /\ gcAt[p] = "scan" /\ gcLeft[p] = {} /\ gcList[p] = {} /\ freeList' = {}
      /\ gcAt' \in [Collectors -> {"none", "scan", "sweep"}]
      /\ gcList' \in [Collectors -> SUBSET (Objects \X Nat)]
      /\ gcAt'[p] = "sweep" /\ gcList'[p] = freeList
      /\ \A q \in Collectors : q # p => gcAt'[q] = gcAt[q] /\ gcList'[q] = gcList[q]
  BY DEF GcSwap, ReclaimInv, ReclaimTypes, Collections
<1>4. InGarbage' = InGarbage /\ Waiting' = Waiting /\ Listed' = Listed
  <2>1. InGarbage' = InGarbage
    BY <1>2 DEF InGarbage
  <2>2. UNION {gcList'[q] : q \in Collectors} = freeList \cup UNION {gcList[q] : q \in Collectors}
    BY <1>3
  <2> QED
    BY <1>3, <2>1, <2>2 DEF Waiting, Listed
<1>5. ReclaimTypes'
  BY <1>2, <1>3 DEF ReclaimInv, ReclaimTypes
<1>6. Collections'
  BY <1>2, <1>3 DEF ReclaimInv, Collections, Collectors
<1>7. Lists'
  BY <1>2, <1>3, <1>4 DEF ReclaimInv, Lists
<1>8. Pointed' /\ Backups' /\ Holds'
  BY <1>1, <1>2, <1>4 DEF ReclaimInv, Pointed, Backups, Holds
<1>9. Scans'
  <2> SUFFICES ASSUME NEW q \in Collectors, NEW d \in Clients, Uses(d), NEW o \in held[d]
               PROVE
                 /\ gcAt'[q] = "scan" => \A x \in Waiting : x[1] = o => Spared(q, d, x[2])'
                 /\ gcAt'[q] = "scan" /\ q \in Clients =>
                      /\ \A x \in InGarbage : x[1] = o => Spared(q, d, x[2])'
                      /\ \A e \in Clients : HasEnd(e) /\ backup[e] = o => Spared(q, d, endOf[e])'
                 /\ \A x \in gcList'[q] : x[1] = o => gcTime[q] < x[2]
    BY <1>1, <1>2, <1>4 DEF Scans
  <2>1. CASE q = p
    <3>1. \A x \in freeList : x[1] = o => Spared(p, d, x[2])
      BY <1>3, <2>1 DEF ReclaimInv, Scans, Waiting
    <3> QED
      BY <1>3, <2>1, <3>1 DEF Spared
  <2>2. CASE q # p
    <3>1. \A t : Spared(q, d, t) <=> Spared(q, d, t)'
      BY <1>2 DEF Spared
    <3>2. \A e \in Clients : Spared(q, d, endOf[e]) <=> Spared(q, d, endOf[e])'
      BY <1>2 DEF Spared
    <3> QED
      BY <1>3, <2>2, <3>1, <3>2 DEF ReclaimInv, Scans
  <2> QED
    BY <2>1, <2>2
<1> QED
  BY <1>1, <1>5, <1>6, <1>7, <1>8, <1>9 DEF ReclaimInv

LEMMA GcSweepKeeps ==
  ASSUME ReclaimInv, NEW p \in Collectors, GcSweep(p)
  PROVE  ReclaimInv'
<1> DEFINE kept     == {x \in gcList[p] : x[2] > gcTime[p]}
           released == gcList[p] \ kept
<1>1. /\ Times' /\ Starts' /\ Owners' /\ Loads' /\ Clean'
      /\ \A d \in Clients : (Uses(d)' <=> Uses(d)) /\ (HasEnd(d)' <=> HasEnd(d))
                              /\ (HasBackup(d)' <=> HasBackup(d))
  BY ClientsStay DEF GcSweep
<1>2. UNCHANGED <<now, started, at, readClock, pointer, version, owner, loaded, held, backup,
                  endOf, garbage, gcLeft>>
  BY DEF GcSweep, lockVars
<1>3. /\ gcAt[p] = "sweep" /\ freeList' = freeList \cup kept
      /\ memory' = memory \ {x[1] : x \in released}
      /\ gcAt' \in [Collectors -> {"none", "scan", "sweep"}]
      /\ gcList' \in [Collectors -> SUBSET (Objects \X Nat)]
      /\ gcTime' \in [Collectors -> Nat]
      /\ gcAt'[p] = "none" /\ gcList'[p] = {}
      /\ \A q \in Collectors : q # p =>
           gcAt'[q] = gcAt[q] /\ gcList'[q] = gcList[q] /\ gcTime'[q] = gcTime[q]
  BY DEF GcSweep, ReclaimInv, ReclaimTypes
<1>4. kept \subseteq gcList[p] /\ released \subseteq gcList[p] /\ kept \cap released = {}
  OBVIOUS
<1>5. \A x \in released : ~(gcTime[p] < x[2])
  <2>1. gcTime[p] \in Nat /\ \A x \in gcList[p] : x[2] \in Nat
    BY DEF ReclaimInv, ReclaimTypes
  <2> QED
    BY <2>1
<1> HIDE DEF kept, released
<1>6. gcList[p] \subseteq Waiting /\ gcList[p] \in SUBSET (Objects \X Nat)
  BY DEF Waiting, ReclaimInv, ReclaimTypes
<1>7. InGarbage' = InGarbage /\ Waiting' \subseteq Waiting /\ Listed' \subseteq Listed
  <2>1. InGarbage' = InGarbage
    BY <1>2 DEF InGarbage
  <2>2. UNION {gcList'[q] : q \in Collectors} \subseteq UNION {gcList[q] : q \in Collectors}
    BY <1>3
  <2>3. Waiting' \subseteq Waiting
    BY <1>3, <1>4, <1>6, <2>2 DEF Waiting
  <2> QED
    BY <2>1, <2>3 DEF Listed
<1>8. \A x \in released : x \in Listed /\ x \notin Listed'
  <2>1. ASSUME NEW x \in released PROVE x \notin Listed'
    <3>1. x \in gcList[p] /\ x \notin kept
      BY <1>4, <2>1
    <3>2. x \notin freeList /\ x \notin InGarbage
      BY <3>1 DEF ReclaimInv, Lists
    <3>3. \A q \in Collectors : x \notin gcList'[q]
      BY <1>3, <3>1 DEF ReclaimInv, Lists
    <3> QED
      BY <1>3, <1>7, <3>1, <3>2, <3>3 DEF Listed, Waiting
  <2> QED
    BY <1>4, <1>6, <2>1 DEF Listed
<1>9. ReclaimTypes'
  BY <1>2, <1>3, <1>4, <1>6 DEF ReclaimInv, ReclaimTypes
<1>10. Collections'
  BY <1>2, <1>3 DEF ReclaimInv, Collections, Collectors
<1>11. Lists'
  <2>1. \A x, y \in Listed' : x[1] = y[1] => x = y
    BY <1>7 DEF ReclaimInv, Lists
  <2> QED
    BY SMTT(30), <1>2, <1>3, <1>4, <1>7, <2>1 DEF ReclaimInv, Lists
<1>12. Pointed'
  <2>1. pointer \in memory'
    BY <1>3, <1>8 DEF ReclaimInv, Pointed
  <2>2. \A x \in Listed' : x[1] \in memory'
    <3> SUFFICES ASSUME NEW x \in Listed', NEW y \in released, x[1] = y[1] PROVE FALSE
      BY <1>3, <1>7 DEF ReclaimInv, Pointed
    <3>1. x = y
      BY <1>7, <1>8 DEF ReclaimInv, Lists
    <3> QED
      BY <1>8, <3>1
  <2> QED
    BY <1>2, <1>7, <2>1, <2>2 DEF ReclaimInv, Pointed
<1>13. Backups'
  <2>1. \A c \in Clients : HasBackup(c) => backup[c] \in memory'
    BY <1>3, <1>8 DEF ReclaimInv, Backups
  <2> QED
    BY <1>1, <1>2, <1>7, <2>1 DEF ReclaimInv, Backups
<1>14. Holds'
  <2>1. ASSUME NEW c \in Clients, Uses(c), NEW o \in held[c] PROVE o \in memory'
    <3>1. \A x \in released : x[1] # o
      BY <1>4, <1>5, <2>1 DEF ReclaimInv, Scans
    <3> QED
      BY <1>3, <2>1, <3>1 DEF ReclaimInv, Holds
  <2> QED
    BY <1>1, <1>2, <1>7, <2>1 DEF ReclaimInv, Holds
<1>15. Scans'
  <2> SUFFICES ASSUME NEW q \in Collectors, NEW d \in Clients, Uses(d), NEW o \in held[d]
               PROVE
                 /\ gcAt'[q] = "scan" => \A x \in Waiting' : x[1] = o => Spared(q, d, x[2])'
                 /\ gcAt'[q] = "scan" /\ q \in Clients =>
                      /\ \A x \in InGarbage : x[1] = o => Spared(q, d, x[2])'
                      /\ \A e \in Clients : HasEnd(e) /\ backup[e] = o => Spared(q, d, endOf[e])'
                 /\ \A x \in gcList'[q] : x[1] = o => gcTime'[q] < x[2]
    BY <1>1, <1>2, <1>7 DEF Scans
  <2>1. CASE q = p
    BY <1>3, <2>1
  <2>2. CASE q # p
    <3>1. \A t : Spared(q, d, t) <=> Spared(q, d, t)'
      BY <1>2, <1>3, <2>2 DEF Spared
    <3>2. \A e \in Clients : Spared(q, d, endOf[e]) <=> Spared(q, d, endOf[e])'
      BY <1>2, <1>3, <2>2 DEF Spared
    <3> QED
      BY <1>3, <1>7, <2>2, <3>1, <3>2 DEF ReclaimInv, Scans
  <2> QED
    BY <2>1, <2>2
<1> QED
  BY <1>1, <1>9, <1>10, <1>11, <1>12, <1>13, <1>14, <1>15 DEF ReclaimInv

LEMMA ServiceCollectsKeeps ==
  ASSUME ReclaimInv, ServiceCollects
  PROVE  ReclaimInv'
<1>1. /\ Times' /\ Starts' /\ Owners' /\ Loads' /\ Clean'
      /\ \A d \in Clients : (Uses(d)' <=> Uses(d)) /\ (HasEnd(d)' <=> HasEnd(d))
                              /\ (HasBackup(d)' <=> HasBackup(d))
  BY ClientsStay DEF ServiceCollects
<1>2. UNCHANGED <<now, started, at, readClock, pointer, version, owner, loaded, held, backup,
                  endOf, memory, garbage, freeList>>
  BY DEF ServiceCollects, lockVars
<1>3. Service \in Collectors /\ gcAt[Service] = "none" /\ MayCollect(Service)
  BY DEF ServiceCollects, Collectors, MayCollect
<1>4. /\ gcAt' \in [Collectors -> {"none", "scan", "sweep"}]
      /\ gcLeft' \in [Collectors -> SUBSET Clients]
      /\ gcTime' \in [Collectors -> Nat]
      /\ gcList' = gcList
      /\ gcList[Service] = {}
      /\ gcAt'[Service] = "none" \/ (gcAt'[Service] = "scan" /\ gcLeft'[Service] = Clients)
      /\ \A q \in Collectors : q # Service =>
           gcAt'[q] = gcAt[q] /\ gcLeft'[q] = gcLeft[q] /\ gcTime'[q] = gcTime[q]
  BY <1>3, MayCollectKeeps DEF ReclaimInv
<1>5. InGarbage' = InGarbage /\ Waiting' = Waiting /\ Listed' = Listed
  BY <1>2, <1>4 DEF InGarbage, Waiting, Listed
<1>6. ReclaimTypes'
  BY <1>2, <1>4 DEF ReclaimInv, ReclaimTypes
<1>7. Collections'
  <2>1. Service \notin Clients
    BY ReclaimAssumption
  <2> QED
    BY <1>2, <1>4, <2>1 DEF ReclaimInv, Collections, Collectors
<1>8. Lists' /\ Pointed' /\ Backups' /\ Holds'
  BY <1>1, <1>2, <1>4, <1>5 DEF ReclaimInv, Lists, Pointed, Backups, Holds
<1>9. Scans'
  <2> SUFFICES ASSUME NEW q \in Collectors, NEW d \in Clients, Uses(d), NEW o \in held[d]
               PROVE
                 /\ gcAt'[q] = "scan" => \A x \in Waiting : x[1] = o => Spared(q, d, x[2])'
                 /\ gcAt'[q] = "scan" /\ q \in Clients =>
                      /\ \A x \in InGarbage : x[1] = o => Spared(q, d, x[2])'
                      /\ \A e \in Clients : HasEnd(e) /\ backup[e] = o => Spared(q, d, endOf[e])'
                 /\ \A x \in gcList[q] : x[1] = o => gcTime'[q] < x[2]
    BY <1>1, <1>2, <1>4, <1>5 DEF Scans
  <2>1. CASE q = Service
    BY <1>4, <2>1 DEF Spared
  <2>2. CASE q # Service
    <3>1. \A t : Spared(q, d, t) <=> Spared(q, d, t)'
      BY <1>2, <1>4, <2>2 DEF Spared
    <3>2. \A e \in Clients : Spared(q, d, endOf[e]) <=> Spared(q, d, endOf[e])'
      BY <1>2, <1>4, <2>2 DEF Spared
    <3> QED
      BY <1>4, <2>2, <3>1, <3>2 DEF ReclaimInv, Scans
  <2> QED
    BY <2>1, <2>2
<1> QED
  BY <1>1, <1>6, <1>7, <1>8, <1>9 DEF ReclaimInv

-----------------------------------------------------------------------------
LEMMA ReclaimStart == ReclaimInit => ReclaimInv
<1> SUFFICES ASSUME ReclaimInit PROVE ReclaimInv
  OBVIOUS
<1>1. Listed = {} /\ Waiting = {} /\ InGarbage = {}
  BY DEF ReclaimInit, Listed, Waiting, InGarbage
<1>2. ReclaimTypes
  <2>1. garbage \in Seq(Objects \X Nat)
    BY DEF ReclaimInit
  <2> QED
    BY <2>1 DEF ReclaimInit, ReclaimTypes, Places
<1>3. Times /\ Starts /\ Owners /\ Collections
  BY DEF ReclaimInit, Times, Starts, Owners, Collections, Collectors
<1>4. Lists /\ Pointed /\ Backups
  BY <1>1, ReclaimAssumption DEF ReclaimInit, Lists, Pointed, Backups, HasBackup, Writing
<1>5. Loads /\ Clean /\ Holds /\ Scans
  BY DEF ReclaimInit, Loads, Clean, Holds, Scans, Uses
<1> QED
  BY <1>2, <1>3, <1>4, <1>5 DEF ReclaimInv

LEMMA ReclaimStep == ReclaimInv /\ [ReclaimNext]_reclaimVars => ReclaimInv'
<1> SUFFICES ASSUME ReclaimInv, [ReclaimNext]_reclaimVars PROVE ReclaimInv'
  OBVIOUS
<1>1. ASSUME NEW c \in Clients,
             \/ BeginRead(c) \/ BeginPublish(c) \/ ReadLoad(c) \/ ReadCheck(c)
             \/ WriteObject(c) \/ EndReading(c) \/ CommitTick(c) \/ CommitUnlock(c)
             \/ CommitHandOver(c) \/ Abort(c) \/ Rollback(c) \/ AbortUnlock(c) \/ CleanUp(c)
      PROVE  ReclaimInv'
  BY <1>1, BeginReadKeeps, BeginPublishKeeps, ReadLoadKeeps, ReadCheckKeeps,
     WriteObjectKeeps, EndReadingKeeps, CommitTickKeeps, CommitUnlockKeeps,
     CommitHandOverKeeps, AbortKeeps, RollbackKeeps, RollbackWriteKeeps, AbortUnlockKeeps,
     CleanUpKeeps
<1>2. ASSUME ServiceFrees \/ ServiceCollects PROVE ReclaimInv'
  BY <1>2, ServiceFreesKeeps, ServiceCollectsKeeps
<1>3. ASSUME NEW p \in Collectors,
             (\E c \in Clients : GcScan(p, c)) \/ GcSwap(p) \/ GcSweep(p)
      PROVE  ReclaimInv'
  BY <1>3, GcScanKeeps, GcSwapKeeps, GcSweepKeeps
<1>4. ASSUME UNCHANGED reclaimVars PROVE ReclaimInv'
  <2>1. InGarbage' = InGarbage /\ Waiting' = Waiting /\ Listed' = Listed
    BY <1>4 DEF reclaimVars, gcVars, InGarbage, Waiting, Listed
  <2>2. /\ Times' /\ Starts' /\ Owners' /\ Loads' /\ Clean'
        /\ \A d \in Clients : (Uses(d)' <=> Uses(d)) /\ (HasEnd(d)' <=> HasEnd(d))
                                /\ (HasBackup(d)' <=> HasBackup(d))
    BY <1>4, ClientsStay DEF reclaimVars
  <2>3. ReclaimTypes' /\ Collections'
    BY <1>4 DEF reclaimVars, gcVars, lockVars, ReclaimInv, ReclaimTypes, Collections
  <2>4. Lists' /\ Pointed' /\ Backups' /\ Holds'
    BY <1>4, <2>1, <2>2
    DEF reclaimVars, gcVars, lockVars, ReclaimInv, Lists, Pointed, Backups, Holds
  <2>5. Scans'
    BY <1>4, <2>1, <2>2 DEF reclaimVars, gcVars, lockVars, ReclaimInv, Scans, Spared
  <2> QED
    BY <2>2, <2>3, <2>4, <2>5 DEF ReclaimInv
<1> QED
  BY <1>1, <1>2, <1>3, <1>4 DEF ReclaimNext

(* A transaction never holds a pointer to memory that was given back (tr_begin,
   the read protocol of macros.h, generic_allocator_free and the collection with
   get_time), for every set of handles and of objects and every bound on the
   clock. *)
THEOREM HeldAlwaysLive == ReclaimSpec => []HeldIsLive
<1>1. ReclaimInv => HeldIsLive
  BY DEF ReclaimInv, Holds, HeldIsLive, Uses
<1> QED
  BY ReclaimStart, ReclaimStep, <1>1, PTL DEF ReclaimSpec
=============================================================================
