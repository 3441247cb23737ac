--------------------------- MODULE RecoveryProofs ----------------------------
(***************************************************************************)
(* What data files hold and what a start makes of them: for any number of  *)
(* nodes, files and starts, and any sequence of crashes.                   *)
(***************************************************************************)
EXTENDS DataFiles, SequenceTheorems, FiniteSetTheorems, WellFoundedInduction, TLAPS

-----------------------------------------------------------------------------
(* Reading one record after another *)

(* Some numbers have a least one. *)
LEMMA LeastExists ==
  ASSUME NEW W, W \subseteq Nat, W # {}
  PROVE  \E i \in W : \A k \in W : i <= k
<1>1. PICK i \in W : \A k \in W : ~ (<<k, i>> \in OpToRel(<, Nat))
  BY WFMin, NatLessThanWellFounded
<1>2. ASSUME NEW k \in W PROVE ~ (k < i)
  BY <1>1 DEF OpToRel
<1>3. \A k \in W : i <= k
  BY <1>2
<1> QED
  BY <1>3

(* What is true of 0 and stays true from each number to the next is true of all
   numbers up to n. *)
LEMMA AllUpTo ==
  ASSUME NEW n \in Nat, NEW P, 0 \in P, \A k \in 1 .. n : k - 1 \in P => k \in P
  PROVE  \A k \in 0 .. n : k \in P
<1> DEFINE bad == {k \in 0 .. n : k \notin P}
<1>1. SUFFICES ASSUME bad # {} PROVE FALSE
  OBVIOUS
<1>4. bad \subseteq Nat
  OBVIOUS
<1> HIDE DEF bad
<1>2. PICK i \in bad : \A k \in bad : i <= k
  BY <1>1, <1>4, LeastExists
<1> USE DEF bad
<1>3. i \in 1 .. n /\ i - 1 \notin bad
  BY <1>2
<1> QED
  BY <1>2, <1>3

(* How ReadRecords goes through the first n records. *)
Reads(f, d, records, n, first) ==
  f = [k \in 0 .. n |-> IF k = 0 THEN d ELSE F!ReadRecord(f[k - 1], records[k], first)]

(* There is one way to go through them. *)
LEMMA ReadsExists ==
  ASSUME NEW n \in Nat, NEW d, NEW records, NEW first
  PROVE  \E f : Reads(f, d, records, n, first)
<1> DEFINE P == {k \in Nat : \E f : Reads(f, d, records, k, first)}
<1>1. 0 \in P
  <2> DEFINE f == [k \in 0 .. 0 |-> d]
  <2>1. Reads(f, d, records, 0, first)
    BY DEF Reads
  <2> QED
    BY <2>1
<1>2. ASSUME NEW k \in 1 .. n, k - 1 \in P PROVE k \in P
  <2>1. PICK f : Reads(f, d, records, k - 1, first)
    BY <1>2
  <2> DEFINE r(j) == F!ReadRecord(f[j], records[j + 1], first)
             g == [j \in 0 .. k |-> IF j = k THEN r(k - 1) ELSE f[j]]
  <2>2. ASSUME NEW j \in 0 .. k
        PROVE  g[j] = IF j = 0 THEN d ELSE F!ReadRecord(g[j - 1], records[j], first)
    <3>1. CASE j = k
      <4>1. g[j - 1] = f[k - 1] /\ g[j] = r(k - 1) /\ j - 1 + 1 = j /\ j # 0
        BY <3>1
      <4> HIDE DEF g
      <4> QED
        BY <4>1, <3>1
    <3>2. CASE j # k
      <4>1. j \in 0 .. k - 1 /\ g[j] = f[j] /\ (j # 0 => g[j - 1] = f[j - 1])
        BY <3>2
      <4>2. f[j] = IF j = 0 THEN d ELSE F!ReadRecord(f[j - 1], records[j], first)
        BY <2>1, <4>1 DEF Reads
      <4> HIDE DEF g
      <4> QED
        BY <4>1, <4>2
    <3> QED
      BY <3>1, <3>2
  <2>3. g = [j \in 0 .. k |-> g[j]]
    OBVIOUS
  <2> HIDE DEF g
  <2>4. Reads(g, d, records, k, first)
    BY <2>2, <2>3 DEF Reads
  <2> QED
    BY <2>4
<1> HIDE DEF P
<1>3. n \in P
  BY <1>1, <1>2, AllUpTo
<1> QED
  BY <1>3 DEF P

(* And it does not depend on what follows. *)
LEMMA ReadsAgree ==
  ASSUME NEW n \in Nat, NEW d, NEW records, NEW first, NEW l \in 0 .. n,
         NEW f, Reads(f, d, records, n, first), NEW g, Reads(g, d, records, l, first)
  PROVE  f[l] = g[l]
<1> DEFINE P == {k \in 0 .. l : f[k] = g[k]}
<1>1. 0 \in P
  BY DEF Reads
<1>2. ASSUME NEW k \in 1 .. l, k - 1 \in P PROVE k \in P
  <2>1. f[k] = F!ReadRecord(f[k - 1], records[k], first)
    <3>1. k \in 0 .. n /\ k # 0
      OBVIOUS
    <3> QED
      BY <3>1 DEF Reads
  <2>2. g[k] = F!ReadRecord(g[k - 1], records[k], first)
    BY DEF Reads
  <2> QED
    BY <1>2, <2>1, <2>2
<1> HIDE DEF P
<1>3. l \in P
  BY <1>1, <1>2, AllUpTo
<1> QED
  BY <1>3 DEF P

(* The first n records are read by reading all but the last of them, and that. *)
LEMMA RecordsRead ==
  ASSUME NEW n \in Nat, NEW d, NEW records, NEW first
  PROVE  F!ReadRecords(d, records, n, first) =
           IF n = 0 THEN d
           ELSE F!ReadRecord(F!ReadRecords(d, records, n - 1, first), records[n], first)
<1>1. ASSUME NEW k \in Nat
      PROVE  \E f : Reads(f, d, records, k, first) /\ F!ReadRecords(d, records, k, first) = f[k]
  <2>1. F!ReadRecords(d, records, k, first) = (CHOOSE f : Reads(f, d, records, k, first))[k]
    BY DEF F!ReadRecords, Reads
  <2> QED
    BY <2>1, ReadsExists
<1>2. PICK f : Reads(f, d, records, n, first) /\ F!ReadRecords(d, records, n, first) = f[n]
  BY <1>1
<1>3. CASE n = 0
  BY <1>2, <1>3 DEF Reads
<1>4. CASE n # 0
  <2>1. n - 1 \in Nat /\ n - 1 \in 0 .. n
    BY <1>4
  <2>2. PICK g : /\ Reads(g, d, records, n - 1, first)
                 /\ F!ReadRecords(d, records, n - 1, first) = g[n - 1]
    BY <1>1, <2>1
  <2>3. f[n - 1] = g[n - 1]
    BY <1>2, <2>1, <2>2, ReadsAgree
  <2>4. f[n] = F!ReadRecord(f[n - 1], records[n], first)
    BY <1>2, <1>4 DEF Reads
  <2> QED
    BY <1>2, <1>4, <2>2, <2>3, <2>4
<1> QED
  BY <1>3, <1>4

(* How LoadFiles goes through the first n files. *)
LoadNext(d, f, k) == IF Stops(d) THEN d ELSE F!LoadFile(d, f, k = 1)
Loads(f, fs, n) ==
  f = [k \in 0 .. n |-> IF k = 0 THEN F!Nothing
                        ELSE IF Stops(f[k - 1]) THEN f[k - 1]
                        ELSE F!LoadFile(f[k - 1], fs[k], k = 1)]

(* There is one way to go through them. *)
LEMMA LoadsExists ==
  ASSUME NEW n \in Nat, NEW fs
  PROVE  \E f : Loads(f, fs, n)
<1> DEFINE P == {k \in Nat : \E f : Loads(f, fs, k)}
<1>1. 0 \in P
  <2> DEFINE f == [k \in 0 .. 0 |-> F!Nothing]
  <2>1. Loads(f, fs, 0)
    BY DEF Loads
  <2> QED
    BY <2>1
<1>2. ASSUME NEW k \in 1 .. n, k - 1 \in P PROVE k \in P
  <2>1. PICK f : Loads(f, fs, k - 1)
    BY <1>2
  <2> DEFINE r(j) == LoadNext(f[j], fs[j + 1], j + 1)
             g == [j \in 0 .. k |-> IF j = k THEN r(k - 1) ELSE f[j]]
  <2>2. ASSUME NEW j \in 0 .. k
        PROVE  g[j] = IF j = 0 THEN F!Nothing ELSE LoadNext(g[j - 1], fs[j], j)
    <3>1. CASE j = k
      <4>1. g[j - 1] = f[k - 1] /\ g[j] = r(k - 1) /\ j - 1 + 1 = j /\ j # 0
        BY <3>1
      <4> HIDE DEF g
      <4> QED
        BY <4>1, <3>1
    <3>2. CASE j # k
      <4>1. j \in 0 .. k - 1 /\ g[j] = f[j] /\ (j # 0 => g[j - 1] = f[j - 1])
        BY <3>2
      <4>2. f[j] = IF j = 0 THEN F!Nothing ELSE LoadNext(f[j - 1], fs[j], j)
        BY <2>1, <4>1 DEF Loads, LoadNext
      <4> HIDE DEF g
      <4> QED
        BY <4>1, <4>2
    <3> QED
      BY <3>1, <3>2
  <2>3. g = [j \in 0 .. k |-> g[j]]
    OBVIOUS
  <2> HIDE DEF g
  <2>4. Loads(g, fs, k)
    BY <2>2, <2>3 DEF Loads, LoadNext
  <2> QED
    BY <2>4
<1> HIDE DEF P
<1>3. n \in P
  BY <1>1, <1>2, AllUpTo
<1> QED
  BY <1>3 DEF P

(* And it does not depend on what follows. *)
LEMMA LoadsAgree ==
  ASSUME NEW n \in Nat, NEW fs, NEW l \in 0 .. n,
         NEW f, Loads(f, fs, n), NEW g, Loads(g, fs, l)
  PROVE  f[l] = g[l]
<1> DEFINE P == {k \in 0 .. l : f[k] = g[k]}
<1>1. 0 \in P
  BY DEF Loads
<1>2. ASSUME NEW k \in 1 .. l, k - 1 \in P PROVE k \in P
  <2>1. f[k] = LoadNext(f[k - 1], fs[k], k)
    <3>1. k \in 0 .. n /\ k # 0
      OBVIOUS
    <3> QED
      BY <3>1 DEF Loads, LoadNext
  <2>2. g[k] = LoadNext(g[k - 1], fs[k], k)
    BY DEF Loads, LoadNext
  <2> QED
    BY <1>2, <2>1, <2>2
<1> HIDE DEF P
<1>3. l \in P
  BY <1>1, <1>2, AllUpTo
<1> QED
  BY <1>3 DEF P

(* The first n files are loaded by loading all but the last of them, and that. *)
LEMMA FilesLoaded ==
  ASSUME NEW n \in Nat, NEW fs
  PROVE  LoadFiles(fs, n) = IF n = 0 THEN F!Nothing
                            ELSE LoadNext(LoadFiles(fs, n - 1), fs[n], n)
<1>1. ASSUME NEW k \in Nat
      PROVE  \E f : Loads(f, fs, k) /\ LoadFiles(fs, k) = f[k]
  <2>1. LoadFiles(fs, k) = (CHOOSE f : Loads(f, fs, k))[k]
    BY DEF LoadFiles, Loads
  <2> QED
    BY <2>1, LoadsExists
<1>2. PICK f : Loads(f, fs, n) /\ LoadFiles(fs, n) = f[n]
  BY <1>1
<1>3. CASE n = 0
  BY <1>2, <1>3 DEF Loads
<1>4. CASE n # 0
  <2>1. n - 1 \in Nat /\ n - 1 \in 0 .. n
    BY <1>4
  <2>2. PICK g : Loads(g, fs, n - 1) /\ LoadFiles(fs, n - 1) = g[n - 1]
    BY <1>1, <2>1
  <2>3. f[n - 1] = g[n - 1]
    BY <1>2, <2>1, <2>2, LoadsAgree
  <2>4. f[n] = LoadNext(f[n - 1], fs[n], n)
    BY <1>2, <1>4 DEF Loads, LoadNext
  <2> QED
    BY <1>2, <1>4, <2>2, <2>3, <2>4
<1> QED
  BY <1>3, <1>4

(* A transaction of one operation. *)
LEMMA OneOperation ==
  ASSUME NEW d, NEW o
  PROVE  F!ReadTransaction(d, <<o>>) = F!ReadOperation(d, o)
<1> DEFINE After(f) ==
      f = [k \in 0 .. Len(<<o>>) |-> IF k = 0 THEN d ELSE F!ReadOperation(f[k - 1], <<o>>[k])]
<1>1. F!ReadTransaction(d, <<o>>) = (CHOOSE f : After(f))[Len(<<o>>)]
  <2>1. <<o>> # <<>>
    OBVIOUS
  <2> QED
    BY <2>1 DEF F!ReadTransaction
<1>2. After([k \in 0 .. 1 |-> IF k = 0 THEN d ELSE F!ReadOperation(d, o)])
  <2> DEFINE r == F!ReadOperation(d, o)
             g == [k \in 0 .. 1 |-> IF k = 0 THEN d ELSE r]
  <2>1. g[0] = d /\ g[1] = r /\ <<o>>[1] = o /\ Len(<<o>>) = 1
    OBVIOUS
  <2>2. g = [k \in 0 .. 1 |-> g[k]]
    OBVIOUS
  <2>3. \A k \in 0 .. 1 : g[k] = IF k = 0 THEN d ELSE F!ReadOperation(g[k - 1], <<o>>[k])
    <3> HIDE DEF g
    <3> QED
      BY <2>1
  <2> HIDE DEF g
  <2>4. After(g)
    BY <2>1, <2>2, <2>3
  <2> QED
    BY <2>4 DEF g
<1>3. PICK f : After(f) /\ F!ReadTransaction(d, <<o>>) = f[Len(<<o>>)]
  <2> HIDE DEF After
  <2> QED
    BY <1>1, <1>2
<1>4. f[0] = d /\ f[1] = F!ReadOperation(f[0], o) /\ Len(<<o>>) = 1
  <2>1. Len(<<o>>) = 1 /\ <<o>>[1] = o
    OBVIOUS
  <2> QED
    BY <1>3, <2>1
<1> QED
  BY <1>3, <1>4
-----------------------------------------------------------------------------
(* What files look like *)

(* The record a transaction writes that has created node i. *)
TxOf(i) == F!Transaction(<<F!Created(i)>>)


-----------------------------------------------------------------------------
(* Types *)

(* Records there can be, nodes that can have been loaded, and what load_file
   leaves. *)
TxRecord == {F!Transaction(<<>>)} \cup {TxOf(i) : i \in Nat}
Record == TxRecord \cup {F!Dumped(i, 0) : i \in Nat}
          \cup {F!DumpBegin, F!DumpEnd, F!Torn} \cup {F!EndOfFile(m) : m \in Nat}
NodeMap == UNION {[S -> {0}] : S \in {T \in SUBSET Nat : IsFiniteSet(T)}}
Loaded == [nodes : NodeMap, ghosts : SUBSET Nat, magic : Nat, dumpOn : BOOLEAN,
           status : {"READING", "UNFINISHED", "SUCCESS", "CORRUPTED"}]

(* A record is one of these. *)
LEMMA RecordIs ==
  ASSUME NEW r \in Record
  PROVE  \/ r = F!Transaction(<<>>) /\ r.kind = "transaction" /\ r.ops = <<>>
         \/ \E i \in Nat : r = TxOf(i) /\ r.kind = "transaction" /\ r.ops = <<F!Created(i)>>
         \/ \E i \in Nat : r = F!Dumped(i, 0) /\ r.kind = "dumped" /\ r.id = i /\ r.value = 0
         \/ r = F!DumpBegin /\ r.kind = "DUMP BEGIN"
         \/ r = F!DumpEnd /\ r.kind = "DUMP END"
         \/ r = F!Torn /\ r.kind = "torn"
         \/ \E m \in Nat : r = F!EndOfFile(m) /\ r.kind = "END OF FILE" /\ r.magic = m
<1>1. CASE r = F!Transaction(<<>>)
  BY <1>1 DEF F!Transaction
<1>2. ASSUME NEW i \in Nat, r = TxOf(i) PROVE r.kind = "transaction" /\ r.ops = <<F!Created(i)>>
  BY <1>2 DEF TxOf, F!Transaction
<1>3. ASSUME NEW i \in Nat, r = F!Dumped(i, 0) PROVE r.kind = "dumped" /\ r.id = i /\ r.value = 0
  BY <1>3 DEF F!Dumped
<1>4. /\ r = F!DumpBegin => r.kind = "DUMP BEGIN"
      /\ r = F!DumpEnd => r.kind = "DUMP END"
      /\ r = F!Torn => r.kind = "torn"
  <2>1. ASSUME r = F!DumpBegin PROVE r.kind = "DUMP BEGIN"
    BY <2>1 DEF F!DumpBegin
  <2>2. ASSUME r = F!DumpEnd PROVE r.kind = "DUMP END"
    BY <2>2 DEF F!DumpEnd
  <2>3. ASSUME r = F!Torn PROVE r.kind = "torn"
    BY <2>3 DEF F!Torn
  <2> QED
    BY <2>1, <2>2, <2>3
<1>5. ASSUME NEW m \in Nat, r = F!EndOfFile(m) PROVE r.kind = "END OF FILE" /\ r.magic = m
  BY <1>5 DEF F!EndOfFile
<1>6. \/ r = F!Transaction(<<>>)
      \/ \E i \in Nat : r = TxOf(i)
      \/ \E i \in Nat : r = F!Dumped(i, 0)
      \/ r = F!DumpBegin \/ r = F!DumpEnd \/ r = F!Torn
      \/ \E m \in Nat : r = F!EndOfFile(m)
  BY DEF Record, TxRecord
<1> QED
  BY <1>1, <1>2, <1>3, <1>4, <1>5, <1>6

(* Nodes are functions with value 0 on a finite set of numbers. *)
LEMMA NodeMapIs ==
  ASSUME NEW N \in NodeMap
  PROVE  /\ N = [i \in DOMAIN N |-> 0] /\ DOMAIN N \subseteq Nat /\ IsFiniteSet(DOMAIN N)
         /\ \A i \in DOMAIN N : N[i] = 0
<1>1. PICK S \in {T \in SUBSET Nat : IsFiniteSet(T)} : N \in [S -> {0}]
  BY DEF NodeMap
<1> QED
  BY <1>1

LEMMA NodeMapOf ==
  ASSUME NEW S, S \subseteq Nat, IsFiniteSet(S)
  PROVE  [i \in S |-> 0] \in NodeMap /\ DOMAIN [i \in S |-> 0] = S
<1>1. [i \in S |-> 0] \in [S -> {0}]
  OBVIOUS
<1> QED
  BY <1>1 DEF NodeMap

(* A node more. *)
LEMMA PutNode ==
  ASSUME NEW N \in NodeMap, NEW i \in Nat
  PROVE  /\ F!Put(N, i, 0) = [j \in DOMAIN N \cup {i} |-> 0]
         /\ F!Put(N, i, 0) \in NodeMap
<1>1. \A j \in DOMAIN N : N[j] = 0
  BY NodeMapIs
<1>2. F!Put(N, i, 0) = [j \in DOMAIN N \cup {i} |-> 0]
  BY <1>1 DEF F!Put
<1>3. IsFiniteSet(DOMAIN N \cup {i}) /\ DOMAIN N \cup {i} \subseteq Nat
  BY NodeMapIs, FS_AddElement
<1> QED
  BY <1>2, <1>3, NodeMapOf

(* What records do to d. *)
WithNode(d, i)  == [d EXCEPT !.nodes = [j \in DOMAIN d.nodes \cup {i} |-> 0]]
WithGhost(d, i) == [d EXCEPT !.ghosts = @ \cup {i}]
InDump(d, on)   == [d EXCEPT !.dumpOn = on]
AtEnd(d, m)     == [d EXCEPT !.status = "SUCCESS", !.magic = m]

(* What reading a transaction does. *)
LEMMA ReadTx ==
  ASSUME NEW d \in Loaded, NEW i \in Nat, NEW first, d.status = "READING"
  PROVE  F!ReadRecord(d, TxOf(i), first) =
           IF i \in DOMAIN d.nodes THEN WithGhost(d, i)
           ELSE WithNode(d, i)
<1> DEFINE o == F!Created(i)
<1>1. o.op = "CREATED" /\ o.id = i
  BY DEF F!Created
<1>2. TxOf(i).kind = "transaction" /\ TxOf(i).ops = <<o>>
  BY DEF TxOf, F!Transaction
<1> HIDE DEF o
<1>3. F!ReadRecord(d, TxOf(i), first) = F!ReadTransaction(d, <<o>>)
  BY <1>2 DEF F!ReadRecord
<1>4. F!ReadOperation(d, o) = F!ReadCreate(d, i)
  BY <1>1 DEF F!ReadOperation
<1>5. d.nodes \in NodeMap
  BY DEF Loaded
<1>6. F!Put(d.nodes, i, 0) = [j \in DOMAIN d.nodes \cup {i} |-> 0]
  BY <1>5, PutNode
<1> QED
  BY <1>3, <1>4, <1>6, OneOperation DEF F!ReadCreate, F!Known, WithNode, WithGhost

(* What reading a record of a dump does. *)
LEMMA ReadDump ==
  ASSUME NEW d \in Loaded, NEW i \in Nat, NEW first, d.status = "READING"
  PROVE  /\ F!ReadRecord(d, F!Dumped(i, 0), first) =
              IF ~d.dumpOn THEN F!Corrupted(d)
              ELSE IF ~first THEN d
              ELSE IF i \in DOMAIN d.nodes
                THEN F!Corrupted(WithGhost(d, i))
              ELSE WithNode(d, i)
         /\ F!ReadRecord(d, F!DumpBegin, first) =
              IF d.dumpOn THEN F!Corrupted(d) ELSE InDump(d, TRUE)
         /\ F!ReadRecord(d, F!DumpEnd, first) =
              IF d.dumpOn THEN InDump(d, FALSE) ELSE F!Corrupted(d)
<1>1. F!Put(d.nodes, i, 0) = [j \in DOMAIN d.nodes \cup {i} |-> 0]
  BY PutNode DEF Loaded
<1>2. ASSUME NEW r, r = F!Dumped(i, 0)
      PROVE F!ReadRecord(d, r, first) =
              IF ~d.dumpOn THEN F!Corrupted(d)
              ELSE IF ~first THEN d
              ELSE IF i \in DOMAIN d.nodes
                THEN F!Corrupted(WithGhost(d, i))
              ELSE WithNode(d, i)
  <2>1. r.kind = "dumped" /\ r.id = i /\ r.value = 0
    BY <1>2 DEF F!Dumped
  <2>2. F!ReadRecord(d, r, first) = F!ReadDumped(d, r, first)
    BY <2>1 DEF F!ReadRecord
  <2> QED
    BY <2>1, <2>2, <1>1 DEF F!ReadDumped, F!Known, WithNode, WithGhost
<1>3. ASSUME NEW r, r = F!DumpBegin
      PROVE F!ReadRecord(d, r, first) =
              IF d.dumpOn THEN F!Corrupted(d) ELSE InDump(d, TRUE)
  <2>1. r.kind = "DUMP BEGIN"
    BY <1>3 DEF F!DumpBegin
  <2> QED
    BY <2>1 DEF F!ReadRecord, InDump
<1>4. ASSUME NEW r, r = F!DumpEnd
      PROVE F!ReadRecord(d, r, first) =
              IF d.dumpOn THEN InDump(d, FALSE) ELSE F!Corrupted(d)
  <2>1. r.kind = "DUMP END"
    BY <1>4 DEF F!DumpEnd
  <2> QED
    BY <2>1 DEF F!ReadRecord, InDump
<1> QED
  BY <1>2, <1>3, <1>4

(* What reading the other records does, and reading after the end. *)
LEMMA ReadOther ==
  ASSUME NEW d \in Loaded, NEW first, NEW m
  PROVE  /\ d.status # "READING" => \A r : F!ReadRecord(d, r, first) = d
         /\ d.status = "READING" =>
              /\ F!ReadRecord(d, F!Transaction(<<>>), first) = F!Corrupted(d)
              /\ F!ReadRecord(d, F!Torn, first) = F!Corrupted(d)
              /\ F!ReadRecord(d, F!EndOfFile(m), first) =
                   AtEnd(d, m)
<1>1. ASSUME NEW r, d.status # "READING" PROVE F!ReadRecord(d, r, first) = d
  BY <1>1 DEF F!ReadRecord
<1>2. ASSUME d.status = "READING", NEW r, r = F!Transaction(<<>>)
      PROVE  F!ReadRecord(d, r, first) = F!Corrupted(d)
  <2>1. r.kind = "transaction" /\ r.ops = <<>>
    BY <1>2 DEF F!Transaction
  <2>2. F!ReadRecord(d, r, first) = F!ReadTransaction(d, r.ops)
    BY <1>2, <2>1 DEF F!ReadRecord
  <2> QED
    BY <2>1, <2>2 DEF F!ReadTransaction
<1>3. ASSUME d.status = "READING", NEW r, r = F!Torn
      PROVE  F!ReadRecord(d, r, first) = F!Corrupted(d)
  <2>1. r.kind = "torn"
    BY <1>3 DEF F!Torn
  <2> QED
    BY <1>3, <2>1 DEF F!ReadRecord
<1>4. ASSUME d.status = "READING", NEW r, r = F!EndOfFile(m)
      PROVE  F!ReadRecord(d, r, first) = AtEnd(d, m)
  <2>1. r.kind = "END OF FILE" /\ r.magic = m
    BY <1>4 DEF F!EndOfFile
  <2> QED
    BY <1>4, <2>1 DEF F!ReadRecord, AtEnd
<1> QED
  BY <1>1, <1>2, <1>3, <1>4

(* Reading a record leaves something that can have been loaded; nothing is read
   after an end mark. *)
ReadStatus(d) == d.status \in {"READING", "SUCCESS", "CORRUPTED"}
LEMMA RecordTyped ==
  ASSUME NEW d \in Loaded, ReadStatus(d), NEW r \in Record, NEW first
  PROVE  /\ F!ReadRecord(d, r, first) \in Loaded
         /\ ReadStatus(F!ReadRecord(d, r, first))
         /\ F!ReadRecord(d, r, first).status = "READING" =>
              d.status = "READING" /\ r.kind # "END OF FILE"
<1> DEFINE e == F!ReadRecord(d, r, first)
           Good(x) == /\ x \in Loaded /\ ReadStatus(x)
                      /\ x.status = "READING" => d.status = "READING" /\ r.kind # "END OF FILE"
<1> SUFFICES Good(e)
  OBVIOUS
<1>1. CASE d.status # "READING"
  BY <1>1, ReadOther
<1>2. CASE d.status = "READING"
  <2>1. /\ d.nodes \in NodeMap /\ d.ghosts \in SUBSET Nat /\ d.magic \in Nat /\ d.dumpOn \in BOOLEAN
    BY DEF Loaded
  <2>2. /\ F!Corrupted(d) \in Loaded
        /\ F!Corrupted(d).status = "CORRUPTED"
    BY DEF Loaded, F!Corrupted
  <2>3. ASSUME NEW i \in Nat
        PROVE  /\ WithGhost(d, i) \in Loaded
               /\ WithGhost(d, i).status = "READING"
               /\ F!Corrupted(WithGhost(d, i)) \in Loaded
               /\ F!Corrupted(WithGhost(d, i)).status = "CORRUPTED"
    BY <1>2, <2>1 DEF Loaded, F!Corrupted, WithGhost
  <2>4. ASSUME NEW i \in Nat
        PROVE  /\ WithNode(d, i) \in Loaded
               /\ WithNode(d, i).status = "READING"
    <3>1. [j \in DOMAIN d.nodes \cup {i} |-> 0] \in NodeMap
      <4>1. IsFiniteSet(DOMAIN d.nodes \cup {i}) /\ DOMAIN d.nodes \cup {i} \subseteq Nat
        BY <2>1, NodeMapIs, FS_AddElement
      <4> QED
        BY <4>1, NodeMapOf
    <3> QED
      BY <1>2, <2>1, <3>1 DEF Loaded, WithNode
  <2>5. ASSUME NEW on \in BOOLEAN
        PROVE  InDump(d, on) \in Loaded /\ InDump(d, on).status = "READING"
    BY <1>2, <2>1 DEF Loaded, InDump
  <2>6. ASSUME NEW m \in Nat
        PROVE  /\ AtEnd(d, m) \in Loaded
               /\ AtEnd(d, m).status = "SUCCESS"
    BY <2>1 DEF Loaded, AtEnd
  <2>7. CASE r = F!Transaction(<<>>)
    BY <1>2, <2>2, <2>7, ReadOther DEF ReadStatus
  <2>8. ASSUME NEW i \in Nat, r = TxOf(i), r.kind = "transaction" PROVE Good(e)
    <3>1. e = IF i \in DOMAIN d.nodes THEN WithGhost(d, i)
              ELSE WithNode(d, i)
      BY <1>2, <2>8, ReadTx
    <3> HIDE DEF e
    <3> QED
      BY <1>2, <2>3, <2>4, <2>8, <3>1 DEF ReadStatus
  <2>9. ASSUME NEW i \in Nat, r = F!Dumped(i, 0), r.kind = "dumped" PROVE Good(e)
    <3>1. e = IF ~d.dumpOn THEN F!Corrupted(d)
              ELSE IF ~first THEN d
              ELSE IF i \in DOMAIN d.nodes
                THEN F!Corrupted(WithGhost(d, i))
              ELSE WithNode(d, i)
      <4>1. F!ReadRecord(d, F!Dumped(i, 0), first) =
              IF ~d.dumpOn THEN F!Corrupted(d)
              ELSE IF ~first THEN d
              ELSE IF i \in DOMAIN d.nodes
                THEN F!Corrupted(WithGhost(d, i))
              ELSE WithNode(d, i)
        BY <1>2, ReadDump
      <4> QED
        BY <2>9, <4>1
    <3> HIDE DEF e
    <3> QED
      BY <1>2, <2>2, <2>3, <2>4, <2>9, <3>1 DEF ReadStatus
  <2>10. CASE r = F!DumpBegin /\ r.kind = "DUMP BEGIN"
    <3>1. e = IF d.dumpOn THEN F!Corrupted(d) ELSE InDump(d, TRUE)
      BY <1>2, <2>10, ReadDump
    <3> HIDE DEF e
    <3> QED
      BY <1>2, <2>2, <2>5, <2>10, <3>1 DEF ReadStatus
  <2>11. CASE r = F!DumpEnd /\ r.kind = "DUMP END"
    <3>1. e = IF d.dumpOn THEN InDump(d, FALSE) ELSE F!Corrupted(d)
      BY <1>2, <2>11, ReadDump
    <3> HIDE DEF e
    <3> QED
      BY <1>2, <2>2, <2>5, <2>11, <3>1 DEF ReadStatus
  <2>12. CASE r = F!Torn
    BY <1>2, <2>2, <2>12, ReadOther DEF ReadStatus
  <2>13. ASSUME NEW m \in Nat, r = F!EndOfFile(m) PROVE Good(e)
    <3>1. F!ReadRecord(d, F!EndOfFile(m), first) = AtEnd(d, m)
      BY <1>2, ReadOther
    <3> QED
      BY <2>6, <2>13, <3>1 DEF ReadStatus
  <2> HIDE DEF Good
  <2> QED
    BY <2>7, <2>8, <2>9, <2>10, <2>11, <2>12, <2>13, RecordIs
<1> QED
  BY <1>1, <1>2

(* Reading records leaves something that can have been loaded, and has not come to
   an end if there was none. *)
LEMMA RecordsTyped ==
  ASSUME NEW d \in Loaded, ReadStatus(d), NEW s \in Seq(Record), NEW n \in 0 .. Len(s), NEW first
  PROVE  /\ F!ReadRecords(d, s, n, first) \in Loaded
         /\ ReadStatus(F!ReadRecords(d, s, n, first))
         /\ F!ReadRecords(d, s, n, first).status = "READING" =>
              d.status = "READING" /\ \A k \in 1 .. n : s[k].kind # "END OF FILE"
<1> DEFINE e(k) == F!ReadRecords(d, s, k, first)
           Good(k) == /\ e(k) \in Loaded /\ ReadStatus(e(k))
                      /\ e(k).status = "READING" =>
                           d.status = "READING" /\ \A j \in 1 .. k : s[j].kind # "END OF FILE"
           P == {k \in 0 .. n : Good(k)}
<1>0. n \in Nat /\ Len(s) \in Nat /\ \A k \in 1 .. n : s[k] \in Record
  OBVIOUS
<1>1. 0 \in P
  <2>1. e(0) = d
    BY RecordsRead
  <2>2. Good(0)
    BY <2>1
  <2> HIDE DEF Good
  <2> QED
    BY <2>2, <1>0
<1>2. ASSUME NEW k \in 1 .. n, k - 1 \in P PROVE k \in P
  <2>1. e(k) = F!ReadRecord(e(k - 1), s[k], first)
    BY RecordsRead
  <2>5. Good(k - 1)
    <3> HIDE DEF Good
    <3> QED
      BY <1>2
  <2>2. e(k - 1) \in Loaded /\ ReadStatus(e(k - 1)) /\ s[k] \in Record
    BY <1>0, <2>5
  <2>3. /\ e(k) \in Loaded /\ ReadStatus(e(k))
        /\ e(k).status = "READING" => e(k - 1).status = "READING" /\ s[k].kind # "END OF FILE"
    BY <2>1, <2>2, RecordTyped
  <2>4. \A j \in 1 .. k : j = k \/ j \in 1 .. k - 1
    OBVIOUS
  <2>6. Good(k)
    BY <2>5, <2>3, <2>4
  <2> HIDE DEF Good
  <2> QED
    BY <1>0, <2>6
<1> HIDE DEF P
<1>3. n \in P
  BY <1>1, <1>2, AllUpTo
<1> QED
  BY <1>3 DEF P

(* Loading a file, too; an unfinished one has no end mark. *)
File == [header : BOOLEAN, magic : Nat, records : Seq(Record), synced : Nat]
LEMMA FileTyped ==
  ASSUME NEW d \in Loaded, NEW f \in File, NEW first
  PROVE  /\ F!LoadFile(d, f, first) \in Loaded
         /\ F!LoadFile(d, f, first).status \in {"SUCCESS", "UNFINISHED", "CORRUPTED"}
         /\ F!LoadFile(d, f, first).status = "UNFINISHED" => ~Closed(f)
<1> DEFINE start == [d EXCEPT !.dumpOn = FALSE, !.status = "READING"]
           end == F!ReadRecords(start, f.records, Len(f.records), first)
           broken == ~F!HeaderFits(d, f) \/ (first /\ ~F!BeginsWithDump(f))
<1>1. start \in Loaded /\ ReadStatus(start) /\ f.records \in Seq(Record)
  BY DEF Loaded, ReadStatus, File
<1>2. F!LoadFile(d, f, first) =
        IF broken THEN [start EXCEPT !.status = "CORRUPTED"]
        ELSE IF end.status = "READING" THEN [end EXCEPT !.status = "UNFINISHED"] ELSE end
  BY DEF F!LoadFile, F!Corrupted
<1>3. Len(f.records) \in 0 .. Len(f.records) /\ DOMAIN f.records = 1 .. Len(f.records)
  BY <1>1
<1>4. /\ end \in Loaded /\ ReadStatus(end)
      /\ end.status = "READING" => \A k \in 1 .. Len(f.records) : f.records[k].kind # "END OF FILE"
  <2> HIDE DEF start
  <2> QED
    BY <1>1, <1>3, RecordsTyped
<1> HIDE DEF broken, start, end
<1>5. [start EXCEPT !.status = "CORRUPTED"] \in Loaded
  BY <1>1 DEF Loaded
<1>6. [end EXCEPT !.status = "UNFINISHED"] \in Loaded /\ [end EXCEPT !.status = "UNFINISHED"].status = "UNFINISHED"
  BY <1>4 DEF Loaded
<1>7. [start EXCEPT !.status = "CORRUPTED"].status = "CORRUPTED"
  BY <1>1 DEF Loaded
<1> QED
  BY <1>2, <1>3, <1>4, <1>5, <1>6, <1>7 DEF Closed, ReadStatus

(* And so does loading all of them. *)
LEMMA FilesTyped ==
  ASSUME NEW fs \in Seq(File), NEW n \in 0 .. Len(fs)
  PROVE  /\ LoadFiles(fs, n) \in Loaded
         /\ n = 0 => LoadFiles(fs, n).status = "READING"
         /\ n > 0 => LoadFiles(fs, n).status \in {"SUCCESS", "UNFINISHED", "CORRUPTED"}
<1> DEFINE P == {k \in 0 .. n : /\ LoadFiles(fs, k) \in Loaded
                                /\ k = 0 => LoadFiles(fs, k).status = "READING"
                                /\ k > 0 => LoadFiles(fs, k).status \in {"SUCCESS", "UNFINISHED", "CORRUPTED"}}
<1>1. 0 \in P
  <2>1. F!Nothing \in Loaded /\ F!Nothing.status = "READING"
    <3>1. [i \in {} |-> 0] \in NodeMap
      BY NodeMapOf, FS_EmptySet
    <3>2. << >> = [i \in {} |-> 0]
      OBVIOUS
    <3> QED
      BY <3>1, <3>2 DEF F!Nothing, Loaded
  <2> QED
    BY <2>1, FilesLoaded
<1>2. ASSUME NEW k \in 1 .. n, k - 1 \in P PROVE k \in P
  <2>1. LoadFiles(fs, k) = LoadNext(LoadFiles(fs, k - 1), fs[k], k)
    BY FilesLoaded
  <2>2. fs[k] \in File
    OBVIOUS
  <2>3. LoadFiles(fs, k - 1) \in Loaded
    BY <1>2
  <2> QED
    BY <2>1, <2>2, <2>3, FileTyped DEF LoadNext, Stops
<1> HIDE DEF P
<1>3. n \in P
  BY <1>1, <1>2, AllUpTo
<1> QED
  BY <1>3 DEF P

(* What the variables can be. *)
FileTypes ==
  /\ files \in Seq(File) /\ created \in Nat
  /\ stage \in {"down", "readonly", "open", "head", "finish", "up", "dump", "dumped"}
  /\ task \in {"start", "new file", "dump"}
  /\ fd \in 0 .. Len(files)
  /\ buffer \in Seq(TxRecord) /\ mem \in NodeMap
  /\ committed \in SUBSET Nat /\ acked \in SUBSET Nat
  /\ excuse \in SUBSET {"reopened", "memory", "end mark"}

(* Where the program is in its files. *)
StagesFit ==
  /\ stage \in {"down", "readonly", "open", "head"} => fd = 0
  /\ stage \in {"finish", "dump", "dumped"} => fd = Len(files) /\ fd # 0
  /\ stage = "head" => files # <<>>
  /\ stage = "finish" => task = "start"
  /\ stage # "up" => buffer = <<>>

PlacesInv == FileTypes /\ StagesFit /\ AppendsToLast

(* Writing to the end of a file. *)
LEMMA ExtendedIs ==
  ASSUME NEW f \in File, NEW s \in Seq(Record)
  PROVE  /\ Extended(f, s) \in File
         /\ Extended(f, s).header = f.header /\ Extended(f, s).magic = f.magic
         /\ Extended(f, s).synced = f.synced
         /\ Extended(f, s).records = f.records \o s
         /\ Len(Extended(f, s).records) = Len(f.records) + Len(s)
         /\ \A i \in 1 .. Len(f.records) : Extended(f, s).records[i] = f.records[i]
         /\ \A i \in 1 .. Len(s) : Extended(f, s).records[Len(f.records) + i] = s[i]
<1>1. f.records \in Seq(Record) /\ Len(f.records) \in Nat /\ Len(s) \in Nat
  BY DEF File
<1>2. /\ Extended(f, s).header = f.header /\ Extended(f, s).magic = f.magic
      /\ Extended(f, s).synced = f.synced /\ Extended(f, s).records = f.records \o s
  BY DEF Extended, File
<1>3. Extended(f, s) \in File
  <2>1. f.records \o s \in Seq(Record)
    BY <1>1
  <2> QED
    BY <2>1 DEF Extended, File
<1>4. /\ Len(f.records \o s) = Len(f.records) + Len(s)
      /\ \A i \in 1 .. Len(f.records) : (f.records \o s)[i] = f.records[i]
      /\ \A i \in 1 .. Len(s) : (f.records \o s)[Len(f.records) + i] = s[i]
  BY <1>1
<1> QED
  BY <1>2, <1>3, <1>4

(* fsync. *)
LEMMA SyncedIs ==
  ASSUME NEW f \in File
  PROVE  /\ Synced(f) \in File
         /\ Synced(f).header = f.header /\ Synced(f).magic = f.magic
         /\ Synced(f).records = f.records /\ Synced(f).synced = Len(f.records)
<1>1. f.records \in Seq(Record) /\ Len(f.records) \in Nat
  BY DEF File
<1> QED
  BY <1>1 DEF Synced, File

(* A file is closed if it has an end mark. *)
IsEnd(r) == r.kind = "END OF FILE"
LEMMA ClosedIs ==
  ASSUME NEW f \in File
  PROVE  Closed(f) <=> \E i \in 1 .. Len(f.records) : IsEnd(f.records[i])
<1>1. DOMAIN f.records = 1 .. Len(f.records)
  BY DEF File
<1> QED
  BY <1>1 DEF Closed, IsEnd

(* Records without an end mark leave a file open. *)
LEMMA ExtendedOpen ==
  ASSUME NEW f \in File, NEW s \in Seq(Record), ~Closed(f),
         \A i \in 1 .. Len(s) : ~IsEnd(s[i])
  PROVE  ~Closed(Extended(f, s))
<1>1. f.records \in Seq(Record) /\ Len(f.records) \in Nat /\ Len(s) \in Nat
  BY DEF File
<1>2. ASSUME NEW i \in 1 .. Len(f.records) + Len(s)
      PROVE  ~IsEnd(Extended(f, s).records[i])
  <2>1. CASE i <= Len(f.records)
    BY <1>1, <2>1, ClosedIs, ExtendedIs
  <2>2. CASE i > Len(f.records)
    <3>1. i - Len(f.records) \in 1 .. Len(s) /\ i = Len(f.records) + (i - Len(f.records))
      BY <1>1, <2>2
    <3> DEFINE j == i - Len(f.records)
    <3>2. Extended(f, s).records[Len(f.records) + j] = s[j]
      BY <3>1, ExtendedIs
    <3> QED
      BY <3>1, <3>2
  <2> QED
    BY <1>1, <2>1, <2>2
<1> QED
  BY <1>1, <1>2, ClosedIs, ExtendedIs

(* What the program puts into its buffer is records that are no end marks. *)
LEMMA BufferIs ==
  ASSUME NEW s \in Seq(TxRecord)
  PROVE  s \in Seq(Record) /\ \A i \in 1 .. Len(s) : ~IsEnd(s[i])
<1>1. TxRecord \subseteq Record
  BY DEF Record
<1>2. ASSUME NEW r \in TxRecord PROVE ~IsEnd(r)
  <2>1. ASSUME NEW ops, r = F!Transaction(ops) PROVE ~IsEnd(r)
    BY <2>1 DEF F!Transaction, IsEnd
  <2>2. \E ops : r = F!Transaction(ops)
    BY DEF TxRecord, TxOf
  <2> QED
    BY <2>1, <2>2
<1> QED
  BY <1>1, <1>2

(* Replacing a file. *)
LEMMA FileReplaced ==
  ASSUME NEW fs \in Seq(File), NEW k \in 1 .. Len(fs), NEW g \in File
  PROVE  /\ [fs EXCEPT ![k] = g] \in Seq(File) /\ Len([fs EXCEPT ![k] = g]) = Len(fs)
         /\ [fs EXCEPT ![k] = g][k] = g
         /\ \A j \in 1 .. Len(fs) : j # k => [fs EXCEPT ![k] = g][j] = fs[j]
  OBVIOUS

(* The records the program writes itself. *)
LEMMA MarksAre ==
  ASSUME NEW m \in Nat
  PROVE  /\ <<F!EndOfFile(m)>> \in Seq(Record) /\ IsEnd(F!EndOfFile(m)) /\ F!EndOfFile(m).magic = m
         /\ <<F!DumpBegin>> \in Seq(Record) /\ ~IsEnd(F!DumpBegin)
         /\ <<F!DumpEnd>> \in Seq(Record) /\ ~IsEnd(F!DumpEnd)
         /\ F!Torn \in Record /\ ~IsEnd(F!Torn)
<1>1. /\ F!EndOfFile(m) \in Record /\ F!DumpBegin \in Record /\ F!DumpEnd \in Record /\ F!Torn \in Record
  BY DEF Record
<1>2. IsEnd(F!EndOfFile(m)) /\ F!EndOfFile(m).magic = m
  BY DEF F!EndOfFile, IsEnd
<1>3. ~IsEnd(F!DumpBegin)
  BY DEF F!DumpBegin, IsEnd
<1>4. ~IsEnd(F!DumpEnd)
  BY DEF F!DumpEnd, IsEnd
<1>5. ~IsEnd(F!Torn)
  BY DEF F!Torn, IsEnd
<1>6. <<F!EndOfFile(m)>> \in Seq(Record) /\ <<F!DumpBegin>> \in Seq(Record) /\ <<F!DumpEnd>> \in Seq(Record)
  BY <1>1
<1> QED
  BY <1>1, <1>2, <1>3, <1>4, <1>5, <1>6

-----------------------------------------------------------------------------
(* Types, places and what is appended to *)

(* A start goes on in a file only if it is the last one and has no end mark. *)
LEMMA UnfinishedIsLast ==
  ASSUME NEW fs \in Seq(File), LastLoaded(fs), LoadAll(fs).status = "UNFINISHED"
  PROVE  Len(fs) > 0 /\ ~Closed(fs[Len(fs)])
<1> DEFINE n == Len(fs)
<1>1. n \in Nat /\ LoadFiles(fs, n).status = "UNFINISHED" /\ n \in 0 .. n
  BY DEF LoadAll
<1>2. n > 0
  BY <1>1, FilesTyped
<1>3. LoadFiles(fs, n) = LoadNext(LoadFiles(fs, n - 1), fs[n], n)
  BY <1>1, <1>2, FilesLoaded
<1>4. LoadFiles(fs, n - 1) \in Loaded /\ LoadFiles(fs, n - 1).status \in {"READING", "SUCCESS"}
  <2>1. n - 1 \in 0 .. n
    BY <1>1, <1>2
  <2>2. CASE n = 1
    BY <2>1, <2>2, FilesTyped
  <2>3. CASE n > 1
    <3>1. n - 1 \in 1 .. Len(fs) - 1
      BY <1>1, <2>3
    <3> QED
      BY <2>1, <3>1, FilesTyped DEF LastLoaded
  <2> HIDE DEF n
  <2> QED
    BY <1>1, <1>2, <2>2, <2>3
<1>5. ~Stops(LoadFiles(fs, n - 1)) /\ fs[n] \in File
  BY <1>1, <1>2, <1>4 DEF Stops
<1> HIDE DEF n
<1>6. F!LoadFile(LoadFiles(fs, n - 1), fs[n], n = 1).status = "UNFINISHED"
  BY <1>1, <1>3, <1>5 DEF LoadNext
<1> QED
  BY <1>2, <1>4, <1>5, <1>6, FileTyped DEF n

(* A start. *)
LEMMA StartPlaces ==
  ASSUME PlacesInv, Start
  PROVE  PlacesInv'
<1> DEFINE d == LoadAll(files)
           readOnly == d.status = "CORRUPTED" \/ ~LastLoaded(files)
<1>1. FileTypes /\ files \in Seq(File) /\ Len(files) \in Nat /\ buffer = <<>>
  <2>1. stage = "down"
    BY DEF Start
  <2>2. FileTypes /\ StagesFit
    BY DEF PlacesInv
  <2>3. buffer = <<>>
    BY <2>1, <2>2 DEF StagesFit
  <2>4. files \in Seq(File)
    BY <2>2 DEF FileTypes
  <2> QED
    BY <2>2, <2>3, <2>4
<1>2. d \in Loaded /\ d.nodes \in NodeMap
  <2>1. Len(files) \in 0 .. Len(files)
    BY <1>1
  <2> QED
    BY <1>1, <2>1, FilesTyped DEF LoadAll, Loaded
<1>3. /\ mem' = d.nodes /\ task' = "start" /\ UNCHANGED <<files, created, buffer, excuse>>
      /\ \/ readOnly /\ stage' = "readonly" /\ fd' = 0 /\ UNCHANGED <<committed, acked>>
         \/ /\ ~readOnly
            /\ \/ d.status = "UNFINISHED" /\ stage' = "up" /\ fd' = Len(files)
               \/ d.status # "UNFINISHED" /\ stage' = "open" /\ fd' = 0
            /\ committed' = committed \cap DOMAIN d.nodes
            /\ acked' = acked \cap DOMAIN d.nodes
  BY DEF Start, onDisk
<1> HIDE DEF d, readOnly
<1>4. ~readOnly /\ d.status = "UNFINISHED" => Len(files) > 0 /\ ~Closed(files[Len(files)])
  BY <1>1, UnfinishedIsLast DEF d, readOnly
<1>5. FileTypes'
  <2>1. committed \in SUBSET Nat /\ acked \in SUBSET Nat
    BY <1>1 DEF FileTypes
  <2>2. committed' \in SUBSET Nat /\ acked' \in SUBSET Nat
    BY <1>3, <2>1
  <2>3. fd' \in 0 .. Len(files') /\ stage' \in {"up", "open", "readonly"}
    BY <1>1, <1>3
  <2> QED
    BY <1>1, <1>2, <1>3, <2>2, <2>3 DEF FileTypes
<1>6. StagesFit'
  BY <1>1, <1>3 DEF StagesFit
<1>7. AppendsToLast'
  BY <1>1, <1>3, <1>4 DEF AppendsToLast
<1> QED
  BY <1>5, <1>6, <1>7 DEF PlacesInv

(* The file that is written to is one of the files. *)
LEMMA WrittenTo ==
  ASSUME PlacesInv
  PROVE  /\ files \in Seq(File) /\ Len(files) \in Nat /\ fd \in 0 .. Len(files)
         /\ fd # 0 => fd \in 1 .. Len(files)
<1>1. files \in Seq(File) /\ fd \in 0 .. Len(files)
  BY DEF PlacesInv, FileTypes
<1>2. Len(files) \in Nat
  BY <1>1
<1> QED
  BY <1>1, <1>2

(* A write to the file that is written to. *)
LEMMA WritePlaces ==
  ASSUME PlacesInv, fd # 0, NEW g \in File, files' = [files EXCEPT ![fd] = g],
         fd' = 0 \/ (fd' = fd /\ ("reopened" \notin excuse => ~Closed(g))), excuse' = excuse
  PROVE  files' \in Seq(File) /\ Len(files') = Len(files) /\ fd' \in 0 .. Len(files') /\ AppendsToLast'
<1>1. files \in Seq(File) /\ fd \in 1 .. Len(files) /\ Len(files) \in Nat
  BY WrittenTo
<1>2. files' \in Seq(File) /\ Len(files') = Len(files) /\ files'[fd] = g
  BY <1>1, FileReplaced
<1>3. fd' \in 0 .. Len(files')
  BY <1>1, <1>2
<1>4. AppendsToLast'
  <2>1. AppendsToLast
    BY DEF PlacesInv
  <2> QED
    BY <1>2, <2>1 DEF AppendsToLast
<1> QED
  BY <1>2, <1>3, <1>4

(* What is written to the file. *)
LEMMA FileIs ==
  ASSUME PlacesInv, fd # 0
  PROVE  /\ files[fd] \in File /\ fd \in 1 .. Len(files)
         /\ buffer \in Seq(Record) /\ \A i \in 1 .. Len(buffer) : ~IsEnd(buffer[i])
         /\ "reopened" \notin excuse => fd = Len(files) /\ ~Closed(files[fd])
<1>1. files \in Seq(File) /\ fd \in 1 .. Len(files) /\ buffer \in Seq(TxRecord)
  BY WrittenTo DEF PlacesInv, FileTypes
<1>2. files[fd] \in File
  BY <1>1
<1>3. "reopened" \notin excuse => fd = Len(files) /\ ~Closed(files[fd])
  BY DEF PlacesInv, AppendsToLast
<1> QED
  BY <1>1, <1>2, <1>3, BufferIs

(* The records of a dump of all nodes, in an order. *)
OrderOf(order, S) ==
  /\ order \in Seq(S) /\ Len(order) = Cardinality(S) /\ DOMAIN order = 1 .. Cardinality(S)
  /\ \A i \in 1 .. Cardinality(S) : order[i] \in S
  /\ \A i, j \in 1 .. Cardinality(S) : i # j => order[i] # order[j]
LEMMA OrderIs ==
  ASSUME NEW S, IsFiniteSet(S), NEW order
  PROVE  order \in SetToSeqs(S) <=> OrderOf(order, S)
<1>1. Cardinality(S) \in Nat
  BY FS_CardinalityType
<1>2. ASSUME order \in SetToSeqs(S) PROVE OrderOf(order, S)
  BY <1>1, <1>2 DEF SetToSeqs, OrderOf
<1>3. ASSUME OrderOf(order, S) PROVE order \in SetToSeqs(S)
  <2>1. order \in [1 .. Cardinality(S) -> S]
    BY <1>1, <1>3 DEF OrderOf
  <2> QED
    BY <2>1, <1>3 DEF SetToSeqs, OrderOf
<1> QED
  BY <1>2, <1>3

LEMMA DumpIs ==
  ASSUME NEW N \in NodeMap, NEW order \in SetToSeqs(DOMAIN N)
  PROVE  LET dump == [k \in DOMAIN order |-> F!Dumped(order[k], N[order[k]])]
         IN  /\ dump \in Seq(Record) /\ Len(dump) = Cardinality(DOMAIN N)
             /\ \A i \in 1 .. Len(dump) : dump[i] = F!Dumped(order[i], 0) /\ ~IsEnd(dump[i])
<1> DEFINE S == DOMAIN N
           c == Cardinality(S)
           dump == [k \in DOMAIN order |-> F!Dumped(order[k], N[order[k]])]
<1>1. S \subseteq Nat /\ IsFiniteSet(S) /\ \A i \in S : N[i] = 0
  BY NodeMapIs
<1>2. OrderOf(order, S) /\ c \in Nat
  BY <1>1, OrderIs, FS_CardinalityType
<1>3. ASSUME NEW k \in 1 .. c
      PROVE  dump[k] = F!Dumped(order[k], 0) /\ dump[k] \in Record /\ ~IsEnd(dump[k])
  <2>1. order[k] \in Nat /\ N[order[k]] = 0 /\ k \in DOMAIN order
    BY <1>1, <1>2 DEF OrderOf
  <2>2. dump[k] = F!Dumped(order[k], 0)
    BY <2>1
  <2>3. ASSUME NEW r, r = F!Dumped(order[k], 0) PROVE ~IsEnd(r)
    BY <2>3 DEF F!Dumped, IsEnd
  <2> QED
    BY <2>1, <2>2, <2>3 DEF Record
<1>4. dump = [k \in 1 .. c |-> dump[k]]
  BY <1>2 DEF OrderOf
<1> HIDE DEF dump, c
<1>5. dump \in Seq(Record) /\ Len(dump) = c
  BY <1>2, <1>3, <1>4
<1> QED
  BY <1>3, <1>5 DEF dump, c

(* The steps that write to the file. *)
Writes == \/ \E t \in {"new file", "dump"} : CloseOld(t)
          \/ FinishStart \/ Spill \/ Sync \/ Dump \/ DumpSync \/ Close
LEMMA WritesPlaces ==
  ASSUME PlacesInv, Writes
  PROVE  PlacesInv'
<1>1. FileTypes /\ StagesFit /\ AppendsToLast
  BY DEF PlacesInv
<1>2. /\ files \in Seq(File) /\ Len(files) \in Nat /\ fd \in 0 .. Len(files)
      /\ created \in Nat /\ created + 1 \in Nat /\ << >> \in Seq(TxRecord)
  <2>1. created \in Nat
    BY <1>1 DEF FileTypes
  <2>3. created + 1 \in Nat
    BY <2>1
  <2>2. << >> \in Seq(TxRecord)
    OBVIOUS
  <2> QED
    BY <2>1, <2>2, <2>3, WrittenTo
<1>3. ASSUME NEW t \in {"new file", "dump"}, CloseOld(t) PROVE PlacesInv'
  <2> DEFINE f == Extended(files[fd], buffer)
             g == Extended(Synced(f), <<F!EndOfFile(created + 1)>>)
  <2>1. /\ stage = "up" /\ fd # 0 /\ files' = [files EXCEPT ![fd] = g] /\ buffer' = <<>> /\ fd' = 0
        /\ acked' = committed /\ stage' = "open" /\ task' = t
        /\ UNCHANGED <<created, mem, committed, excuse, starts>>
    BY <1>3 DEF CloseOld
  <2>2. f \in File
    BY <2>1, FileIs, ExtendedIs
  <2>3. g \in File
    BY <1>2, <2>2, SyncedIs, ExtendedIs, MarksAre
  <2> HIDE DEF g
  <2>4. files' \in Seq(File) /\ Len(files') = Len(files) /\ fd' \in 0 .. Len(files') /\ AppendsToLast'
    BY <2>1, <2>3, WritePlaces
  <2>5. FileTypes'
    BY <1>1, <1>2, <2>1, <2>4 DEF FileTypes
  <2>6. StagesFit'
    BY <2>1 DEF StagesFit
  <2> QED
    BY <2>4, <2>5, <2>6 DEF PlacesInv
<1>4. CASE FinishStart
  <2>1. stage = "finish" /\ fd = Len(files) /\ fd # 0 /\ stage' = "up" /\ buffer = <<>>
        /\ UNCHANGED <<created, task, buffer, mem, committed, acked, starts>>
    BY <1>1, <1>4 DEF FinishStart, StagesFit
  <2>2. CASE Len(files) = 1
    <3> DEFINE g == Extended(files[fd], <<F!DumpEnd>>)
    <3>1. files' = [files EXCEPT ![fd] = g] /\ UNCHANGED <<fd, excuse>>
      BY <1>4, <2>2 DEF FinishStart
    <3>2. g \in File /\ ("reopened" \notin excuse => ~Closed(g))
      <4>1. <<F!DumpEnd>> \in Seq(Record) /\ \A i \in 1 .. Len(<<F!DumpEnd>>) : ~IsEnd(<<F!DumpEnd>>[i])
        <5>1. F!DumpEnd \in Record /\ ~IsEnd(F!DumpEnd)
          BY <1>2, MarksAre DEF Record
        <5> QED
          BY <5>1
      <4> QED
        BY <2>1, <4>1, FileIs, ExtendedIs, ExtendedOpen
    <3> HIDE DEF g
    <3>3. files' \in Seq(File) /\ Len(files') = Len(files) /\ fd' \in 0 .. Len(files') /\ AppendsToLast'
      BY <2>1, <3>1, <3>2, WritePlaces
    <3>4. FileTypes'
      BY <1>1, <2>1, <3>1, <3>3 DEF FileTypes
    <3>5. StagesFit'
      BY <2>1, <3>1, <3>3 DEF StagesFit
    <3> QED
      BY <3>3, <3>4, <3>5 DEF PlacesInv
  <2>3. CASE Len(files) # 1
    <3>1. fd' = Len(files) - 1 /\ excuse' = excuse \cup {"reopened"} /\ UNCHANGED files
      BY <1>4, <2>3 DEF FinishStart
    <3>2. FileTypes'
      <4>1. fd' \in 0 .. Len(files')
        <5>1. Len(files) > 0 /\ files' = files
          BY <1>2, <2>1, <3>1
        <5> QED
          BY <1>2, <3>1, <5>1
      <4>2. excuse' \in SUBSET {"reopened", "memory", "end mark"}
        BY <1>1, <3>1 DEF FileTypes
      <4> QED
        BY <1>1, <2>1, <3>1, <4>1, <4>2 DEF FileTypes
    <3>3. StagesFit'
      BY <2>1 DEF StagesFit
    <3>4. AppendsToLast'
      BY <3>1 DEF AppendsToLast
    <3> QED
      BY <3>2, <3>3, <3>4 DEF PlacesInv
  <2> QED
    BY <2>2, <2>3
<1>5. CASE Spill
  <2> DEFINE g == Extended(files[fd], buffer)
  <2>1. /\ stage = "up" /\ fd # 0 /\ files' = [files EXCEPT ![fd] = g] /\ buffer' = <<>>
        /\ UNCHANGED <<created, stage, task, fd, mem, committed, acked, excuse, starts>>
    BY <1>5 DEF Spill, history
  <2>2. g \in File /\ ("reopened" \notin excuse => ~Closed(g))
    BY <2>1, FileIs, ExtendedIs, ExtendedOpen
  <2> HIDE DEF g
  <2>3. files' \in Seq(File) /\ Len(files') = Len(files) /\ fd' \in 0 .. Len(files') /\ AppendsToLast'
    BY <2>1, <2>2, WritePlaces
  <2>4. FileTypes'
    BY <1>1, <1>2, <2>1, <2>3 DEF FileTypes
  <2>5. StagesFit'
    BY <1>1, <2>1 DEF StagesFit
  <2> QED
    BY <2>3, <2>4, <2>5 DEF PlacesInv
<1>6. CASE Sync \/ Close
  <2> DEFINE f == Extended(files[fd], buffer)
             g == Synced(f)
  <2>1. /\ stage = "up" /\ fd # 0 /\ files' = [files EXCEPT ![fd] = g] /\ buffer' = <<>>
        /\ acked' = committed /\ UNCHANGED <<created, task, mem, committed, excuse, starts>>
        /\ \/ stage' = stage /\ fd' = fd
           \/ stage' = "down" /\ fd' = 0
    BY <1>6 DEF Sync, Close
  <2>2. f \in File /\ ("reopened" \notin excuse => ~Closed(f))
    BY <2>1, FileIs, ExtendedIs, ExtendedOpen
  <2>3. g \in File /\ g.records = f.records
    BY <2>2, SyncedIs
  <2> HIDE DEF f, g
  <2>4. "reopened" \notin excuse => ~Closed(g)
    BY <2>2, <2>3 DEF Closed
  <2>5. files' \in Seq(File) /\ Len(files') = Len(files) /\ fd' \in 0 .. Len(files') /\ AppendsToLast'
    BY <2>1, <2>3, <2>4, WritePlaces
  <2>6. FileTypes'
    BY <1>1, <1>2, <2>1, <2>5 DEF FileTypes
  <2>7. StagesFit'
    BY <2>1 DEF StagesFit
  <2> QED
    BY <2>5, <2>6, <2>7 DEF PlacesInv
<1>7. CASE Dump
  <2>1. PICK order \in SetToSeqs(Nodes) :
          files' = [files EXCEPT ![fd] = Extended(@, Append(
                     [k \in DOMAIN order |-> F!Dumped(order[k], mem[order[k]])], F!DumpEnd))]
    BY <1>7 DEF Dump
  <2> DEFINE dump == [k \in DOMAIN order |-> F!Dumped(order[k], mem[order[k]])]
             g == Extended(files[fd], Append(dump, F!DumpEnd))
  <2>2. /\ stage = "dump" /\ fd # 0 /\ files' = [files EXCEPT ![fd] = g] /\ stage' = "dumped"
        /\ fd = Len(files)
        /\ UNCHANGED <<created, task, fd, buffer, mem, committed, acked, excuse, starts>>
    BY <1>1, <1>7, <2>1 DEF Dump, StagesFit, history
  <2>3. /\ dump \in Seq(Record) /\ \A i \in 1 .. Len(dump) : ~IsEnd(dump[i])
    <3>1. mem \in NodeMap /\ order \in SetToSeqs(DOMAIN mem)
      BY <1>1, <2>1 DEF FileTypes, Nodes
    <3> QED
      BY <3>1, DumpIs
  <2> HIDE DEF dump
  <2>4. /\ Append(dump, F!DumpEnd) \in Seq(Record)
        /\ \A i \in 1 .. Len(Append(dump, F!DumpEnd)) : ~IsEnd(Append(dump, F!DumpEnd)[i])
    <3>1. F!DumpEnd \in Record /\ ~IsEnd(F!DumpEnd)
      BY <1>2, MarksAre DEF Record
    <3>2. ASSUME NEW i \in 1 .. Len(dump) + 1 PROVE ~IsEnd(Append(dump, F!DumpEnd)[i])
      BY <2>3, <3>1
    <3> QED
      BY <2>3, <3>1, <3>2
  <2>5. g \in File /\ ("reopened" \notin excuse => ~Closed(g))
    BY <2>2, <2>4, FileIs, ExtendedIs, ExtendedOpen
  <2> HIDE DEF g
  <2>6. files' \in Seq(File) /\ Len(files') = Len(files) /\ fd' \in 0 .. Len(files') /\ AppendsToLast'
    BY <2>2, <2>5, WritePlaces
  <2>7. FileTypes'
    BY <1>1, <2>2, <2>6 DEF FileTypes
  <2>8. StagesFit'
    BY <1>1, <2>2, <2>6 DEF StagesFit
  <2> QED
    BY <2>6, <2>7, <2>8 DEF PlacesInv
<1>8. CASE DumpSync
  <2> DEFINE g == Synced(files[fd])
  <2>1. /\ stage = "dumped" /\ fd # 0 /\ files' = [files EXCEPT ![fd] = g] /\ stage' = "up"
        /\ fd = Len(files) /\ buffer = <<>>
        /\ UNCHANGED <<created, task, fd, buffer, mem, committed, acked, excuse, starts>>
    BY <1>1, <1>8 DEF DumpSync, StagesFit, history
  <2>2. g \in File /\ g.records = files[fd].records
    BY <2>1, FileIs, SyncedIs
  <2> HIDE DEF g
  <2>3. "reopened" \notin excuse => ~Closed(g)
    BY <2>1, <2>2, FileIs DEF Closed
  <2>4. files' \in Seq(File) /\ Len(files') = Len(files) /\ fd' \in 0 .. Len(files') /\ AppendsToLast'
    BY <2>1, <2>2, <2>3, WritePlaces
  <2>5. FileTypes'
    BY <1>1, <1>2, <2>1, <2>4 DEF FileTypes
  <2>6. StagesFit'
    BY <1>1, <2>1, <2>4 DEF StagesFit
  <2> QED
    BY <2>4, <2>5, <2>6 DEF PlacesInv
<1> QED
  BY <1>3, <1>4, <1>5, <1>6, <1>7, <1>8 DEF Writes

(* A file with its header and first records, on the disk. *)
HeadOf(f, magic, begin) ==
  Synced([f EXCEPT !.header = TRUE, !.magic = magic, !.records = begin])
LEMMA HeadIs ==
  ASSUME NEW f \in File, NEW magic \in Nat, NEW begin \in Seq(Record)
  PROVE  /\ HeadOf(f, magic, begin) \in File
         /\ HeadOf(f, magic, begin).header = TRUE /\ HeadOf(f, magic, begin).magic = magic
         /\ HeadOf(f, magic, begin).records = begin /\ HeadOf(f, magic, begin).synced = Len(begin)
<1> DEFINE h == [f EXCEPT !.header = TRUE, !.magic = magic, !.records = begin]
<1>1. h \in File /\ h.header = TRUE /\ h.magic = magic /\ h.records = begin
  BY DEF File
<1> HIDE DEF h
<1>2. HeadOf(f, magic, begin) = Synced(h)
  BY DEF HeadOf, h
<1> QED
  BY <1>1, <1>2, SyncedIs

(* What the program makes of the last file when it writes the header. *)
HeadMagic == IF task = "start" THEN LoadFiles(files, Len(files) - 1).magic ELSE created
HeadBegin == IF task = "dump" \/ Len(files) = 1 THEN <<F!DumpBegin>> ELSE <<>>
Headed(g) ==
  /\ g.header = TRUE /\ g.magic = HeadMagic /\ g.records = HeadBegin
  /\ g.synced = Len(HeadBegin) /\ ~Closed(g)
  /\ Len(files) \in 1 .. Len(files) /\ buffer = <<>>
  /\ files' = [files EXCEPT ![Len(files)] = g] /\ fd' = Len(files)
  /\ stage = "head" /\ stage' \in {"finish", "up", "dump"}
  /\ stage' = "finish" <=> task = "start"
  /\ stage' = "dump" <=> task = "dump"
  /\ UNCHANGED <<created, task, buffer, mem, committed, acked, excuse, starts>>
LEMMA WriteHeadIs ==
  ASSUME PlacesInv, WriteHead
  PROVE  \E g \in File : Headed(g)
<1>1. /\ FileTypes /\ StagesFit /\ files \in Seq(File) /\ Len(files) \in Nat
      /\ created \in Nat /\ stage = "head"
  BY WrittenTo DEF PlacesInv, FileTypes, WriteHead
<1>2. files # <<>> /\ buffer = <<>>
  BY <1>1 DEF StagesFit
<1>3. Len(files) \in 1 .. Len(files) /\ Len(files) - 1 \in 0 .. Len(files)
  BY <1>1, <1>2
<1>4. task \in {"start", "new file", "dump"}
  BY <1>1 DEF FileTypes
<1>5. HeadMagic \in Nat
  <2>1. LoadFiles(files, Len(files) - 1).magic \in Nat
    BY <1>1, <1>3, FilesTyped DEF Loaded
  <2> QED
    BY <1>1, <2>1 DEF HeadMagic
<1>6. HeadBegin \in Seq(Record) /\ \A i \in 1 .. Len(HeadBegin) : ~IsEnd(HeadBegin[i])
  <2>1. F!DumpBegin \in Record /\ ~IsEnd(F!DumpBegin)
    BY <1>1, MarksAre DEF Record
  <2> QED
    BY <2>1 DEF HeadBegin
<1>7. files[Len(files)] \in File
  BY <1>1, <1>3
<1> DEFINE g == HeadOf(files[Len(files)], HeadMagic, HeadBegin)
<1>8. /\ files' = [files EXCEPT ![Len(files)] = g] /\ fd' = Len(files)
      /\ stage' = CASE task = "start" -> "finish" [] task = "new file" -> "up" [] task = "dump" -> "dump"
      /\ UNCHANGED <<created, task, buffer, mem, committed, acked, excuse, starts>>
  BY DEF WriteHead, history, HeadOf, HeadMagic, HeadBegin
<1>9. /\ g \in File /\ g.header = TRUE /\ g.magic = HeadMagic /\ g.records = HeadBegin
      /\ g.synced = Len(HeadBegin)
  BY <1>5, <1>6, <1>7, HeadIs
<1> HIDE DEF g
<1>10. ~Closed(g)
  BY <1>6, <1>9, ClosedIs
<1>11. /\ stage' \in {"finish", "up", "dump"}
       /\ stage' = "finish" <=> task = "start"
       /\ stage' = "dump" <=> task = "dump"
  BY <1>4, <1>8
<1> QED
  BY <1>1, <1>2, <1>3, <1>8, <1>9, <1>10, <1>11 DEF Headed

(* A new file, and its header. *)
LEMMA NewFilePlaces ==
  ASSUME PlacesInv, OpenNew \/ WriteHead
  PROVE  PlacesInv'
<1>1. /\ FileTypes /\ StagesFit /\ files \in Seq(File) /\ Len(files) \in Nat
      /\ created \in Nat /\ created + 1 \in Nat
  <2>1. FileTypes /\ StagesFit /\ created \in Nat
    BY DEF PlacesInv, FileTypes
  <2>2. created + 1 \in Nat
    BY <2>1
  <2> QED
    BY <2>1, <2>2, WrittenTo
<1>2. CASE OpenNew
  <2>1. /\ stage = "open" /\ fd = 0 /\ files' = Append(files, NewFile) /\ created' = created + 1
        /\ stage' = "head"
        /\ UNCHANGED <<task, fd, buffer, mem, committed, acked, excuse, starts>>
    BY <1>1, <1>2 DEF OpenNew, StagesFit, history
  <2>2. files' \in Seq(File) /\ Len(files') = Len(files) + 1 /\ files' # <<>>
    <3>1. NewFile \in File
      BY DEF NewFile, File
    <3> QED
      BY <1>1, <2>1, <3>1
  <2>3. FileTypes'
    <3>1. fd' \in 0 .. Len(files')
      BY <1>1, <2>1, <2>2
    <3> QED
      BY <1>1, <2>1, <2>2, <3>1 DEF FileTypes
  <2>4. StagesFit'
    BY <1>1, <2>1, <2>2 DEF StagesFit
  <2>5. AppendsToLast'
    BY <2>1 DEF AppendsToLast
  <2> QED
    BY <2>3, <2>4, <2>5 DEF PlacesInv
<1>3. CASE WriteHead
  <2>1. PICK g \in File : Headed(g)
    BY <1>3, WriteHeadIs
  <2>2. /\ Len(files) \in 1 .. Len(files) /\ files' = [files EXCEPT ![Len(files)] = g]
        /\ fd' = Len(files) /\ buffer = <<>> /\ ~Closed(g)
        /\ stage' \in {"finish", "up", "dump"} /\ (stage' = "finish" => task = "start")
        /\ UNCHANGED <<created, task, buffer, mem, committed, acked, excuse, starts>>
    BY <2>1 DEF Headed
  <2>3. files' \in Seq(File) /\ Len(files') = Len(files) /\ files'[Len(files)] = g
    BY <1>1, <2>2, FileReplaced
  <2>4. FileTypes'
    <3>1. fd' \in 0 .. Len(files')
      BY <2>2, <2>3
    <3> QED
      BY <1>1, <2>2, <2>3, <3>1 DEF FileTypes
  <2>5. StagesFit'
    <3>1. fd' # 0 /\ fd' = Len(files')
      BY <2>2, <2>3
    <3> QED
      BY <2>2, <3>1 DEF StagesFit
  <2>6. AppendsToLast'
    BY <2>2, <2>3 DEF AppendsToLast
  <2> QED
    BY <2>4, <2>5, <2>6 DEF PlacesInv
<1> QED
  BY <1>2, <1>3

(* The largest number of a finite set that is not empty. *)
LEMMA LargestNode ==
  ASSUME NEW S, S \subseteq Nat, IsFiniteSet(S)
  PROVE  Max(S \cup {0}) \in Nat
<1>1. IsFiniteSet(S \cup {0}) /\ S \cup {0} \subseteq Nat
  BY FS_AddElement
<1> DEFINE P == {k \in Nat : \A T \in SUBSET Nat :
                   IsFiniteSet(T) /\ Cardinality(T) = k + 1 => \E x \in T : \A y \in T : x >= y}
           n == Cardinality(S \cup {0})
<1>2. 0 \in P
  <2>1. ASSUME NEW T \in SUBSET Nat, IsFiniteSet(T), Cardinality(T) = 1
        PROVE  \E x \in T : \A y \in T : x >= y
    <3>1. PICK x : T = {x}
      BY <2>1, FS_Singleton
    <3> QED
      BY <3>1
  <2> QED
    BY <2>1
<1>3. ASSUME NEW k \in Nat, k \in P PROVE k + 1 \in P
  <2>1. ASSUME NEW T \in SUBSET Nat, IsFiniteSet(T), Cardinality(T) = k + 1 + 1
        PROVE  \E x \in T : \A y \in T : x >= y
    <3>1. PICK z \in T : TRUE
      <4>1. T # {}
        BY <1>3, <2>1, FS_EmptySet
      <4> QED
        BY <4>1
    <3>2. IsFiniteSet(T \ {z}) /\ Cardinality(T \ {z}) = k + 1
      BY <1>3, <2>1, <3>1, FS_RemoveElement
    <3>3. PICK x \in T \ {z} : \A y \in T \ {z} : x >= y
      BY <1>3, <3>2
    <3> QED
      BY <2>1, <3>1, <3>3
  <2> QED
    BY <1>3, <2>1
<1>4. n \in Nat /\ n # 0
  BY <1>1, FS_CardinalityType, FS_EmptySet
<1>5. n - 1 \in P
  <2>1. n - 1 \in Nat
    BY <1>4
  <2> HIDE DEF P, n
  <2>2. \A k \in 1 .. n - 1 : k - 1 \in P => k \in P
    <3>1. ASSUME NEW k \in 1 .. n - 1, k - 1 \in P PROVE k \in P
      <4>1. k - 1 \in Nat /\ k - 1 + 1 = k
        BY <2>1
      <4> QED
        BY <1>3, <3>1, <4>1
    <3> QED
      BY <3>1
  <2>3. \A k \in 0 .. n - 1 : k \in P
    BY <2>1, <1>2, <2>2, AllUpTo
  <2> QED
    BY <2>1, <2>3
<1>6. \E x \in S \cup {0} : \A y \in S \cup {0} : x >= y
  <2>1. n - 1 + 1 = n
    BY <1>4
  <2> QED
    BY <1>1, <1>5, <2>1
<1> QED
  BY <1>1, <1>6 DEF Max

(* The steps that leave the files alone. *)
LEMMA OtherPlaces ==
  ASSUME PlacesInv, OpenFails \/ Commit \/ CommitMemory \/ Crash
  PROVE  PlacesInv'
<1>1. FileTypes /\ StagesFit /\ AppendsToLast /\ files \in Seq(File) /\ Len(files) \in Nat
  BY WrittenTo DEF PlacesInv
<1>2. CASE OpenFails
  <2>1. /\ stage = "open" /\ stage' \in {"down", "up"} /\ fd = 0 /\ buffer = <<>>
        /\ UNCHANGED <<files, created, task, fd, buffer, mem, committed, acked, excuse, starts>>
    BY <1>1, <1>2 DEF OpenFails, onDisk, history, StagesFit
  <2>2. FileTypes'
    BY <1>1, <2>1 DEF FileTypes
  <2>3. StagesFit' /\ AppendsToLast'
    BY <1>1, <2>1 DEF StagesFit, AppendsToLast
  <2> QED
    BY <2>2, <2>3 DEF PlacesInv
<1>3. CASE Commit
  <2> DEFINE i == Max(Nodes \cup {0}) + 1
             b == F!Transaction(<<F!Created(i)>>)
  <2>1. /\ stage = "up" /\ buffer' = Append(buffer, b) /\ mem' = F!Put(mem, i, 0)
        /\ committed' = committed \cup {i}
        /\ UNCHANGED <<files, created, stage, task, fd, acked, excuse, starts>>
    BY <1>3 DEF Commit, onDisk
  <2>2. mem \in NodeMap /\ buffer \in Seq(TxRecord) /\ committed \in SUBSET Nat
    BY <1>1 DEF FileTypes
  <2>3. Max(Nodes \cup {0}) \in Nat
    BY <2>2, NodeMapIs, LargestNode DEF Nodes
  <2>4. i \in Nat /\ b = TxOf(i)
    BY <2>3 DEF TxOf
  <2> HIDE DEF i, b
  <2>5. b \in TxRecord
    BY <2>4 DEF TxRecord
  <2>6. mem' \in NodeMap /\ buffer' \in Seq(TxRecord) /\ committed' \in SUBSET Nat
    <3>1. mem' \in NodeMap
      BY <2>1, <2>2, <2>4, PutNode
    <3>2. buffer' \in Seq(TxRecord)
      BY <2>1, <2>2, <2>5
    <3>3. committed' \in SUBSET Nat
      BY <2>1, <2>2, <2>4
    <3> QED
      BY <3>1, <3>2, <3>3
  <2>7. FileTypes'
    BY <1>1, <2>1, <2>6 DEF FileTypes
  <2>8. StagesFit' /\ AppendsToLast'
    BY <1>1, <2>1 DEF StagesFit, AppendsToLast
  <2> QED
    BY <2>7, <2>8 DEF PlacesInv
<1>4. CASE CommitMemory
  <2> DEFINE b == F!Transaction(<<>>)
  <2>1. /\ stage = "up" /\ buffer' = Append(buffer, b)
        /\ excuse' = excuse \cup {"memory"}
        /\ UNCHANGED <<files, created, stage, task, fd, mem, committed, acked, starts>>
    BY <1>4 DEF CommitMemory, onDisk
  <2>2. b \in TxRecord /\ buffer \in Seq(TxRecord)
        /\ excuse \in SUBSET {"reopened", "memory", "end mark"}
    BY <1>1 DEF TxRecord, FileTypes
  <2> HIDE DEF b
  <2>3. buffer' \in Seq(TxRecord) /\ excuse' \in SUBSET {"reopened", "memory", "end mark"}
    <3>1. buffer' = Append(buffer, b)
      BY <2>1
    <3>4. buffer \in Seq(TxRecord) /\ b \in TxRecord
      BY <2>2
    <3>2. buffer' \in Seq(TxRecord)
      BY <3>1, <3>4
    <3>3. excuse' \in SUBSET {"reopened", "memory", "end mark"}
      BY <2>1, <2>2
    <3> QED
      BY <3>2, <3>3
  <2>4. FileTypes'
    BY <1>1, <2>1, <2>3 DEF FileTypes
  <2>5. StagesFit' /\ AppendsToLast'
    BY <1>1, <2>1 DEF StagesFit, AppendsToLast
  <2> QED
    BY <2>4, <2>5 DEF PlacesInv
<1>5. CASE Crash
  <2>1. /\ stage' = "down" /\ fd' = 0 /\ buffer' = <<>>
        /\ UNCHANGED <<files, created, task, mem, committed, acked, excuse, starts>>
    BY <1>5 DEF Crash, Stopped, onDisk, history
  <2>2. FileTypes'
    <3>1. fd' \in 0 .. Len(files') /\ << >> \in Seq(TxRecord)
      BY <1>1, <2>1
    <3> QED
      BY <1>1, <2>1, <3>1 DEF FileTypes
  <2>3. StagesFit' /\ AppendsToLast'
    BY <2>1 DEF StagesFit, AppendsToLast
  <2> QED
    BY <2>2, <2>3 DEF PlacesInv
<1> QED
  BY <1>2, <1>3, <1>4, <1>5

(* A file after a power failure has the first n records, and perhaps a torn one. *)
Kept(f, g, n) ==
  /\ g.header = f.header /\ g.magic = f.magic
  /\ n \in f.synced .. Len(f.records)
  /\ \/ g.records = SubSeq(f.records, 1, n) /\ g.synced = n
     \/ /\ n < Len(f.records)
        /\ g.records = Append(SubSeq(f.records, 1, n), F!Torn) /\ g.synced = n + 1
LEMMA RemainsAre ==
  ASSUME NEW f \in File, NEW g \in Remains(f)
  PROVE  g \in File /\ \E n \in 0 .. Len(f.records) : Kept(f, g, n)
<1>1. /\ f.records \in Seq(Record) /\ Len(f.records) \in Nat /\ f.synced \in Nat
      /\ f.header \in BOOLEAN /\ f.magic \in Nat
  BY DEF File
<1>2. CASE \E n \in f.synced .. Len(f.records) :
             g = [f EXCEPT !.records = SubSeq(@, 1, n), !.synced = n]
  <2>1. PICK n \in f.synced .. Len(f.records) :
               g = [f EXCEPT !.records = SubSeq(@, 1, n), !.synced = n]
    BY <1>2
  <2>2. SubSeq(f.records, 1, n) \in Seq(Record) /\ n \in 0 .. Len(f.records)
    BY <1>1
  <2>3. /\ g.header = f.header /\ g.magic = f.magic /\ g.records = SubSeq(f.records, 1, n)
        /\ g.synced = n
    BY <2>1 DEF File
  <2>6. n \in Nat
    BY <1>1, <2>1
  <2>7. g = [header |-> f.header, magic |-> f.magic, records |-> SubSeq(f.records, 1, n), synced |-> n]
    BY <2>1 DEF File
  <2>4. g \in File
    BY <1>1, <2>2, <2>6, <2>7 DEF File
  <2>5. Kept(f, g, n)
    BY <2>1, <2>3 DEF Kept
  <2> QED
    BY <2>2, <2>4, <2>5
<1>3. CASE \E n \in f.synced .. Len(f.records) - 1 :
             g = [f EXCEPT !.records = Append(SubSeq(@, 1, n), F!Torn), !.synced = n + 1]
  <2>1. PICK n \in f.synced .. Len(f.records) - 1 :
               g = [f EXCEPT !.records = Append(SubSeq(@, 1, n), F!Torn), !.synced = n + 1]
    BY <1>3
  <2>2. SubSeq(f.records, 1, n) \in Seq(Record) /\ n \in 0 .. Len(f.records) /\ n + 1 \in Nat
        /\ n < Len(f.records) /\ n \in f.synced .. Len(f.records)
    BY <1>1
  <2>6. F!Torn \in Record
    BY DEF Record
  <2>7. Append(SubSeq(f.records, 1, n), F!Torn) \in Seq(Record)
    BY <2>2, <2>6
  <2>3. /\ g.header = f.header /\ g.magic = f.magic
        /\ g.records = Append(SubSeq(f.records, 1, n), F!Torn) /\ g.synced = n + 1
    BY <2>1 DEF File
  <2>4. g \in File
    BY <1>1, <2>1, <2>2, <2>7 DEF File
  <2>5. Kept(f, g, n)
    BY <2>2, <2>3 DEF Kept
  <2> QED
    BY <2>2, <2>4, <2>5
<1> QED
  BY <1>2, <1>3 DEF Remains

(* What a power failure does. *)
LEMMA PowerFailsIs ==
  ASSUME PlacesInv, PowerFails
  PROVE  /\ stage # "down" /\ stage' = "down" /\ fd' = 0 /\ buffer' = <<>>
         /\ UNCHANGED <<created, task, mem, committed, acked, starts>>
         /\ files' \in Seq(File) /\ Len(files') = Len(files)
         /\ \A k \in 1 .. Len(files) : \E n \in 0 .. Len(files[k].records) : Kept(files[k], files'[k], n)
         /\ excuse' \in {excuse, excuse \cup {"end mark"}}
         /\ excuse' = excuse =>
              "end mark" \in excuse \/ \A k \in 1 .. Len(files) - 1 : Closed(files[k]) => Closed(files'[k])
<1>1. files \in Seq(File) /\ Len(files) \in Nat /\ DOMAIN files = 1 .. Len(files)
  BY WrittenTo
<1>2. /\ stage # "down" /\ stage' = "down" /\ fd' = 0 /\ buffer' = <<>>
      /\ UNCHANGED <<created, task, mem, committed, acked, starts>>
  BY DEF PowerFails, Stopped
<1>3. PICK fs \in [DOMAIN files -> UNION {Remains(files[k]) : k \in DOMAIN files}] :
       /\ \A k \in DOMAIN files : fs[k] \in Remains(files[k])
       /\ files' = fs
       /\ excuse' = excuse \cup
            (IF \E k \in DOMAIN files \ {Len(files)} : Closed(files[k]) /\ ~Closed(fs[k])
               THEN {"end mark"} ELSE {})
  BY DEF PowerFails
<1>4. ASSUME NEW k \in 1 .. Len(files)
      PROVE  fs[k] \in File /\ \E n \in 0 .. Len(files[k].records) : Kept(files[k], fs[k], n)
  <2>2. k \in DOMAIN files /\ files[k] \in File
    BY <1>1
  <2>1. files[k] \in File /\ fs[k] \in Remains(files[k])
    BY <1>3, <2>2
  <2> QED
    BY <2>1, RemainsAre
<1>5. files' \in Seq(File) /\ Len(files') = Len(files)
  <2>1. fs = [k \in 1 .. Len(files) |-> fs[k]]
    BY <1>1, <1>3
  <2>2. fs \in Seq(File) /\ Len(fs) = Len(files)
    BY <1>1, <1>4, <2>1
  <2> QED
    BY <1>3, <2>2
<1>6. excuse' \in {excuse, excuse \cup {"end mark"}}
  <2>1. excuse' \in {excuse \cup {}, excuse \cup {"end mark"}}
    BY <1>3, Zenon
  <2>2. excuse \cup {} = excuse
    OBVIOUS
  <2> QED
    BY <2>1, <2>2
<1>7. ASSUME excuse' = excuse, "end mark" \notin excuse, NEW k \in 1 .. Len(files) - 1, Closed(files[k])
      PROVE  Closed(fs[k])
  <2>1. k \in DOMAIN files \ {Len(files)}
    <3>0. Len(files) \in Nat
      BY <1>1
    <3>1. k \in 1 .. Len(files) /\ k # Len(files)
      BY <3>0
    <3> QED
      BY <1>1, <3>1
  <2> QED
    BY <1>3, <1>7, <2>1
<1> QED
  BY <1>2, <1>3, <1>4, <1>5, <1>6, <1>7

(* A power failure leaves the places right. *)
LEMMA PowerPlaces ==
  ASSUME PlacesInv, PowerFails
  PROVE  PlacesInv'
<1>1. /\ stage' = "down" /\ fd' = 0 /\ buffer' = <<>>
      /\ UNCHANGED <<created, task, mem, committed, acked, starts>>
      /\ files' \in Seq(File)
      /\ excuse' \in {excuse, excuse \cup {"end mark"}}
  BY PowerFailsIs
<1>2. FileTypes
  BY DEF PlacesInv
<1>3. fd' \in 0 .. Len(files') /\ buffer' \in Seq(TxRecord)
  <2>1. files' \in Seq(File)
    BY <1>1
  <2>2. Len(files') \in Nat
    BY <2>1
  <2>3. << >> \in Seq(TxRecord)
    OBVIOUS
  <2>5. fd' = 0
    BY <1>1
  <2>4. fd' \in 0 .. Len(files')
    BY <2>2, <2>5
  <2> QED
    BY <1>1, <2>3, <2>4
<1>4. excuse' \in SUBSET {"reopened", "memory", "end mark"}
  BY <1>1, <1>2 DEF FileTypes
<1>5. FileTypes'
  BY <1>1, <1>2, <1>3, <1>4 DEF FileTypes
<1>6. StagesFit' /\ AppendsToLast'
  BY <1>1 DEF StagesFit, AppendsToLast
<1> QED
  BY <1>5, <1>6 DEF PlacesInv

(* What follows the deletion of the files before file k. *)
DeleteAt(k) ==
  /\ k \in 2 .. Len(files)
  /\ HasDump(files[k]) /\ stage \in {"down", "up"} /\ (fd = 0 \/ fd >= k)
  /\ files' \in Seq(File) /\ Len(files') = Len(files) - (k - 1)
  /\ \A i \in 1 .. Len(files') : files'[i] = files[i + (k - 1)]
  /\ fd' = IF fd = 0 THEN 0 ELSE fd - (k - 1)
  /\ UNCHANGED <<created, stage, task, buffer, mem, committed, acked, excuse, starts>>
LEMMA DeleteOlderIs ==
  ASSUME PlacesInv, DeleteOlder
  PROVE  \E k \in Nat : DeleteAt(k)
<1>1. files \in Seq(File) /\ Len(files) \in Nat /\ DOMAIN files = 1 .. Len(files)
  BY WrittenTo
<1>2. PICK k \in DOMAIN files \ {1} :
        /\ HasDump(files[k])
        /\ stage \in {"down", "up"}
        /\ fd = 0 \/ fd >= k
        /\ files' = SubSeq(files, k, Len(files))
        /\ fd' = IF fd = 0 THEN 0 ELSE fd - (k - 1)
        /\ UNCHANGED <<created, stage, task, buffer, mem, committed, acked, excuse, starts>>
  BY DEF DeleteOlder, history
<1>3. Len(files) \in Nat /\ k \in 2 .. Len(files)
  <2>1. k \in 1 .. Len(files) /\ k # 1 /\ Len(files) \in Nat
    BY <1>1
  <2> QED
    BY <2>1
<1>4. SubSeq(files, k, Len(files)) \in Seq(File)
      /\ Len(SubSeq(files, k, Len(files))) = Len(files) - (k - 1)
      /\ \A i \in 1 .. Len(files) - (k - 1) : SubSeq(files, k, Len(files))[i] = files[i + (k - 1)]
  BY <1>1, <1>3
<1>5. k \in Nat
  BY <1>3
<1> QED
  BY <1>2, <1>3, <1>4, <1>5 DEF DeleteAt

LEMMA DeletePlaces ==
  ASSUME PlacesInv, DeleteOlder
  PROVE  PlacesInv'
<1>1. PICK k \in Nat : DeleteAt(k)
  BY DeleteOlderIs
<1>2. FileTypes /\ StagesFit /\ AppendsToLast
  BY DEF PlacesInv
<1>3. files \in Seq(File) /\ Len(files) \in Nat /\ fd \in 0 .. Len(files)
  BY WrittenTo
<1>4. k \in 2 .. Len(files) /\ Len(files') = Len(files) - (k - 1)
      /\ (fd = 0 \/ fd >= k) /\ fd' = IF fd = 0 THEN 0 ELSE fd - (k - 1)
  BY <1>1 DEF DeleteAt
<1>5. fd' \in 0 .. Len(files')
  BY <1>3, <1>4
<1>6. /\ files' \in Seq(File) /\ stage \in {"down", "up"}
      /\ UNCHANGED <<created, stage, task, buffer, mem, committed, acked, excuse, starts>>
  BY <1>1 DEF DeleteAt
<1>7. FileTypes'
  BY <1>2, <1>5, <1>6 DEF FileTypes
<1>8. StagesFit'
  <2>1. stage = "down" => fd' = 0
    BY <1>2, <1>4 DEF StagesFit
  <2> QED
    BY <1>2, <1>6, <2>1 DEF StagesFit
<1>9. AppendsToLast'
  <2>1. ASSUME fd' # 0, "reopened" \notin excuse PROVE fd' = Len(files') /\ ~Closed(files'[fd'])
    <3>1. fd # 0 /\ fd = Len(files) /\ ~Closed(files[fd])
      BY <1>2, <1>4, <2>1 DEF AppendsToLast
    <3>2. fd' = Len(files') /\ fd' \in 1 .. Len(files') /\ fd' + (k - 1) = fd
      BY <1>3, <1>4, <3>1
    <3>3. files'[fd'] = files[fd' + (k - 1)]
      BY <1>1, <3>2 DEF DeleteAt
    <3> QED
      BY <3>1, <3>2, <3>3
  <2> QED
    BY <1>6, <2>1 DEF AppendsToLast
<1> QED
  BY <1>7, <1>8, <1>9 DEF PlacesInv

(* What follows the repair of file k, of which the first n records are kept. *)
CutAt(k, n) ==
  /\ k \in 1 .. Len(files) /\ n \in 0 .. Len(files[k].records) - 1
  /\ files[k].records[n + 1] = F!Torn
  /\ \A j \in 1 .. n : files[k].records[j] # F!Torn
  /\ \E g \in File :
       /\ files' = [files EXCEPT ![k] = g]
       /\ g.header = files[k].header /\ g.magic = files[k].magic
       /\ g.records = SubSeq(files[k].records, 1, n) /\ g.synced = n
LEMMA RescueIs ==
  ASSUME PlacesInv, Rescue
  PROVE  /\ stage = "down"
         /\ UNCHANGED <<created, stage, task, fd, buffer, mem, committed, acked, excuse, starts>>
         /\ \E k, n \in Nat : CutAt(k, n)
<1>1. files \in Seq(File) /\ Len(files) \in Nat /\ DOMAIN files = 1 .. Len(files)
  BY WrittenTo
<1>2. PICK k \in DOMAIN files : \E i \in DOMAIN files[k].records :
       /\ files[k].records[i] = F!Torn
       /\ \A j \in 1 .. i - 1 : files[k].records[j] # F!Torn
       /\ files' = [files EXCEPT ![k] = Synced(Cut(@, i - 1))]
  BY DEF Rescue
<1>13. PICK i \in DOMAIN files[k].records :
       /\ files[k].records[i] = F!Torn
       /\ \A j \in 1 .. i - 1 : files[k].records[j] # F!Torn
       /\ files' = [files EXCEPT ![k] = Synced(Cut(@, i - 1))]
  BY <1>2
<1>3. /\ stage = "down"
      /\ UNCHANGED <<created, stage, task, fd, buffer, mem, committed, acked, excuse, starts>>
  BY DEF Rescue, program, history
<1> DEFINE cut == SubSeq(files[k].records, 1, i - 1)
           f == Cut(files[k], i - 1)
<1>4. k \in 1 .. Len(files) /\ files[k] \in File /\ k \in Nat
  BY <1>1
<1>5. files[k].records \in Seq(Record) /\ Len(files[k].records) \in Nat
      /\ DOMAIN files[k].records = 1 .. Len(files[k].records)
  BY <1>4 DEF File
<1>6. i \in 1 .. Len(files[k].records) /\ i \in Nat
  BY <1>5
<1>7. i - 1 \in 0 .. Len(files[k].records) - 1 /\ i - 1 \in Nat /\ i - 1 + 1 = i
  BY <1>5, <1>6
<1>8. cut \in Seq(Record) /\ Len(cut) = i - 1
  BY <1>5, <1>7
<1> HIDE DEF cut
<1>9. f \in File /\ f.header = files[k].header /\ f.magic = files[k].magic /\ f.records = cut
  <2>1. f = [files[k] EXCEPT !.records = cut]
    BY <1>4, <1>5 DEF Cut, cut, File
  <2> HIDE DEF f
  <2> QED
    BY <1>4, <1>8, <2>1 DEF File
<1>10. files' = [files EXCEPT ![k] = Synced(f)]
  BY <1>13
<1> HIDE DEF f
<1>11. /\ Synced(f) \in File /\ Synced(f).header = files[k].header
       /\ Synced(f).magic = files[k].magic /\ Synced(f).records = cut /\ Synced(f).synced = i - 1
  BY <1>8, <1>9, SyncedIs
<1>12. CutAt(k, i - 1)
  BY <1>4, <1>7, <1>10, <1>11, <1>13 DEF CutAt, cut
<1> QED
  BY <1>3, <1>4, <1>7, <1>12

LEMMA RescuePlaces ==
  ASSUME PlacesInv, Rescue
  PROVE  PlacesInv'
<1>1. PICK k, n \in Nat : CutAt(k, n)
  BY RescueIs
<1>2. FileTypes /\ StagesFit /\ files \in Seq(File) /\ Len(files) \in Nat
  BY WrittenTo DEF PlacesInv
<1>3. files' \in Seq(File) /\ Len(files') = Len(files)
  <2>1. PICK g \in File : files' = [files EXCEPT ![k] = g]
    BY <1>1 DEF CutAt
  <2>2. k \in 1 .. Len(files)
    BY <1>1 DEF CutAt
  <2> QED
    BY <1>2, <2>1, <2>2, FileReplaced
<1>4. /\ stage = "down"
      /\ UNCHANGED <<created, stage, task, fd, buffer, mem, committed, acked, excuse, starts>>
  BY RescueIs
<1>5. fd = 0
  BY <1>2, <1>4 DEF StagesFit
<1>6. FileTypes'
  BY <1>2, <1>3, <1>4 DEF FileTypes
<1>7. StagesFit'
  BY <1>2, <1>4, <1>5 DEF StagesFit
<1>8. AppendsToLast'
  BY <1>4, <1>5 DEF AppendsToLast
<1> QED
  BY <1>6, <1>7, <1>8 DEF PlacesInv

(* Every step leaves the places right. *)
LEMMA PlacesStep ==
  ASSUME PlacesInv, [FilesNext]_filesVars
  PROVE  PlacesInv'
<1>1. CASE Writes
  BY <1>1, WritesPlaces
<1>2. CASE OpenNew \/ WriteHead
  BY <1>2, NewFilePlaces
<1>3. CASE OpenFails \/ Commit \/ CommitMemory \/ Crash
  BY <1>3, OtherPlaces
<1>4. CASE Start
  BY <1>4, StartPlaces
<1>5. CASE PowerFails
  BY <1>5, PowerPlaces
<1>6. CASE DeleteOlder
  BY <1>6, DeletePlaces
<1>7. CASE Rescue
  BY <1>7, RescuePlaces
<1>8. CASE UNCHANGED filesVars
  BY <1>8 DEF filesVars, onDisk, program, history, PlacesInv, FileTypes, StagesFit, AppendsToLast
<1> QED
  BY <1>1, <1>2, <1>3, <1>4, <1>5, <1>6, <1>7, <1>8 DEF FilesNext, Writes

LEMMA PlacesAlways == FilesSpec => []PlacesInv
<1>1. FilesInit => PlacesInv
  <2>1. ASSUME FilesInit PROVE PlacesInv
    <3>1. << >> \in NodeMap
      <4>1. [i \in {} |-> 0] \in NodeMap
        BY NodeMapOf, FS_EmptySet
      <4>2. << >> = [i \in {} |-> 0]
        OBVIOUS
      <4> QED
        BY <4>1, <4>2
    <3>2. << >> \in Seq(File) /\ << >> \in Seq(TxRecord) /\ Len(<< >>) = 0
      OBVIOUS
    <3>3. FileTypes
      BY <2>1, <3>1, <3>2 DEF FilesInit, FileTypes
    <3> QED
      BY <2>1, <3>3 DEF FilesInit, PlacesInv, StagesFit, AppendsToLast
  <2> QED
    BY <2>1
<1>2. PlacesInv /\ [FilesNext]_filesVars => PlacesInv'
  BY PlacesStep
<1> QED
  BY <1>1, <1>2, PTL DEF FilesSpec

(* AppendsToLast: nothing is appended behind an end mark, or to another file than the
   last, unless FinishStart has opened a closed file again. *)
THEOREM AppendsOnlyToLast == FilesSpec => []AppendsToLast
<1>1. PlacesInv => AppendsToLast
  BY DEF PlacesInv
<1> QED
  BY <1>1, PlacesAlways, PTL

-----------------------------------------------------------------------------
(* What files in order look like *)

(* Record i of a dump of the nodes up to lo, which lie in memory in this order. *)
DumpRecord(order, lo, i) ==
  IF i = 1 THEN F!DumpBegin ELSE IF i = lo + 2 THEN F!DumpEnd ELSE F!Dumped(order[i - 1], 0)

(* The first b records are a dump of the nodes up to lo, or its beginning. *)
DumpsIn(order, records, lo, b) == \A i \in 1 .. b : records[i] = DumpRecord(order, lo, i)
BeginsDump(records, lo, b) ==
  b <= lo + 2 /\ \E order \in SetToSeqs(1 .. lo) : DumpsIn(order, records, lo, b)

(* Behind it follow the nodes after lo up to hi, and perhaps one record that is an
   end mark or torn. *)
IsTail(r) == IsEnd(r) \/ r = F!Torn
Content(records, lo, hi, b) ==
  /\ Len(records) \in {b + (hi - lo), b + (hi - lo) + 1}
  /\ BeginsDump(records, lo, b)
  /\ \A j \in 1 .. hi - lo : records[b + j] = TxOf(lo + j)
  /\ Len(records) > b + (hi - lo) => IsTail(records[Len(records)])

(* What is synchronised: the beginning of a dump, and all but an end mark. *)
Shut(f) == f.records # <<>> /\ IsEnd(f.records[Len(f.records)])
Secure(f, b) ==
  /\ f.synced <= Len(f.records)
  /\ b > 0 => f.synced > 0
  /\ Shut(f) => f.synced >= Len(f.records) - 1

FileFits(f, lo, hi, b) ==
  /\ lo <= hi /\ b <= Len(f.records)
  /\ Secure(f, b)
  /\ Content(f.records, lo, hi, b)

(* The first file says what there was before it. *)
FirstFits(f, lo, b) ==
  /\ f.header => b > 0
  /\ lo = 0 \/ (b = lo + 2 /\ f.synced >= b)

(* A new file has no header yet; its successor carries the magic number of its end
   mark. *)
Blank(f) == ~f.header /\ f.records = <<>>
EndMagic(f) == f.records[Len(f.records)].magic
Follows(f, g) == g.header => g.magic = EndMagic(f)

(* File k holds the nodes after U[k] up to U[k + 1], behind B[k]
   records of a dump. *)
FitsAt(fs, U, B, k) ==
  /\ FileFits(fs[k], U[k], U[k + 1], B[k])
  /\ fs[k].header \/ (k = Len(fs) /\ Blank(fs[k]))
  /\ k < Len(fs) => Shut(fs[k]) /\ Follows(fs[k], fs[k + 1])
  /\ k = 1 => FirstFits(fs[k], U[k], B[k])
FilesFit(fs, U, B) ==
  /\ U \in [1 .. Len(fs) + 1 -> Nat] /\ B \in [1 .. Len(fs) -> Nat]
  /\ \A k \in 1 .. Len(fs) : FitsAt(fs, U, B, k)
  /\ Len(fs) = 0 => U[1] = 0

(* All of a file is regular: it has no end mark and is not torn. *)
Regular(f, lo, hi, b) == f.header /\ Len(f.records) = b + (hi - lo)

(* Nodes 1 to m. *)
Zeros(m) == [i \in 1 .. m |-> 0]

(* What has been acknowledged is synchronised. *)
AckSafe(f, lo, b, a) == a > lo => b + (a - lo) <= f.synced

(* m transactions have been committed, of which the files hold the first h; those that
   have been acknowledged are synchronised.  There are n files, and the last one, f, has
   the nodes after lo, behind b records of a dump. *)
HistoryFits(done, acks, n, f, lo, h, b, m) ==
  /\ done = 1 .. m /\ h <= m
  /\ acks \subseteq 1 .. h
  /\ n > 0 => \A a \in acks : AckSafe(f, lo, b, a)

(* A program that runs has them all in memory; only while it serves requests there can
   be some that the files do not hold. *)
NodesFit(st, nodes, h, m) ==
  /\ st \notin {"down", "readonly"} => nodes = Zeros(m)
  /\ st \notin {"down", "readonly", "up"} => m = h

(* The file that is written to is the last one, and what is in the buffer follows. *)
Writing(file, s, n, f, lo, h, b, m) ==
  file # 0 =>
    /\ file = n /\ Regular(f, lo, h, b)
    /\ m = h + Len(s) /\ \A i \in 1 .. Len(s) : s[i] = TxOf(h + i)

(* What goes on with a new file, for the reason t, when there have been c of them. *)
Opening(t, c, n, f) ==
  /\ n = 0 => t = "start"
  /\ n > 0 => Shut(f)
  /\ t # "start" => EndMagic(f) = c + 1
Heading(t, c, n, f, before) ==
  /\ n > 0 /\ Blank(f)
  /\ n = 1 => t = "start"
  /\ t # "start" => EndMagic(before) = c
StageFits(st, t, c, n, f, before, b) ==
  /\ st = "open" => Opening(t, c, n, f)
  /\ st = "head" => Heading(t, c, n, f, before)
  /\ st = "finish" /\ n = 1 => Len(f.records) = 1
  /\ st = "dump" => Len(f.records) = 1 /\ b = 1
  /\ st = "readonly" =>
       n > 0 /\ (Blank(f) \/ (f.records # <<>> /\ f.records[Len(f.records)] = F!Torn))

Order(U, B, m) ==
  LET n == Len(files)
      h == U[n + 1]
  IN  /\ FilesFit(files, U, B)
      /\ HistoryFits(committed, acked, n, files[n], U[n], h, B[n], m)
      /\ NodesFit(stage, mem, h, m)
      /\ Writing(fd, buffer, n, files[n], U[n], h, B[n], m)
      /\ StageFits(stage, task, created, n, files[n], files[n - 1], B[n])
FilesInOrder == \E U \in [1 .. Len(files) + 1 -> Nat], B \in [1 .. Len(files) -> Nat], m \in Nat :
  Order(U, B, m)

FilesInv == PlacesInv /\ (excuse = {} => FilesInOrder)

-----------------------------------------------------------------------------
(* Files that fit *)

(* Records of different kinds differ. *)
Kind(r) == r.kind
LEMMA KindsAre ==
  /\ \A i \in Nat : Kind(TxOf(i)) = "transaction" /\ Kind(F!Dumped(i, 0)) = "dumped"
  /\ Kind(F!DumpBegin) = "DUMP BEGIN" /\ Kind(F!DumpEnd) = "DUMP END" /\ Kind(F!Torn) = "torn"
  /\ \A r : IsEnd(r) <=> Kind(r) = "END OF FILE"
<1>1. ASSUME NEW i \in Nat PROVE Kind(TxOf(i)) = "transaction"
  BY DEF Kind, TxOf, F!Transaction
<1>2. ASSUME NEW i \in Nat PROVE Kind(F!Dumped(i, 0)) = "dumped"
  BY DEF Kind, F!Dumped
<1>3. Kind(F!DumpBegin) = "DUMP BEGIN"
  BY DEF Kind, F!DumpBegin
<1>4. Kind(F!DumpEnd) = "DUMP END"
  BY DEF Kind, F!DumpEnd
<1>5. Kind(F!Torn) = "torn"
  BY DEF Kind, F!Torn
<1>6. ASSUME NEW r PROVE IsEnd(r) <=> Kind(r) = "END OF FILE"
  BY DEF Kind, IsEnd
<1> QED
  BY <1>1, <1>2, <1>3, <1>4, <1>5, <1>6

(* Records of transactions are no tails, and no marks of a dump. *)
LEMMA TxIs ==
  ASSUME NEW i \in Nat
  PROVE  /\ TxOf(i) \in TxRecord /\ TxOf(i) \in Record
         /\ ~IsTail(TxOf(i)) /\ ~IsEnd(TxOf(i)) /\ TxOf(i) # F!Torn
         /\ TxOf(i) # F!DumpBegin /\ TxOf(i) # F!DumpEnd
<1>1. TxOf(i) \in TxRecord /\ TxOf(i) \in Record
  BY DEF TxRecord, Record
<1> QED
  BY <1>1, KindsAre DEF IsTail

(* The ids in an order are those there are, each of them once. *)
LEMMA UpToFinite ==
  ASSUME NEW n \in Nat
  PROVE  IsFiniteSet(1 .. n) /\ Cardinality(1 .. n) = n
<1>1. IsFiniteSet(1 .. n) /\ Cardinality(1 .. n) = IF 1 > n THEN 0 ELSE n - 1 + 1
  BY FS_Interval
<1> QED
  BY <1>1

LEMMA OrderUpTo ==
  ASSUME NEW lo \in Nat, NEW order \in SetToSeqs(1 .. lo)
  PROVE  /\ \A i \in 1 .. lo : order[i] \in 1 .. lo
         /\ \A i, j \in 1 .. lo : i # j => order[i] # order[j]
         /\ {order[i] : i \in 1 .. lo} = 1 .. lo
         /\ DOMAIN order = 1 .. lo
<1>1. IsFiniteSet(1 .. lo) /\ Cardinality(1 .. lo) = lo
  BY UpToFinite
<1>2. OrderOf(order, 1 .. lo)
  BY <1>1, OrderIs
<1>3. /\ \A i \in 1 .. lo : order[i] \in 1 .. lo
      /\ \A i, j \in 1 .. lo : i # j => order[i] # order[j]
      /\ DOMAIN order = 1 .. lo
  BY <1>1, <1>2 DEF OrderOf
<1> DEFINE T == {order[i] : i \in 1 .. lo}
           f == [i \in 1 .. lo |-> order[i]]
<1>4. T \subseteq 1 .. lo /\ IsFiniteSet(T)
  <2>1. T \subseteq 1 .. lo
    BY <1>3
  <2> QED
    BY <2>1, <1>1, FS_Subset
<1>5. Cardinality(T) = lo
  <2>1. f \in Bijection(1 .. lo, T)
    BY <1>3 DEF Bijection, Injection, Surjection, IsInjective
  <2>2. ExistsBijection(1 .. lo, T)
    BY <2>1 DEF ExistsBijection
  <2> QED
    BY <1>1, <1>4, <2>2, FS_Bijection
<1>6. T = 1 .. lo
  BY <1>1, <1>4, <1>5, FS_Subset
<1> QED
  BY <1>3, <1>6

(* There is an order. *)
LEMMA OrderExists ==
  ASSUME NEW lo \in Nat
  PROVE  \E order : order \in SetToSeqs(1 .. lo)
<1>1. IsFiniteSet(1 .. lo) /\ Cardinality(1 .. lo) = lo
  BY UpToFinite
<1> DEFINE s == [i \in 1 .. lo |-> i]
<1>2. s \in Seq(1 .. lo) /\ Len(s) = lo
  OBVIOUS
<1>3. OrderOf(s, 1 .. lo)
  BY <1>1, <1>2 DEF OrderOf
<1> QED
  BY <1>1, <1>3, OrderIs

(* A record of a dump is a mark only at its ends. *)
LEMMA DumpRecordIs ==
  ASSUME NEW lo \in Nat, NEW order \in SetToSeqs(1 .. lo), NEW i \in 1 .. lo + 2
  PROVE  /\ DumpRecord(order, lo, i) \in Record
         /\ ~IsTail(DumpRecord(order, lo, i)) /\ ~IsEnd(DumpRecord(order, lo, i))
         /\ DumpRecord(order, lo, i) # F!Torn
         /\ DumpRecord(order, lo, i) = F!DumpBegin <=> i = 1
         /\ DumpRecord(order, lo, i) = F!DumpEnd <=> i = lo + 2
<1>1. CASE i = 1
  <2>1. DumpRecord(order, lo, i) = F!DumpBegin /\ F!DumpBegin \in Record /\ i # lo + 2
    BY <1>1 DEF DumpRecord, Record
  <2> QED
    BY <1>1, <2>1, KindsAre DEF IsTail
<1>2. CASE i = lo + 2
  <2>1. DumpRecord(order, lo, i) = F!DumpEnd /\ F!DumpEnd \in Record /\ i # 1
    BY <1>2 DEF DumpRecord, Record
  <2> QED
    BY <1>2, <2>1, KindsAre DEF IsTail
<1>3. CASE i # 1 /\ i # lo + 2
  <2>1. i - 1 \in 1 .. lo
    BY <1>3
  <2>2. order[i - 1] \in Nat
    <3>1. order[i - 1] \in 1 .. lo
      BY <2>1, OrderUpTo
    <3> QED
      BY <3>1
  <2>3. DumpRecord(order, lo, i) = F!Dumped(order[i - 1], 0)
    BY <1>3 DEF DumpRecord
  <2>4. F!Dumped(order[i - 1], 0) \in Record
    BY <2>2 DEF Record
  <2> QED
    BY <1>3, <2>2, <2>3, <2>4, KindsAre DEF IsTail
<1> QED
  BY <1>1, <1>2, <1>3

(* What is before the last record of a file is no end mark. *)
LEMMA ContentIs ==
  ASSUME NEW f \in File, NEW lo \in Nat, NEW hi \in Nat, NEW b \in Nat, FileFits(f, lo, hi, b)
  PROVE  /\ f.records \in Seq(Record) /\ f.synced \in Nat
         /\ Len(f.records) \in Nat /\ lo <= hi /\ b <= lo + 2
         /\ Len(f.records) \in {b + (hi - lo), b + (hi - lo) + 1}
         /\ \A i \in 1 .. b + (hi - lo) : ~IsTail(f.records[i])
         /\ Closed(f) <=> Shut(f)
         /\ Shut(f) => Len(f.records) = b + (hi - lo) + 1
         /\ \A i \in 1 .. Len(f.records) : f.records[i] = F!DumpBegin => b > 0
         /\ \A i \in 1 .. Len(f.records) : f.records[i] = F!DumpEnd => i = b /\ b = lo + 2
<1> DEFINE r == f.records
<1>1. r \in Seq(Record) /\ Len(r) \in Nat /\ f.synced \in Nat
  BY DEF File
<1> HIDE DEF r
<1>2. /\ lo <= hi /\ Len(r) \in {b + (hi - lo), b + (hi - lo) + 1} /\ b <= lo + 2
      /\ \A j \in 1 .. hi - lo : r[b + j] = TxOf(lo + j)
      /\ Len(r) > b + (hi - lo) => IsTail(r[Len(r)])
      /\ \E order \in SetToSeqs(1 .. lo) : DumpsIn(order, r, lo, b)
  BY DEF FileFits, Content, BeginsDump, r
<1>3. PICK order \in SetToSeqs(1 .. lo) : DumpsIn(order, r, lo, b)
  BY <1>2
<1>4. ASSUME NEW i \in 1 .. b
      PROVE  ~IsTail(r[i]) /\ (r[i] = F!DumpEnd => i = b /\ b = lo + 2)
  <2>1. i \in 1 .. lo + 2 /\ r[i] = DumpRecord(order, lo, i)
    BY <1>2, <1>3 DEF DumpsIn
  <2>2. ~IsTail(r[i]) /\ (r[i] = F!DumpEnd => i = lo + 2)
    BY <2>1, DumpRecordIs
  <2> QED
    BY <1>2, <2>1, <2>2
<1>5. ASSUME NEW i \in b + 1 .. b + (hi - lo)
      PROVE  ~IsTail(r[i]) /\ r[i] # F!DumpEnd /\ r[i] # F!DumpBegin
  <2>1. i - b \in 1 .. hi - lo /\ b + (i - b) = i /\ lo + (i - b) \in Nat
    BY <1>2
  <2>2. r[i] = TxOf(lo + (i - b))
    BY <1>2, <2>1
  <2> QED
    BY <2>1, <2>2, TxIs
<1>6. IsTail(F!DumpEnd) = FALSE /\ IsTail(F!DumpBegin) = FALSE
  BY KindsAre DEF IsTail
<1>7. ASSUME NEW i \in 1 .. Len(r) PROVE i \in 1 .. b \/ i \in b + 1 .. b + (hi - lo) \/ (i = Len(r) /\ IsTail(r[i]))
  BY <1>1, <1>2
<1>8. \A i \in 1 .. b + (hi - lo) : ~IsTail(r[i])
  <2>1. ASSUME NEW i \in 1 .. b + (hi - lo) PROVE ~IsTail(r[i])
    <3>1. i \in 1 .. b \/ i \in b + 1 .. b + (hi - lo)
      BY <1>2
    <3> QED
      BY <1>4, <1>5, <3>1
  <2> QED
    BY <2>1
<1>9. \A i \in 1 .. Len(r) : (r[i] = F!DumpEnd => i = b /\ b = lo + 2) /\ (r[i] = F!DumpBegin => b > 0)
  <2>1. ASSUME NEW i \in 1 .. Len(r)
        PROVE  (r[i] = F!DumpEnd => i = b /\ b = lo + 2) /\ (r[i] = F!DumpBegin => b > 0)
    <3>1. CASE i \in 1 .. b
      BY <1>4, <3>1
    <3>2. CASE i \in b + 1 .. b + (hi - lo)
      BY <1>5, <3>2
    <3>3. CASE i = Len(r) /\ IsTail(r[i])
      BY <1>6, <3>3
    <3> QED
      BY <1>7, <3>1, <3>2, <3>3
  <2> QED
    BY <2>1
<1>10. ASSUME NEW i \in 1 .. Len(r), IsEnd(r[i]) PROVE i = Len(r) /\ Len(r) = b + (hi - lo) + 1
  <2>1. IsTail(r[i])
    BY <1>10 DEF IsTail
  <2>2. ~ (i \in 1 .. b + (hi - lo))
    BY <1>8, <2>1
  <2> QED
    BY <1>1, <1>2, <2>2
<1>11. Closed(f) <=> Shut(f)
  <2>1. Closed(f) <=> \E i \in 1 .. Len(r) : IsEnd(r[i])
    BY ClosedIs DEF r
  <2>2. Shut(f) <=> r # <<>> /\ IsEnd(r[Len(r)])
    BY DEF Shut, r
  <2>3. r # <<>> <=> Len(r) # 0
    BY <1>1
  <2>4. r # <<>> => Len(r) \in 1 .. Len(r)
    BY <1>1, <2>3
  <2> QED
    BY <1>10, <2>1, <2>2, <2>4, <2>3
<1>12. Shut(f) => Len(r) = b + (hi - lo) + 1
  <2>1. Shut(f) => r # <<>> /\ IsEnd(r[Len(r)])
    BY DEF Shut, r
  <2>2. r # <<>> => Len(r) \in 1 .. Len(r)
    BY <1>1
  <2> QED
    BY <1>10, <2>1, <2>2
<1> QED
  BY <1>1, <1>2, <1>8, <1>9, <1>11, <1>12 DEF r

-----------------------------------------------------------------------------
(* What loading a file that fits gives *)

(* Nodes numbered from 1. *)
LEMMA ZerosIs ==
  ASSUME NEW m \in Nat
  PROVE  /\ Zeros(m) \in NodeMap /\ DOMAIN Zeros(m) = 1 .. m
         /\ [j \in DOMAIN Zeros(m) \cup {m + 1} |-> 0] = Zeros(m + 1)
<1>1. IsFiniteSet(1 .. m) /\ 1 .. m \subseteq Nat
  BY UpToFinite
<1>2. Zeros(m) \in NodeMap /\ DOMAIN Zeros(m) = 1 .. m
  BY <1>1, NodeMapOf DEF Zeros
<1>3. (1 .. m) \cup {m + 1} = 1 .. m + 1
  OBVIOUS
<1> QED
  BY <1>2, <1>3 DEF Zeros

(* What there is after k records of a dump of the nodes up to lo: in the first file the
   nodes before it are those of the dump. *)
DumpedBefore(order, lo, k) == {order[j] : j \in {i \in 1 .. lo : i < k}}
DumpedNodes(order, lo, k, first) ==
  IF first THEN [i \in DumpedBefore(order, lo, k) |-> 0] ELSE Zeros(lo)
InDumpAt(e, order, lo, k, magic, first) ==
  /\ e \in Loaded /\ e.status = "READING" /\ e.magic = magic
  /\ e.dumpOn <=> k \in 1 .. lo + 1
  /\ e.nodes = DumpedNodes(order, lo, k, first)
LEMMA DumpRead ==
  ASSUME NEW lo \in Nat, NEW order \in SetToSeqs(1 .. lo), NEW k \in 1 .. lo + 2,
         NEW first \in BOOLEAN, NEW magic, NEW e, InDumpAt(e, order, lo, k - 1, magic, first)
  PROVE  InDumpAt(F!ReadRecord(e, DumpRecord(order, lo, k), first), order, lo, k, magic, first)
<1> DEFINE g == F!ReadRecord(e, DumpRecord(order, lo, k), first)
<1> SUFFICES InDumpAt(g, order, lo, k, magic, first)
  OBVIOUS
<1>0. /\ e \in Loaded /\ e.status = "READING" /\ e.magic = magic
      /\ e.dumpOn <=> k - 1 \in 1 .. lo + 1
      /\ e.nodes = DumpedNodes(order, lo, k - 1, first)
  BY DEF InDumpAt
<1>1. g \in Loaded /\ DumpRecord(order, lo, k) \in Record
  BY <1>0, DumpRecordIs, RecordTyped DEF ReadStatus
<1>2. CASE k = 1
  <2>1. g = InDump(e, TRUE)
    <3>1. ~e.dumpOn
      <4>1. ~ (k - 1 \in 1 .. lo + 1)
        BY <1>2
      <4> QED
        BY <1>0, <4>1
    <3> QED
      BY <1>0, <1>2, <3>1, ReadDump DEF DumpRecord
  <2>2. g.status = "READING" /\ g.magic = magic /\ g.dumpOn = TRUE /\ g.nodes = e.nodes
    BY <1>0, <2>1 DEF InDump, Loaded
  <2>3. DumpedNodes(order, lo, k, first) = DumpedNodes(order, lo, k - 1, first)
    <3>1. {i \in 1 .. lo : i < k} = {i \in 1 .. lo : i < k - 1}
      BY <1>2
    <3> QED
      BY <3>1 DEF DumpedBefore, DumpedNodes
  <2>4. k \in 1 .. lo + 1
    BY <1>2
  <2> HIDE DEF g
  <2>5. g.dumpOn <=> k \in 1 .. lo + 1
    BY <2>2, <2>4
  <2> QED
    BY <1>0, <1>1, <2>2, <2>3, <2>5 DEF InDumpAt
<1>3. CASE k = lo + 2
  <2>1. g = InDump(e, FALSE)
    <3>1. e.dumpOn
      <4>1. k - 1 \in 1 .. lo + 1
        BY <1>3
      <4> QED
        BY <1>0, <4>1
    <3>2. DumpRecord(order, lo, k) = F!DumpEnd
      BY <1>3 DEF DumpRecord
    <3> QED
      BY <1>0, <3>1, <3>2, ReadDump
  <2>2. g.status = "READING" /\ g.magic = magic /\ g.dumpOn = FALSE /\ g.nodes = e.nodes
    BY <1>0, <2>1 DEF InDump, Loaded
  <2>3. DumpedNodes(order, lo, k, first) = DumpedNodes(order, lo, k - 1, first)
    <3>1. {i \in 1 .. lo : i < k} = {i \in 1 .. lo : i < k - 1}
      BY <1>3
    <3> QED
      BY <3>1 DEF DumpedBefore, DumpedNodes
  <2>4. ~ (k \in 1 .. lo + 1)
    BY <1>3
  <2> HIDE DEF g
  <2>5. g.dumpOn <=> k \in 1 .. lo + 1
    BY <2>2, <2>4
  <2> QED
    BY <1>0, <1>1, <2>2, <2>3, <2>5 DEF InDumpAt
<1>4. CASE k # 1 /\ k # lo + 2
  <2> DEFINE i == order[k - 1]
  <2>1. k - 1 \in 1 .. lo /\ k - 1 \in 1 .. lo + 1 /\ k \in 1 .. lo + 1
    BY <1>4
  <2>2. i \in 1 .. lo
    BY <2>1, OrderUpTo
  <2>3. i \in Nat /\ DumpRecord(order, lo, k) = F!Dumped(i, 0)
    BY <1>4, <2>2 DEF DumpRecord
  <2>4. e.dumpOn
    BY <1>0, <2>1
  <2> HIDE DEF i
  <2>5. g = IF ~first THEN e
            ELSE IF i \in DOMAIN e.nodes THEN F!Corrupted(WithGhost(e, i))
            ELSE WithNode(e, i)
    BY <1>0, <2>3, <2>4, ReadDump
  <2> HIDE DEF g
  <2>6. k \in 1 .. lo + 1 /\ e.dumpOn
    BY <1>0, <2>1
  <2>7. CASE ~first
    <3>1. g = e
      BY <2>5, <2>7
    <3>2. e.nodes = DumpedNodes(order, lo, k, first)
      BY <1>0, <2>7 DEF DumpedNodes
    <3> QED
      BY <1>0, <2>6, <3>1, <3>2 DEF InDumpAt
  <2>8. CASE first
    <3>1. i \notin DumpedBefore(order, lo, k - 1)
      <4>1. ASSUME NEW j \in 1 .. lo, j < k - 1 PROVE order[j] # i
        BY <2>1, <4>1, OrderUpTo DEF i
      <4> QED
        BY <4>1 DEF DumpedBefore
    <3>2. DOMAIN e.nodes = DumpedBefore(order, lo, k - 1)
      BY <1>0, <2>8 DEF DumpedNodes
    <3>3. g = WithNode(e, i)
      BY <2>5, <2>8, <3>1, <3>2
    <3>4. /\ g.status = "READING" /\ g.magic = magic /\ g.dumpOn = e.dumpOn
          /\ g.nodes = [j \in DOMAIN e.nodes \cup {i} |-> 0]
      BY <1>0, <3>3 DEF WithNode, Loaded
    <3>5. DumpedBefore(order, lo, k) = DumpedBefore(order, lo, k - 1) \cup {i}
      <4>1. {j \in 1 .. lo : j < k} = {j \in 1 .. lo : j < k - 1} \cup {k - 1}
        BY <2>1
      <4> QED
        BY <4>1 DEF DumpedBefore, i
    <3>6. g.nodes = DumpedNodes(order, lo, k, first)
      BY <2>8, <3>2, <3>4, <3>5 DEF DumpedNodes
    <3>7. g.dumpOn <=> k \in 1 .. lo + 1
      BY <2>6, <3>4
    <3> QED
      BY <1>1, <3>4, <3>6, <3>7 DEF InDumpAt
  <2> QED
    BY <2>7, <2>8
<1> QED
  BY <1>2, <1>3, <1>4

(* The dump at the beginning of a file is read as it was written. *)
LEMMA DumpPartRead ==
  ASSUME NEW lo \in Nat, NEW b \in Nat, NEW order \in SetToSeqs(1 .. lo), NEW r,
         b <= lo + 2, DumpsIn(order, r, lo, b), NEW first \in BOOLEAN,
         NEW d \in Loaded, d.status = "READING", ~d.dumpOn, d.nodes = IF first THEN Zeros(0) ELSE Zeros(lo)
  PROVE  InDumpAt(F!ReadRecords(d, r, b, first), order, lo, b, d.magic, first)
<1> DEFINE e(k) == F!ReadRecords(d, r, k, first)
           P == {k \in 0 .. b : InDumpAt(e(k), order, lo, k, d.magic, first)}
<1>1. 0 \in P
  <2>1. e(0) = d
    BY RecordsRead
  <2>2. DumpedNodes(order, lo, 0, first) = d.nodes
    <3>1. DumpedBefore(order, lo, 0) = 1 .. 0
      <4>1. {i \in 1 .. lo : i < 0} = {}
        OBVIOUS
      <4> QED
        BY <4>1 DEF DumpedBefore
    <3> QED
      BY <3>1 DEF DumpedNodes, Zeros
  <2>3. InDumpAt(d, order, lo, 0, d.magic, first)
    BY <2>2 DEF InDumpAt
  <2> HIDE DEF e
  <2> QED
    BY <2>1, <2>3
<1>2. ASSUME NEW k \in 1 .. b, k - 1 \in P PROVE k \in P
  <2>1. e(k) = F!ReadRecord(e(k - 1), r[k], first)
    BY RecordsRead
  <2>2. r[k] = DumpRecord(order, lo, k) /\ k \in 1 .. lo + 2
    BY DEF DumpsIn
  <2>3. InDumpAt(e(k - 1), order, lo, k - 1, d.magic, first)
    <3> HIDE DEF e
    <3> QED
      BY <1>2
  <2> HIDE DEF e
  <2>4. InDumpAt(F!ReadRecord(e(k - 1), DumpRecord(order, lo, k), first), order, lo, k, d.magic, first)
    BY <2>2, <2>3, DumpRead
  <2> QED
    BY <2>1, <2>2, <2>4
<1> HIDE DEF P
<1>3. b \in P
  <2>1. \A k \in 0 .. b : k \in P
    BY <1>1, <1>2, AllUpTo
  <2> QED
    BY <2>1
<1> QED
  BY <1>3 DEF P

(* And then there are the nodes up to lo. *)
LEMMA DumpPartNodes ==
  ASSUME NEW lo \in Nat, NEW b \in Nat, NEW order \in SetToSeqs(1 .. lo), NEW first \in BOOLEAN,
         first => lo = 0 \/ b = lo + 2
  PROVE  DumpedNodes(order, lo, b, first) = Zeros(lo)
<1>1. ASSUME first PROVE DumpedBefore(order, lo, b) = 1 .. lo
  <2>1. {i \in 1 .. lo : i < b} = 1 .. lo
    BY <1>1
  <2>2. DumpedBefore(order, lo, b) = {order[j] : j \in 1 .. lo}
    BY <2>1 DEF DumpedBefore
  <2> QED
    BY <2>2, OrderUpTo
<1> QED
  BY <1>1 DEF DumpedNodes, Zeros

(* The transactions behind it add the nodes up to hi. *)
HasNodes(e, m, magic) ==
  e \in Loaded /\ e.status = "READING" /\ e.magic = magic /\ e.nodes = Zeros(m)
LEMMA TxRead ==
  ASSUME NEW m \in Nat, NEW magic, NEW e, HasNodes(e, m, magic), NEW first
  PROVE  HasNodes(F!ReadRecord(e, TxOf(m + 1), first), m + 1, magic)
<1>1. e \in Loaded /\ e.status = "READING" /\ e.magic = magic /\ e.nodes = Zeros(m) /\ m + 1 \in Nat
  BY DEF HasNodes
<1>2. F!ReadRecord(e, TxOf(m + 1), first) = WithNode(e, m + 1)
  <2>1. m + 1 \notin DOMAIN e.nodes
    <3>1. DOMAIN e.nodes = 1 .. m
      BY <1>1, ZerosIs
    <3> QED
      BY <3>1
  <2> QED
    BY <1>1, <2>1, ReadTx
<1>3. F!ReadRecord(e, TxOf(m + 1), first) \in Loaded
  BY <1>1, TxIs, RecordTyped DEF ReadStatus
<1>4. /\ WithNode(e, m + 1).status = "READING" /\ WithNode(e, m + 1).magic = magic
      /\ WithNode(e, m + 1).nodes = [j \in DOMAIN e.nodes \cup {m + 1} |-> 0]
  BY <1>1 DEF WithNode, Loaded
<1>5. WithNode(e, m + 1).nodes = Zeros(m + 1)
  BY <1>1, <1>4, ZerosIs
<1> QED
  BY <1>2, <1>3, <1>4, <1>5 DEF HasNodes

LEMMA PartsRead ==
  ASSUME NEW f \in File, NEW lo \in Nat, NEW hi \in Nat, NEW b \in Nat, FileFits(f, lo, hi, b),
         NEW first \in BOOLEAN, first => lo = 0 \/ b = lo + 2,
         NEW d \in Loaded, d.status = "READING", ~d.dumpOn, d.nodes = IF first THEN Zeros(0) ELSE Zeros(lo)
  PROVE  HasNodes(F!ReadRecords(d, f.records, b + (hi - lo), first), hi, d.magic)
<1> DEFINE r == f.records
           e(k) == F!ReadRecords(d, r, k, first)
           P == {k \in 0 .. hi - lo : HasNodes(e(b + k), lo + k, d.magic)}
<1>1. /\ lo <= hi /\ b <= lo + 2
      /\ \A j \in 1 .. hi - lo : r[b + j] = TxOf(lo + j)
      /\ \E order \in SetToSeqs(1 .. lo) : DumpsIn(order, r, lo, b)
  BY DEF FileFits, Content, BeginsDump
<1>2. PICK order \in SetToSeqs(1 .. lo) : DumpsIn(order, r, lo, b)
  BY <1>1
<1>3. HasNodes(e(b), lo, d.magic)
  <2> HIDE DEF r
  <2>1. InDumpAt(e(b), order, lo, b, d.magic, first)
    BY <1>1, <1>2, DumpPartRead
  <2>2. DumpedNodes(order, lo, b, first) = Zeros(lo)
    BY DumpPartNodes
  <2> HIDE DEF e
  <2> QED
    BY <2>1, <2>2 DEF InDumpAt, HasNodes
<1>4. 0 \in P
  <2>1. b + 0 = b /\ lo + 0 = lo /\ 0 \in 0 .. hi - lo
    BY <1>1
  <2> HIDE DEF e
  <2> QED
    BY <1>3, <2>1
<1>5. ASSUME NEW k \in 1 .. hi - lo, k - 1 \in P PROVE k \in P
  <2>1. b + k \in Nat /\ b + k # 0 /\ b + k - 1 = b + (k - 1) /\ lo + (k - 1) + 1 = lo + k /\ lo + (k - 1) \in Nat
        /\ k \in 0 .. hi - lo
    BY <1>1
  <2>2. e(b + k) = F!ReadRecord(e(b + (k - 1)), r[b + k], first)
    <3>1. e(b + k) = F!ReadRecord(e(b + k - 1), r[b + k], first)
      BY <2>1, RecordsRead
    <3> HIDE DEF e
    <3> QED
      BY <2>1, <3>1
  <2>3. r[b + k] = TxOf(lo + k)
    BY <1>1
  <2>4. HasNodes(e(b + (k - 1)), lo + (k - 1), d.magic)
    <3> HIDE DEF e
    <3> QED
      BY <1>5
  <2> HIDE DEF e, r
  <2>5. HasNodes(F!ReadRecord(e(b + (k - 1)), TxOf(lo + (k - 1) + 1), first), lo + (k - 1) + 1, d.magic)
    BY <2>1, <2>4, TxRead
  <2> QED
    BY <2>1, <2>2, <2>3, <2>5
<1> HIDE DEF P
<1>6. hi - lo \in P
  <2>1. hi - lo \in Nat /\ hi - lo \in 0 .. hi - lo
    BY <1>1
  <2>2. \A k \in 0 .. hi - lo : k \in P
    BY <1>4, <1>5, <2>1, AllUpTo
  <2> QED
    BY <2>1, <2>2
<1>7. lo + (hi - lo) = hi
  BY <1>1
<1> QED
  BY <1>6, <1>7 DEF P

(* Loading a file that fits gives the nodes up to hi; how it ends depends on the last
   record. *)
LoadsFile(e, f, lo, hi, b, magic) ==
  /\ e \in Loaded /\ e.nodes = Zeros(hi)
  /\ Len(f.records) = b + (hi - lo) => e.status = "UNFINISHED" /\ e.magic = magic
  /\ Shut(f) => e.status = "SUCCESS" /\ e.magic = EndMagic(f)
  /\ Len(f.records) # b + (hi - lo) /\ ~Shut(f) =>
       e.status = "CORRUPTED" /\ f.records # <<>> /\ f.records[Len(f.records)] = F!Torn
LEMMA FileLoaded ==
  ASSUME NEW f \in File, NEW lo \in Nat, NEW hi \in Nat, NEW b \in Nat, FileFits(f, lo, hi, b),
         f.header, NEW first \in BOOLEAN, first => b > 0 /\ (lo = 0 \/ b = lo + 2),
         NEW d \in Loaded, d.magic \in {0, f.magic}, d.nodes = IF first THEN Zeros(0) ELSE Zeros(lo)
  PROVE  LoadsFile(F!LoadFile(d, f, first), f, lo, hi, b, d.magic)
<1> DEFINE r == f.records
           n == b + (hi - lo)
           start == [d EXCEPT !.dumpOn = FALSE, !.status = "READING"]
           end == F!ReadRecords(start, r, Len(r), first)
<1>1. /\ r \in Seq(Record) /\ Len(r) \in Nat /\ lo <= hi /\ Len(r) \in {n, n + 1}
      /\ Len(r) > n => IsTail(r[Len(r)])
      /\ Shut(f) => Len(r) = n + 1
  <2>1. Len(r) > n => IsTail(r[Len(r)])
    BY DEF FileFits, Content
  <2> QED
    BY <2>1, ContentIs
<1>2. /\ start \in Loaded /\ start.status = "READING" /\ ~start.dumpOn
      /\ start.nodes = d.nodes /\ start.magic = d.magic
  BY DEF Loaded
<1>3. first => F!BeginsWithDump(f)
  <2>1. ASSUME first PROVE F!BeginsWithDump(f)
    <3>1. b > 0 /\ b <= Len(r) /\ \E order \in SetToSeqs(1 .. lo) : DumpsIn(order, r, lo, b)
      BY <2>1 DEF FileFits, Content, BeginsDump
    <3>2. 1 \in 1 .. b /\ r # <<>>
      BY <1>1, <3>1
    <3>3. r[1] = F!DumpBegin
      BY <3>1, <3>2 DEF DumpsIn, DumpRecord
    <3> QED
      BY <1>1, <3>2, <3>3 DEF F!BeginsWithDump
  <2> QED
    BY <2>1
<1>4. F!HeaderFits(d, f)
  BY DEF F!HeaderFits
<1>5. F!LoadFile(d, f, first) = IF end.status = "READING" THEN [end EXCEPT !.status = "UNFINISHED"] ELSE end
  <2>1. F!LoadFile(d, f, first) =
          IF ~F!HeaderFits(d, f) \/ (first /\ ~F!BeginsWithDump(f)) THEN F!Corrupted(start)
          ELSE IF end.status = "READING" THEN [end EXCEPT !.status = "UNFINISHED"] ELSE end
    BY DEF F!LoadFile
  <2> HIDE DEF start, end
  <2> QED
    BY <1>3, <1>4, <2>1
<1> HIDE DEF start
<1>6. n \in Nat /\ HasNodes(F!ReadRecords(start, r, n, first), hi, start.magic)
  <2>1. n \in Nat
    BY <1>1
  <2>2. HasNodes(F!ReadRecords(start, f.records, b + (hi - lo), first), hi, start.magic)
    BY <1>2, PartsRead
  <2> QED
    BY <2>1, <2>2
<1> DEFINE e == F!ReadRecords(start, r, n, first)
<1>7. e \in Loaded /\ e.status = "READING" /\ e.magic = d.magic /\ e.nodes = Zeros(hi)
  BY <1>2, <1>6 DEF HasNodes
<1>8. CASE Len(r) = n
  <2>1. end = e
    BY <1>8
  <2> HIDE DEF e, end
  <2>2. F!LoadFile(d, f, first) = [e EXCEPT !.status = "UNFINISHED"]
    BY <1>5, <1>7, <2>1
  <2>3. /\ [e EXCEPT !.status = "UNFINISHED"] \in Loaded
        /\ [e EXCEPT !.status = "UNFINISHED"].nodes = Zeros(hi)
        /\ [e EXCEPT !.status = "UNFINISHED"].status = "UNFINISHED"
        /\ [e EXCEPT !.status = "UNFINISHED"].magic = d.magic
    BY <1>7 DEF Loaded
  <2>4. ~Shut(f)
    BY <1>1, <1>6, <1>8
  <2> QED
    BY <1>8, <2>2, <2>3, <2>4 DEF LoadsFile
<1>9. CASE Len(r) = n + 1
  <2> DEFINE x == r[n + 1]
  <2>1. end = F!ReadRecord(e, x, first)
    <3>1. Len(r) # 0 /\ Len(r) - 1 = n
      BY <1>6, <1>9
    <3>2. end = F!ReadRecord(F!ReadRecords(start, r, Len(r) - 1, first), r[Len(r)], first)
      BY <1>1, <3>1, RecordsRead
    <3> QED
      BY <1>9, <3>1, <3>2
  <2>2. x \in Record /\ IsTail(x) /\ x = r[Len(r)] /\ r # <<>>
    <3>1. n + 1 \in 1 .. Len(r) /\ Len(r) > n
      BY <1>6, <1>9
    <3>2. x \in Record
      BY <1>1, <3>1
    <3> QED
      BY <1>1, <1>9, <3>1, <3>2
  <2>3. Shut(f) <=> IsEnd(x)
    BY <2>2 DEF Shut
  <2> HIDE DEF e, end, x
  <2>4. CASE IsEnd(x)
    <3>1. PICK m \in Nat : x = F!EndOfFile(m) /\ x.magic = m
      <4>1. x.kind = "END OF FILE"
        BY <2>4 DEF IsEnd
      <4> QED
        BY <2>2, <4>1, RecordIs
    <3>2. end = AtEnd(e, m)
      BY <1>7, <2>1, <3>1, ReadOther
    <3>3. AtEnd(e, m) \in Loaded /\ AtEnd(e, m).status = "SUCCESS" /\ AtEnd(e, m).magic = m
          /\ AtEnd(e, m).nodes = Zeros(hi)
      BY <1>7 DEF AtEnd, Loaded
    <3>4. F!LoadFile(d, f, first) = end
      BY <1>5, <3>2, <3>3
    <3>5. EndMagic(f) = m
      BY <2>2, <3>1 DEF EndMagic
    <3>6. Len(r) # n
      BY <1>6, <1>9
    <3> QED
      BY <2>3, <2>4, <3>2, <3>3, <3>4, <3>5, <3>6 DEF LoadsFile
  <2>5. CASE ~IsEnd(x)
    <3>1. x = F!Torn
      BY <2>2, <2>5 DEF IsTail
    <3>2. end = F!Corrupted(e)
      BY <1>7, <2>1, <3>1, ReadOther
    <3>3. F!Corrupted(e) \in Loaded /\ F!Corrupted(e).status = "CORRUPTED"
          /\ F!Corrupted(e).nodes = Zeros(hi)
      BY <1>7 DEF F!Corrupted, Loaded
    <3>4. F!LoadFile(d, f, first) = end
      BY <1>5, <3>2, <3>3
    <3>6. Len(r) # n
      BY <1>6, <1>9
    <3> QED
      BY <2>2, <2>3, <2>5, <3>1, <3>2, <3>3, <3>4, <3>6 DEF LoadsFile
  <2> QED
    BY <2>4, <2>5
<1> QED
  BY <1>1, <1>8, <1>9

(* What is known of a file among files that fit. *)
LEMMA FitsAtIs ==
  ASSUME NEW fs \in Seq(File), NEW U, NEW B, FilesFit(fs, U, B), NEW k \in 1 .. Len(fs)
  PROVE  /\ fs[k] \in File /\ U[k] \in Nat /\ U[k + 1] \in Nat /\ B[k] \in Nat
         /\ Len(fs) \in Nat
         /\ FileFits(fs[k], U[k], U[k + 1], B[k])
         /\ fs[k].header \/ (k = Len(fs) /\ Blank(fs[k]))
         /\ k < Len(fs) => Shut(fs[k]) /\ Follows(fs[k], fs[k + 1])
         /\ k = 1 => FirstFits(fs[k], U[k], B[k])
<1>1. Len(fs) \in Nat /\ fs[k] \in File
  OBVIOUS
<1>2. k \in 1 .. Len(fs) + 1 /\ k + 1 \in 1 .. Len(fs) + 1
  BY <1>1
<1>3. U \in [1 .. Len(fs) + 1 -> Nat] /\ B \in [1 .. Len(fs) -> Nat] /\ FitsAt(fs, U, B, k)
  BY DEF FilesFit
<1>4. U[k] \in Nat /\ U[k + 1] \in Nat /\ B[k] \in Nat
  BY <1>2, <1>3
<1> QED
  BY <1>1, <1>3, <1>4 DEF FitsAt

(* A blank file has no nodes. *)
LEMMA BlankIs ==
  ASSUME NEW f \in File, NEW lo \in Nat, NEW hi \in Nat, NEW b \in Nat, FileFits(f, lo, hi, b), f.records = <<>>
  PROVE  hi = lo /\ b = 0 /\ ~Shut(f)
<1>1. Len(f.records) \in {b + (hi - lo), b + (hi - lo) + 1} /\ lo <= hi
  BY ContentIs
<1>2. Len(f.records) = 0
  BY ContentIs
<1> QED
  BY <1>1, <1>2 DEF Shut

(* What has been loaded after the first k files. *)
ChainAt(fs, U, k) ==
  /\ LoadFiles(fs, k) \in Loaded
  /\ LoadFiles(fs, k).nodes = IF k = 0 THEN Zeros(0) ELSE Zeros(U[k + 1])
  /\ k = 0 => LoadFiles(fs, k).magic = 0 /\ LoadFiles(fs, k).status = "READING"
  /\ k > 0 => LoadFiles(fs, k).magic = EndMagic(fs[k]) /\ LoadFiles(fs, k).status = "SUCCESS"
LEMMA NextLoaded ==
  ASSUME NEW fs \in Seq(File), NEW U, NEW B, FilesFit(fs, U, B), NEW k \in 1 .. Len(fs),
         ChainAt(fs, U, k - 1)
  PROVE  /\ fs[k].header => \E magic : LoadsFile(LoadFiles(fs, k), fs[k], U[k], U[k + 1], B[k], magic)
         /\ ~fs[k].header => /\ LoadFiles(fs, k).status = "CORRUPTED"
                             /\ LoadFiles(fs, k).nodes = Zeros(U[k + 1]) /\ Blank(fs[k])
<1> DEFINE d == LoadFiles(fs, k - 1)
           f == fs[k]
           first == k = 1
<1>1. /\ f \in File /\ U[k] \in Nat /\ U[k + 1] \in Nat /\ B[k] \in Nat
      /\ FileFits(f, U[k], U[k + 1], B[k])
      /\ f.header \/ Blank(f)
      /\ first => FirstFits(f, U[k], B[k])
  BY FitsAtIs
<1>2. /\ d \in Loaded /\ ~Stops(d)
      /\ d.nodes = IF first THEN Zeros(0) ELSE Zeros(U[k])
      /\ first => d.magic = 0
  <2>1. (k - 1 = 0) <=> first
    OBVIOUS
  <2>2. k - 1 + 1 = k /\ (~first => k - 1 > 0)
    OBVIOUS
  <2> HIDE DEF first
  <2> QED
    BY <2>1, <2>2 DEF ChainAt, Stops
<1>3. LoadFiles(fs, k) = F!LoadFile(d, f, first)
  <2>1. LoadFiles(fs, k) = LoadNext(d, f, k)
    BY FilesLoaded
  <2> QED
    BY <1>2, <2>1 DEF LoadNext
<1>4. CASE f.header
  <2>1. d.magic \in {0, f.magic}
    <3>1. CASE first
      BY <1>2, <3>1
    <3>2. CASE ~first
      <4>1. k - 1 \in 1 .. Len(fs) /\ k - 1 < Len(fs) /\ k - 1 + 1 = k /\ k - 1 > 0
        BY <3>2
      <4>2. Follows(fs[k - 1], f)
        BY <4>1, FitsAtIs
      <4>3. d.magic = EndMagic(fs[k - 1])
        BY <4>1 DEF ChainAt
      <4> QED
        BY <1>4, <4>2, <4>3 DEF Follows
    <3> QED
      BY <3>1, <3>2
  <2>2. first => B[k] > 0 /\ (U[k] = 0 \/ B[k] = U[k] + 2)
    BY <1>1, <1>4 DEF FirstFits
  <2>3. first \in BOOLEAN
    OBVIOUS
  <2> HIDE DEF d, f, first
  <2>4. LoadsFile(F!LoadFile(d, f, first), f, U[k], U[k + 1], B[k], d.magic)
    BY <1>1, <1>2, <1>4, <2>1, <2>2, <2>3, FileLoaded
  <2> QED
    BY <1>3, <1>4, <2>4 DEF f
<1>5. CASE ~f.header
  <2>1. Blank(f) /\ f.records = <<>>
    BY <1>1, <1>5 DEF Blank
  <2>2. U[k + 1] = U[k] /\ B[k] = 0
    BY <1>1, <2>1, BlankIs
  <2>3. first => U[k] = 0
    BY <1>1, <2>2 DEF FirstFits
  <2>4. ~F!HeaderFits(d, f)
    BY <1>5 DEF F!HeaderFits
  <2>5. F!LoadFile(d, f, first) = F!Corrupted([d EXCEPT !.dumpOn = FALSE, !.status = "READING"])
    BY <2>4 DEF F!LoadFile
  <2> HIDE DEF d
  <2>6. F!LoadFile(d, f, first).status = "CORRUPTED" /\ F!LoadFile(d, f, first).nodes = d.nodes
    BY <1>2, <2>5 DEF F!Corrupted, Loaded
  <2>7. d.nodes = Zeros(U[k + 1])
    BY <1>2, <2>2, <2>3
  <2> QED
    BY <1>3, <1>5, <2>1, <2>6, <2>7
<1> QED
  BY <1>4, <1>5

(* All but the last are loaded to their end marks. *)
LEMMA ChainLoaded ==
  ASSUME NEW fs \in Seq(File), NEW U, NEW B, FilesFit(fs, U, B), NEW n \in 0 .. Len(fs), n < Len(fs) \/ n = 0
  PROVE  ChainAt(fs, U, n)
<1> DEFINE P == {k \in 0 .. n : ChainAt(fs, U, k)}
<1>0. n \in Nat /\ Len(fs) \in Nat
  OBVIOUS
<1>1. 0 \in P
  <2>1. F!Nothing.nodes = Zeros(0) /\ F!Nothing.magic = 0 /\ F!Nothing.status = "READING"
    <3>1. << >> = [i \in 1 .. 0 |-> 0]
      OBVIOUS
    <3> QED
      BY <3>1 DEF F!Nothing, Zeros
  <2>2. LoadFiles(fs, 0) = F!Nothing
    BY FilesLoaded
  <2>3. LoadFiles(fs, 0) \in Loaded
    <3>1. 0 \in 0 .. Len(fs)
      BY <1>0
    <3> QED
      BY <3>1, FilesTyped
  <2>4. ChainAt(fs, U, 0)
    BY <2>1, <2>2, <2>3 DEF ChainAt
  <2> QED
    BY <1>0, <2>4
<1>2. ASSUME NEW k \in 1 .. n, k - 1 \in P PROVE k \in P
  <2>1. k \in 1 .. Len(fs) /\ k < Len(fs) /\ k > 0 /\ k # 0
    BY <1>0
  <2>2. Shut(fs[k]) /\ (fs[k].header \/ Blank(fs[k])) /\ FileFits(fs[k], U[k], U[k + 1], B[k])
        /\ fs[k] \in File /\ U[k] \in Nat /\ U[k + 1] \in Nat /\ B[k] \in Nat
    BY <2>1, FitsAtIs
  <2>3. fs[k].header
    BY <2>2, BlankIs DEF Blank
  <2>4. PICK magic : LoadsFile(LoadFiles(fs, k), fs[k], U[k], U[k + 1], B[k], magic)
    BY <1>2, <2>1, <2>3, NextLoaded
  <2>5. ChainAt(fs, U, k)
    BY <2>1, <2>2, <2>4 DEF ChainAt, LoadsFile
  <2> QED
    BY <2>5
<1> HIDE DEF P
<1>3. n \in P
  <2>1. \A k \in 0 .. n : k \in P
    BY <1>0, <1>1, <1>2, AllUpTo
  <2> QED
    BY <1>0, <2>1
<1> QED
  BY <1>3 DEF P

(* Loading all files that fit gives the nodes they hold, in every case. *)
LEMMA AllLoaded ==
  ASSUME NEW fs \in Seq(File), NEW U, NEW B, FilesFit(fs, U, B)
  PROVE  /\ LastLoaded(fs) /\ LoadAll(fs).nodes = Zeros(U[Len(fs) + 1])
         /\ Len(fs) = 0 => LoadAll(fs).status = "READING"
         /\ Len(fs) > 0 =>
              IF fs[Len(fs)].header
                THEN \E magic : LoadsFile(LoadAll(fs), fs[Len(fs)], U[Len(fs)], U[Len(fs) + 1], B[Len(fs)], magic)
                ELSE LoadAll(fs).status = "CORRUPTED" /\ Blank(fs[Len(fs)])
<1> DEFINE n == Len(fs)
<1>1. n \in Nat /\ LoadAll(fs) = LoadFiles(fs, n)
  BY DEF LoadAll
<1>2. LastLoaded(fs)
  <2>1. ASSUME NEW k \in 1 .. Len(fs) - 1 PROVE LoadFiles(fs, k).status = "SUCCESS"
    <3>1. k \in 0 .. Len(fs) /\ k < Len(fs) /\ k > 0
      BY <1>1
    <3> QED
      BY <3>1, ChainLoaded DEF ChainAt
  <2> QED
    BY <2>1 DEF LastLoaded
<1>3. CASE n = 0
  <2>1. n \in 0 .. Len(fs)
    BY <1>1
  <2>2. ChainAt(fs, U, n)
    BY <1>3, <2>1, ChainLoaded
  <2>3. U[1] = 0
    BY <1>3 DEF FilesFit
  <2> QED
    BY <1>1, <1>2, <1>3, <2>2, <2>3 DEF ChainAt
<1>4. CASE n # 0
  <2>1. n - 1 \in 0 .. Len(fs) /\ n - 1 < Len(fs) /\ n \in 1 .. Len(fs)
    BY <1>1, <1>4
  <2>2. ChainAt(fs, U, n - 1)
    BY <2>1, ChainLoaded
  <2>3. /\ fs[n].header => \E magic : LoadsFile(LoadFiles(fs, n), fs[n], U[n], U[n + 1], B[n], magic)
        /\ ~fs[n].header => /\ LoadFiles(fs, n).status = "CORRUPTED"
                            /\ LoadFiles(fs, n).nodes = Zeros(U[n + 1]) /\ Blank(fs[n])
    BY <2>1, <2>2, NextLoaded
  <2>4. LoadFiles(fs, n).nodes = Zeros(U[n + 1])
    BY <2>3 DEF LoadsFile
  <2> QED
    BY <1>1, <1>2, <1>4, <2>3, <2>4
<1> QED
  BY <1>3, <1>4

-----------------------------------------------------------------------------
(* Writing to a file that fits *)

(* What begins with a dump still does so when less of it is left. *)
LEMMA BeginsKept ==
  ASSUME NEW r, NEW q, NEW lo \in Nat, NEW b \in Nat, BeginsDump(r, lo, b), NEW c \in 0 .. b,
         \A i \in 1 .. c : q[i] = r[i]
  PROVE  BeginsDump(q, lo, c)
<1>1. PICK order \in SetToSeqs(1 .. lo) : DumpsIn(order, r, lo, b)
  BY DEF BeginsDump
<1>2. \A i \in 1 .. c : q[i] = DumpRecord(order, lo, i)
  BY <1>1 DEF DumpsIn
<1>3. c <= lo + 2
  BY DEF BeginsDump
<1> QED
  BY <1>2, <1>3 DEF BeginsDump, DumpsIn

(* The parts of FileFits, put together. *)
LEMMA FitsOf ==
  ASSUME NEW f \in File, NEW lo \in Nat, NEW hi \in Nat, NEW b \in Nat, NEW l \in Nat, lo <= hi,
         l = Len(f.records), l \in {b + (hi - lo), b + (hi - lo) + 1},
         BeginsDump(f.records, lo, b), \A j \in 1 .. hi - lo : f.records[b + j] = TxOf(lo + j),
         l > b + (hi - lo) => IsTail(f.records[l]),
         f.synced \in Nat, f.synced <= l, b > 0 => f.synced > 0,
         l > b + (hi - lo) => f.synced >= l - 1
  PROVE  FileFits(f, lo, hi, b)
<1>1. b <= l
  OBVIOUS
<1>2. Content(f.records, lo, hi, b)
  BY DEF Content
<1>3. Shut(f) => f.synced >= Len(f.records) - 1
  <2>1. ASSUME l = b + (hi - lo) PROVE ~Shut(f)
    <3>1. CASE l = 0
      <4>1. f.records = <<>>
        <5>1. f.records \in Seq(Record)
          BY DEF File
        <5>2. Len(f.records) = 0
          BY <3>1
        <5> QED
          BY <5>1, <5>2
      <4> QED
        BY <4>1 DEF Shut
    <3>2. CASE l # 0
      <4>1. CASE hi = lo
        <5>1. l \in 1 .. b /\ l = b
          BY <2>1, <3>2, <4>1
        <5>2. PICK order \in SetToSeqs(1 .. lo) : DumpsIn(order, f.records, lo, b)
          BY DEF BeginsDump
        <5>3. l \in 1 .. lo + 2
          BY <5>1 DEF BeginsDump
        <5>4. f.records[l] = DumpRecord(order, lo, l)
          BY <5>1, <5>2 DEF DumpsIn
        <5>5. ~IsEnd(f.records[l])
          BY <5>3, <5>4, DumpRecordIs
        <5> QED
          BY <5>5 DEF Shut
      <4>2. CASE hi # lo
        <5>1. hi - lo \in 1 .. hi - lo /\ b + (hi - lo) = l /\ lo + (hi - lo) \in Nat
          BY <2>1, <4>2
        <5>2. f.records[l] = TxOf(lo + (hi - lo))
          BY <5>1
        <5> QED
          BY <5>1, <5>2, TxIs DEF Shut
      <4> QED
        BY <4>1, <4>2
    <3> QED
      BY <3>1, <3>2
  <2>2. l # b + (hi - lo) => f.synced >= l - 1
    OBVIOUS
  <2> QED
    BY <2>1, <2>2
<1> QED
  BY <1>1, <1>2, <1>3 DEF FileFits, Secure

(* And taken apart. *)
LEMMA FitsIs ==
  ASSUME NEW f \in File, NEW lo \in Nat, NEW hi \in Nat, NEW b \in Nat, FileFits(f, lo, hi, b)
  PROVE  /\ BeginsDump(f.records, lo, b) /\ b <= Len(f.records)
         /\ \A j \in 1 .. hi - lo : f.records[b + j] = TxOf(lo + j)
         /\ Len(f.records) > b + (hi - lo) => IsTail(f.records[Len(f.records)])
         /\ f.synced <= Len(f.records) /\ (b > 0 => f.synced > 0)
         /\ Shut(f) => f.synced >= Len(f.records) - 1
  BY DEF FileFits, Content, Secure

(* The buffer, written to a file. *)
LEMMA BufferFits ==
  ASSUME NEW f \in File, NEW lo \in Nat, NEW h \in Nat, NEW b \in Nat, FileFits(f, lo, h, b),
         Regular(f, lo, h, b), NEW s \in Seq(Record), NEW m \in Nat, m = h + Len(s),
         \A i \in 1 .. Len(s) : s[i] = TxOf(h + i)
  PROVE  /\ Extended(f, s) \in File /\ Extended(f, s).magic = f.magic /\ Extended(f, s).synced = f.synced
         /\ FileFits(Extended(f, s), lo, m, b) /\ Regular(Extended(f, s), lo, m, b)
         /\ FirstFits(f, lo, b) => FirstFits(Extended(f, s), lo, b)
<1> DEFINE g == Extended(f, s)
           r == f.records
           q == g.records
           l == Len(r)
<1>1. /\ l \in Nat /\ Len(s) \in Nat /\ lo <= h /\ l = b + (h - lo) /\ f.synced \in Nat /\ f.header
  <2>1. l \in Nat /\ lo <= h /\ f.synced \in Nat
    BY ContentIs
  <2>2. l = b + (h - lo) /\ f.header
    BY DEF Regular
  <2>3. Len(s) \in Nat
    OBVIOUS
  <2> QED
    BY <2>1, <2>2, <2>3
<1>2. /\ BeginsDump(r, lo, b) /\ \A j \in 1 .. h - lo : r[b + j] = TxOf(lo + j)
      /\ f.synced <= l /\ (b > 0 => f.synced > 0)
  BY ZenonT(40), FitsIs
<1>3. /\ g \in File /\ g.header = f.header /\ g.magic = f.magic /\ g.synced = f.synced
      /\ Len(q) = l + Len(s)
      /\ \A i \in 1 .. l : q[i] = r[i]
      /\ \A i \in 1 .. Len(s) : q[l + i] = s[i]
  BY ExtendedIs
<1> HIDE DEF g, r, l
<1>4. BeginsDump(q, lo, b)
  <2>1. b \in 0 .. b /\ \A i \in 1 .. b : q[i] = r[i]
    BY <1>1, <1>3
  <2> QED
    BY <1>2, <2>1, BeginsKept
<1>5. ASSUME NEW j \in 1 .. m - lo PROVE q[b + j] = TxOf(lo + j)
  <2>1. CASE j \in 1 .. h - lo
    <3>1. b + j \in 1 .. l
      BY <1>1, <2>1
    <3> QED
      BY <1>2, <1>3, <2>1, <3>1
  <2>2. CASE j > h - lo
    <3>1. j - (h - lo) \in 1 .. Len(s) /\ b + j = l + (j - (h - lo)) /\ h + (j - (h - lo)) = lo + j
      BY <1>1, <2>2
    <3> DEFINE i == j - (h - lo)
    <3>2. q[l + i] = s[i] /\ s[i] = TxOf(h + i)
      BY <1>3, <3>1
    <3> QED
      BY <3>1, <3>2
  <2> QED
    BY <1>1, <2>1, <2>2
<1>6. Len(q) = b + (m - lo) /\ Len(q) \in Nat /\ lo <= m /\ g.synced <= Len(q)
  BY <1>1, <1>2, <1>3
<1>7. FileFits(g, lo, m, b)
  <2>1. ~ (Len(q) > b + (m - lo)) /\ Len(q) \in {b + (m - lo), b + (m - lo) + 1}
    BY <1>6
  <2>2. g.synced \in Nat /\ (b > 0 => g.synced > 0)
    BY <1>1, <1>2, <1>3
  <2> QED
    BY <1>3, <1>4, <1>5, <1>6, <2>1, <2>2, FitsOf
<1>8. Regular(g, lo, m, b)
  BY <1>1, <1>3, <1>6 DEF Regular
<1>9. FirstFits(f, lo, b) => FirstFits(g, lo, b)
  BY <1>3 DEF FirstFits
<1> QED
  BY <1>3, <1>7, <1>8, <1>9 DEF g

(* A file that is synchronised. *)
LEMMA SyncFits ==
  ASSUME NEW f \in File, NEW lo \in Nat, NEW h \in Nat, NEW b \in Nat, FileFits(f, lo, h, b)
  PROVE  /\ Synced(f) \in File /\ Synced(f).magic = f.magic
         /\ Synced(f).synced = Len(f.records) /\ Synced(f).records = f.records
         /\ FileFits(Synced(f), lo, h, b)
         /\ Regular(f, lo, h, b) => Regular(Synced(f), lo, h, b)
         /\ FirstFits(f, lo, b) => FirstFits(Synced(f), lo, b)
<1> DEFINE g == Synced(f)
<1>1. /\ g \in File /\ g.header = f.header /\ g.magic = f.magic
      /\ g.records = f.records /\ g.synced = Len(f.records)
  BY SyncedIs
<1> HIDE DEF g
<1>2. /\ Len(f.records) \in Nat /\ f.synced \in Nat /\ f.synced <= Len(f.records)
      /\ (b > 0 => f.synced > 0) /\ b <= Len(f.records)
  BY ContentIs, FitsIs
<1>3. Secure(g, b)
  BY <1>1, <1>2 DEF Secure
<1>4. FileFits(g, lo, h, b)
  BY <1>1, <1>3 DEF FileFits
<1>5. Regular(f, lo, h, b) => Regular(g, lo, h, b)
  BY <1>1 DEF Regular
<1>6. FirstFits(f, lo, b) => FirstFits(g, lo, b)
  BY <1>1, <1>2 DEF FirstFits
<1> QED
  BY <1>1, <1>4, <1>5, <1>6 DEF g

(* The end mark. *)
LEMMA EndFits ==
  ASSUME NEW f \in File, NEW lo \in Nat, NEW h \in Nat, NEW b \in Nat, FileFits(f, lo, h, b),
         Regular(f, lo, h, b), f.synced = Len(f.records), NEW magic \in Nat
  PROVE  LET g == Extended(f, <<F!EndOfFile(magic)>>)
         IN  /\ g \in File /\ g.header /\ g.magic = f.magic /\ g.synced = f.synced
             /\ FileFits(g, lo, h, b) /\ Shut(g) /\ EndMagic(g) = magic
             /\ FirstFits(f, lo, b) => FirstFits(g, lo, b)
<1> DEFINE s == <<F!EndOfFile(magic)>>
           g == Extended(f, s)
           r == f.records
           q == g.records
           l == Len(r)
<1>1. /\ l \in Nat /\ lo <= h /\ l = b + (h - lo) /\ f.header
  BY ContentIs DEF Regular
<1>2. /\ BeginsDump(r, lo, b) /\ \A j \in 1 .. h - lo : r[b + j] = TxOf(lo + j)
      /\ b <= l
  BY FitsIs
<1>3. s \in Seq(Record) /\ Len(s) = 1 /\ IsEnd(s[1]) /\ s[1].magic = magic
  BY MarksAre
<1> HIDE DEF s
<1>4. /\ g \in File /\ g.header = f.header /\ g.magic = f.magic /\ g.synced = f.synced
      /\ Len(q) = l + Len(s)
      /\ \A i \in 1 .. l : q[i] = r[i]
      /\ \A i \in 1 .. Len(s) : q[l + i] = s[i]
  BY <1>3, ExtendedIs
<1> HIDE DEF g, r, l
<1>5. Len(q) = l + 1 /\ Len(q) \in Nat /\ q[Len(q)] = s[1] /\ g.synced = l
  <2>1. 1 \in 1 .. Len(s)
    BY <1>3
  <2>2. q[l + 1] = s[1] /\ Len(q) = l + 1
    BY <1>3, <1>4, <2>1
  <2>3. g.synced = l
    BY <1>4 DEF l, r
  <2> QED
    BY <1>1, <2>2, <2>3
<1>6. BeginsDump(q, lo, b)
  <2>1. b \in 0 .. b /\ \A i \in 1 .. b : q[i] = r[i]
    BY <1>1, <1>4
  <2> QED
    BY <1>2, <2>1, BeginsKept
<1>7. ASSUME NEW j \in 1 .. h - lo PROVE q[b + j] = TxOf(lo + j)
  <2>1. b + j \in 1 .. l
    BY <1>1
  <2> QED
    BY <1>2, <1>4, <2>1
<1>8. FileFits(g, lo, h, b)
  <2>1. IsTail(q[Len(q)])
    BY <1>3, <1>5 DEF IsTail
  <2>2. Len(q) \in {b + (h - lo), b + (h - lo) + 1} /\ g.synced \in Nat /\ g.synced <= Len(q)
        /\ g.synced >= Len(q) - 1
    BY <1>1, <1>5
  <2>3. b > 0 => g.synced > 0
    BY <1>1, <1>2, <1>5
  <2> QED
    BY <1>1, <1>4, <1>5, <1>6, <1>7, <2>1, <2>2, <2>3, FitsOf
<1>9. Shut(g) /\ EndMagic(g) = magic
  <2>1. q # <<>>
    BY <1>1, <1>5
  <2> QED
    BY <1>3, <1>5, <2>1 DEF Shut, EndMagic
<1>10. FirstFits(f, lo, b) => FirstFits(g, lo, b)
  BY <1>4 DEF FirstFits
<1> QED
  BY <1>1, <1>4, <1>8, <1>9, <1>10 DEF g, s

(* A dump behind its beginning. *)
LEMMA DumpFits ==
  ASSUME NEW f \in File, NEW lo \in Nat, NEW h \in Nat, FileFits(f, lo, h, 1), Regular(f, lo, h, 1),
         Len(f.records) = 1, NEW order \in SetToSeqs(1 .. lo), NEW s \in Seq(Record), Len(s) = lo + 1,
         \A i \in 1 .. lo + 1 : s[i] = DumpRecord(order, lo, i + 1)
  PROVE  /\ h = lo
         /\ Extended(f, s) \in File /\ Extended(f, s).magic = f.magic /\ Extended(f, s).synced = f.synced
         /\ FileFits(Extended(f, s), lo, lo, lo + 2) /\ Regular(Extended(f, s), lo, lo, lo + 2)
         /\ FirstFits(f, lo, 1) => FirstFits(Extended(f, s), lo, lo + 2)
<1> DEFINE g == Extended(f, s)
           r == f.records
           q == g.records
<1>1. /\ Len(r) = 1 /\ h = lo /\ f.synced \in Nat /\ f.header
  <2>1. lo <= h /\ f.synced \in Nat
    BY ContentIs
  <2>2. Len(f.records) = 1 + (h - lo) /\ f.header
    BY DEF Regular
  <2>4. 1 = 1 + (h - lo)
    BY <2>2
  <2>3. h = lo
    BY <2>1, <2>4
  <2> QED
    BY <2>1, <2>2, <2>3
<1>2. BeginsDump(r, lo, 1) /\ f.synced <= 1 /\ f.synced > 0
  <2>1. f.synced <= Len(r) /\ (1 > 0 => f.synced > 0) /\ BeginsDump(r, lo, 1)
    BY FitsIs
  <2> QED
    BY <1>1, <2>1
<1>3. /\ g \in File /\ g.header = f.header /\ g.magic = f.magic /\ g.synced = f.synced
      /\ Len(q) = Len(r) + Len(s)
      /\ \A i \in 1 .. Len(r) : q[i] = r[i]
      /\ \A i \in 1 .. Len(s) : q[Len(r) + i] = s[i]
  BY ExtendedIs
<1> HIDE DEF g, r
<1>4. Len(q) = lo + 2
  BY <1>1, <1>3
<1>5. DumpsIn(order, q, lo, lo + 2)
  <2>1. q[1] = DumpRecord(order, lo, 1)
    <3>1. 1 \in 1 .. 1
      OBVIOUS
    <3>2. q[1] = r[1] /\ r[1] = F!DumpBegin
      BY <1>1, <1>2, <1>3, <3>1 DEF BeginsDump, DumpsIn, DumpRecord
    <3> QED
      BY <3>2 DEF DumpRecord
  <2>2. ASSUME NEW i \in 1 .. lo + 1 PROVE q[1 + i] = DumpRecord(order, lo, i + 1)
    BY ZenonT(40), <1>1, <1>3
  <2>3. ASSUME NEW i \in 1 .. lo + 2 PROVE q[i] = DumpRecord(order, lo, i)
    <3>1. CASE i = 1
      BY <2>1, <3>1
    <3>2. CASE i # 1
      <4>1. i - 1 \in 1 .. lo + 1 /\ 1 + (i - 1) = i /\ i - 1 + 1 = i
        BY <3>2
      <4> DEFINE j == i - 1
      <4>2. q[1 + j] = DumpRecord(order, lo, j + 1)
        BY <2>2, <4>1
      <4> QED
        BY <4>1, <4>2
    <3> QED
      BY <3>1, <3>2
  <2> QED
    BY <2>3 DEF DumpsIn
<1>6. FileFits(g, lo, lo, lo + 2)
  <2>1. BeginsDump(q, lo, lo + 2)
    BY <1>5 DEF BeginsDump
  <2>2. lo + 2 \in Nat /\ Len(q) \in Nat /\ Len(q) \in {lo + 2 + (lo - lo), lo + 2 + (lo - lo) + 1}
        /\ lo <= lo /\ ~ (Len(q) > lo + 2 + (lo - lo)) /\ g.synced \in Nat /\ g.synced <= Len(q) /\ g.synced > 0
    BY <1>1, <1>2, <1>3, <1>4
  <2>3. \A j \in 1 .. lo - lo : q[lo + 2 + j] = TxOf(lo + j)
    OBVIOUS
  <2> QED
    BY <1>3, <2>1, <2>2, <2>3, FitsOf
<1>7. Regular(g, lo, lo, lo + 2)
  BY <1>1, <1>3, <1>4 DEF Regular
<1>8. FirstFits(f, lo, 1) => FirstFits(g, lo, lo + 2)
  BY DEF FirstFits
<1> QED
  BY <1>1, <1>3, <1>6, <1>7, <1>8 DEF g

(* The header of a new file and its first record. *)
LEMMA HeadFits ==
  ASSUME NEW g \in File, NEW h \in Nat, NEW b \in {0, 1}, g.header,
         g.records = IF b = 1 THEN <<F!DumpBegin>> ELSE <<>>, g.synced = Len(g.records)
  PROVE  /\ FileFits(g, h, h, b) /\ Regular(g, h, h, b) /\ Len(g.records) = b
         /\ h = 0 /\ b = 1 => FirstFits(g, h, b)
<1>1. Len(g.records) = b /\ b \in Nat
  OBVIOUS
<1>2. BeginsDump(g.records, h, b)
  <2>1. PICK order : order \in SetToSeqs(1 .. h)
    BY OrderExists
  <2>2. ASSUME NEW i \in 1 .. b PROVE g.records[i] = DumpRecord(order, h, i)
    <3>1. i = 1 /\ b = 1
      OBVIOUS
    <3>2. g.records[1] = F!DumpBegin
      BY <3>1
    <3> QED
      BY <3>1, <3>2 DEF DumpRecord
  <2>3. b <= h + 2
    OBVIOUS
  <2> QED
    BY <2>1, <2>2, <2>3 DEF BeginsDump, DumpsIn
<1>3. FileFits(g, h, h, b)
  <2>1. /\ b \in {b + (h - h), b + (h - h) + 1} /\ h <= h /\ ~ (b > b + (h - h)) /\ g.synced = b
        /\ (b > 0 => g.synced > 0) /\ g.synced <= b
        /\ \A j \in 1 .. h - h : g.records[b + j] = TxOf(h + j)
    BY <1>1
  <2> QED
    BY <1>1, <1>2, <2>1, FitsOf
<1>4. Regular(g, h, h, b)
  BY <1>1 DEF Regular
<1> QED
  BY <1>1, <1>3, <1>4 DEF FirstFits

(* What a power failure leaves of a file that fits. *)
LEMMA KeptIs ==
  ASSUME NEW f \in File, NEW g \in File, NEW n \in Nat, Kept(f, g, n)
  PROVE  /\ f.records \in Seq(Record) /\ f.synced \in Nat
         /\ g.header = f.header /\ g.magic = f.magic /\ f.synced <= n /\ n <= Len(f.records)
         /\ \A i \in 1 .. n : g.records[i] = f.records[i]
         /\ g.synced = Len(g.records)
         /\ \/ Len(g.records) = n
            \/ Len(g.records) = n + 1 /\ n < Len(f.records) /\ g.records[n + 1] = F!Torn
         /\ n = Len(f.records) => g.records = f.records
<1>1. f.records \in Seq(Record) /\ f.synced \in Nat /\ Len(f.records) \in Nat
  BY DEF File
<1>2. /\ g.header = f.header /\ g.magic = f.magic /\ f.synced <= n /\ n <= Len(f.records)
      /\ \/ g.records = SubSeq(f.records, 1, n) /\ g.synced = n
         \/ /\ n < Len(f.records)
            /\ g.records = Append(SubSeq(f.records, 1, n), F!Torn) /\ g.synced = n + 1
  BY <1>1 DEF Kept
<1> DEFINE c == SubSeq(f.records, 1, n)
<1>3. c \in Seq(Record) /\ Len(c) = n /\ (\A i \in 1 .. n : c[i] = f.records[i])
      /\ (n = Len(f.records) => c = f.records)
  BY <1>1, <1>2
<1> HIDE DEF c
<1>4. CASE g.records = c /\ g.synced = n
  BY <1>1, <1>2, <1>3, <1>4
<1>5. CASE n < Len(f.records) /\ g.records = Append(c, F!Torn) /\ g.synced = n + 1
  <2>1. F!Torn \in Record
    BY DEF Record
  <2>2. /\ Len(Append(c, F!Torn)) = n + 1 /\ Append(c, F!Torn)[n + 1] = F!Torn
        /\ \A i \in 1 .. n : Append(c, F!Torn)[i] = c[i]
    BY <1>3, <2>1
  <2> QED
    BY <1>1, <1>2, <1>3, <1>5, <2>2
<1> QED
  BY <1>2, <1>4, <1>5 DEF c

LEMMA KeptFits ==
  ASSUME NEW f \in File, NEW lo \in Nat, NEW h \in Nat, NEW b \in Nat, FileFits(f, lo, h, b),
         NEW g \in File, NEW n \in Nat, Kept(f, g, n)
  PROVE  \E c, k \in Nat :
           /\ FileFits(g, lo, k, c) /\ k <= h
           /\ FirstFits(f, lo, b) => FirstFits(g, lo, c)
           /\ \A a \in 1 .. h : AckSafe(f, lo, b, a) => a <= k /\ AckSafe(g, lo, c, a)
<1> DEFINE r == f.records
           q == g.records
           l == Len(r)
           c == IF n <= b THEN n ELSE b
           k == IF n <= b THEN lo ELSE IF n <= b + (h - lo) THEN lo + (n - b) ELSE h
<1>1. l \in Nat /\ f.synced \in Nat /\ lo <= h /\ l \in {b + (h - lo), b + (h - lo) + 1}
  BY ContentIs
<1>2. /\ BeginsDump(r, lo, b) /\ b <= l
      /\ \A j \in 1 .. h - lo : r[b + j] = TxOf(lo + j)
      /\ l > b + (h - lo) => IsTail(r[l])
      /\ f.synced <= l /\ (b > 0 => f.synced > 0)
  BY ZenonT(40), FitsIs
<1>3. /\ g.header = f.header /\ f.synced <= n /\ n <= l
      /\ \A i \in 1 .. n : q[i] = r[i]
      /\ g.synced = Len(q)
      /\ \/ Len(q) = n
         \/ Len(q) = n + 1 /\ n < l /\ q[n + 1] = F!Torn
  BY KeptIs
<1> HIDE DEF r, q, l
<1>4. /\ c \in 0 .. b /\ k \in lo .. h /\ c <= n
      /\ n <= b + (h - lo) => c + (k - lo) = n
      /\ n > b + (h - lo) => c = b /\ k = h /\ n = l /\ l = b + (h - lo) + 1
      /\ k > lo => c = b
      /\ n > 0 /\ b > 0 => c > 0
      /\ n >= b => c = b
      /\ n > b /\ n <= b + (h - lo) => k = lo + (n - b)
  BY <1>1, <1>3
<1>5. c \in Nat /\ k \in Nat /\ lo <= k /\ k <= h
  BY <1>4
<1> HIDE DEF c, k
<1>6. BeginsDump(q, lo, c)
  <2>1. \A i \in 1 .. c : q[i] = r[i]
    BY <1>3, <1>4
  <2> QED
    BY <1>2, <1>4, <2>1, BeginsKept
<1>7. ASSUME NEW j \in 1 .. k - lo PROVE q[c + j] = TxOf(lo + j)
  <2>1. c = b /\ j \in 1 .. h - lo /\ b + j \in 1 .. n
    BY <1>1, <1>4, <1>5
  <2> QED
    BY <1>2, <1>3, <2>1
<1>8. /\ Len(q) \in Nat /\ Len(q) \in {c + (k - lo), c + (k - lo) + 1}
      /\ Len(q) > c + (k - lo) => IsTail(q[Len(q)])
      /\ c > 0 => g.synced > 0
  <2>1. CASE Len(q) = n
    <3>1. CASE n <= b + (h - lo)
      <4>1. Len(q) = c + (k - lo)
        BY <1>4, <2>1, <3>1
      <4> QED
        BY <1>3, <1>4, <1>5, <2>1, <4>1
    <3>2. CASE n > b + (h - lo)
      <4>1. n = l /\ n = c + (k - lo) + 1 /\ n \in 1 .. n
        BY <1>1, <1>4, <3>2
      <4>2. q[n] = r[l] /\ IsTail(r[l])
        BY <1>1, <1>2, <1>3, <1>4, <3>2, <4>1
      <4>3. Len(q) = c + (k - lo) + 1 /\ Len(q) \in Nat /\ Len(q) > 0
        BY <2>1, <4>1
      <4>4. q[Len(q)] = r[l]
        BY <2>1, <4>2
      <4> QED
        BY <1>3, <4>2, <4>3, <4>4
    <3> QED
      BY <1>1, <3>1, <3>2
  <2>2. CASE Len(q) = n + 1 /\ n < l /\ q[n + 1] = F!Torn
    <3>1. n <= b + (h - lo)
      BY <1>1, <2>2
    <3>2. n + 1 = c + (k - lo) + 1
      BY <1>4, <3>1
    <3> QED
      BY <1>3, <2>2, <3>2 DEF IsTail
  <2> QED
    BY <1>3, <2>1, <2>2
<1>9. FileFits(g, lo, k, c)
  <2>1. g.synced \in Nat /\ g.synced <= Len(q) /\ g.synced >= Len(q) - 1
    BY <1>3, <1>8
  <2> QED
    BY <1>5, <1>6, <1>7, <1>8, <2>1, FitsOf DEF q
<1>10. FirstFits(f, lo, b) => FirstFits(g, lo, c)
  <2>1. ASSUME f.header => b > 0 PROVE g.header => c > 0
    <3>1. b > 0 => n > 0
      BY <1>1, <1>2, <1>3
    <3> QED
      BY <1>3, <1>4, <2>1, <3>1
  <2>2. ASSUME b = lo + 2, f.synced >= b PROVE c = lo + 2 /\ g.synced >= c
    <3>1. n >= b
      BY <1>1, <1>3, <2>2
    <3>2. c = b /\ g.synced >= n
      BY <1>3, <1>4, <3>1
    <3> QED
      BY <1>3, <2>2, <3>1, <3>2
  <2> QED
    BY <2>1, <2>2 DEF FirstFits
<1>11. ASSUME NEW a \in 1 .. h, AckSafe(f, lo, b, a) PROVE a <= k /\ AckSafe(g, lo, c, a)
  <2>1. CASE a <= lo
    BY <1>5, <2>1 DEF AckSafe
  <2>2. CASE a > lo
    <3>1. b + (a - lo) <= n
      <4>1. b + (a - lo) <= f.synced
        BY <1>11, <2>2 DEF AckSafe
      <4> QED
        BY <1>1, <1>3, <4>1
    <3>2. a <= k /\ c = b
      BY <1>1, <1>4, <2>2, <3>1
    <3>3. g.synced >= n
      BY <1>3
    <3>4. c + (a - lo) <= g.synced
      BY <1>3, <1>8, <3>1, <3>2, <3>3
    <3> QED
      BY <3>2, <3>4 DEF AckSafe
  <2> QED
    BY <2>1, <2>2
<1> QED
  BY <1>5, <1>9, <1>10, <1>11

(* A file that keeps its end mark keeps everything. *)
SameOrSafer(f, g) ==
  /\ g.header = f.header /\ g.magic = f.magic /\ g.records = f.records
  /\ g.synced \in f.synced .. Len(f.records)
LEMMA KeptShut ==
  ASSUME NEW f \in File, NEW lo \in Nat, NEW h \in Nat, NEW b \in Nat, FileFits(f, lo, h, b),
         NEW g \in File, NEW n \in Nat, Kept(f, g, n), Closed(g)
  PROVE  SameOrSafer(f, g)
<1>1. /\ Len(f.records) \in {b + (h - lo), b + (h - lo) + 1} /\ Len(f.records) \in Nat /\ lo <= h
      /\ \A i \in 1 .. b + (h - lo) : ~IsTail(f.records[i])
  BY ContentIs
<1>2. /\ g.header = f.header /\ g.magic = f.magic /\ f.synced <= n /\ n <= Len(f.records)
      /\ \A i \in 1 .. n : g.records[i] = f.records[i]
      /\ g.synced = Len(g.records)
      /\ \/ Len(g.records) = n
         \/ Len(g.records) = n + 1 /\ n < Len(f.records) /\ g.records[n + 1] = F!Torn
      /\ n = Len(f.records) => g.records = f.records
      /\ f.synced \in Nat
  BY KeptIs
<1>3. PICK i \in 1 .. Len(g.records) : IsEnd(g.records[i])
  BY ClosedIs
<1>4. i \in 1 .. n
  <2>1. ~IsEnd(F!Torn)
    BY KindsAre
  <2> QED
    BY <1>2, <1>3, <2>1
<1>5. IsTail(f.records[i])
  BY <1>2, <1>3, <1>4 DEF IsTail
<1>6. n = Len(f.records)
  <2>1. ~ (i \in 1 .. b + (h - lo))
    BY <1>1, <1>5
  <2> QED
    BY <1>1, <1>2, <1>4, <2>1
<1>7. g.records = f.records /\ g.synced = n
  BY <1>2, <1>6
<1>8. g.synced \in f.synced .. Len(f.records)
  BY <1>1, <1>2, <1>6, <1>7
<1> QED
  BY <1>2, <1>7, <1>8 DEF SameOrSafer

(* A repaired file. *)
LEMMA CutFits ==
  ASSUME NEW f \in File, NEW lo \in Nat, NEW h \in Nat, NEW b \in Nat, FileFits(f, lo, h, b),
         NEW g \in File, NEW n \in 0 .. Len(f.records) - 1, f.records[n + 1] = F!Torn,
         g.header = f.header, g.magic = f.magic, g.records = SubSeq(f.records, 1, n), g.synced = n
  PROVE  /\ ~Shut(f) /\ FileFits(g, lo, h, b)
         /\ FirstFits(f, lo, b) => FirstFits(g, lo, b)
         /\ \A a \in 1 .. h : AckSafe(g, lo, b, a)
<1> DEFINE r == f.records
           q == g.records
           l == Len(r)
<1>1. /\ l \in Nat /\ r \in Seq(Record) /\ f.synced \in Nat /\ lo <= h
      /\ l \in {b + (h - lo), b + (h - lo) + 1}
      /\ \A i \in 1 .. b + (h - lo) : ~IsTail(r[i])
      /\ Shut(f) <=> Closed(f)
  BY ContentIs
<1>2. /\ BeginsDump(r, lo, b)
      /\ \A j \in 1 .. h - lo : r[b + j] = TxOf(lo + j)
      /\ b > 0 => f.synced > 0
  BY ZenonT(40), FitsIs
<1>3. n = b + (h - lo) /\ l = n + 1 /\ n \in Nat
  <2>1. n \in Nat /\ n + 1 \in 1 .. l
    BY <1>1
  <2>2. IsTail(r[n + 1])
    BY DEF IsTail
  <2>3. ~ (n + 1 \in 1 .. b + (h - lo))
    BY <1>1, <2>2
  <2> QED
    BY <1>1, <2>1, <2>3
<1>4. ~Shut(f)
  <2>1. ~IsEnd(r[l])
    BY <1>3, KindsAre
  <2> QED
    BY <2>1 DEF Shut
<1>5. Len(q) = n /\ \A i \in 1 .. n : q[i] = r[i]
  BY <1>1, <1>3
<1> HIDE DEF r, q, l
<1>6. BeginsDump(q, lo, b)
  <2>1. b \in 0 .. b /\ \A i \in 1 .. b : q[i] = r[i]
    BY <1>1, <1>3, <1>5
  <2> QED
    BY <1>2, <2>1, BeginsKept
<1>7. ASSUME NEW j \in 1 .. h - lo PROVE q[b + j] = TxOf(lo + j)
  <2>1. b + j \in 1 .. n
    BY <1>1, <1>3
  <2> QED
    BY <1>2, <1>5, <2>1
<1>8. FileFits(g, lo, h, b)
  <2>1. Len(q) \in Nat /\ ~ (Len(q) > b + (h - lo)) /\ Len(q) \in {b + (h - lo), b + (h - lo) + 1}
        /\ g.synced \in Nat /\ g.synced <= Len(q) /\ (b > 0 => g.synced > 0)
    BY <1>1, <1>3, <1>5
  <2> QED
    BY <1>1, <1>6, <1>7, <2>1, FitsOf DEF q
<1>9. FirstFits(f, lo, b) => FirstFits(g, lo, b)
  <2>1. g.synced >= b
    BY <1>1, <1>3
  <2> QED
    BY <2>1 DEF FirstFits
<1>10. ASSUME NEW a \in 1 .. h PROVE AckSafe(g, lo, b, a)
  BY <1>1, <1>3 DEF AckSafe
<1> QED
  BY <1>4, <1>8, <1>9, <1>10

-----------------------------------------------------------------------------
(* Steps on files in order *)

(* The last of n files is written to, and what is said of the others stays true. *)
LastFits(fs, gs, lo, n, h, b) ==
  /\ \A k \in 1 .. n - 1 : SameOrSafer(fs[k], gs[k])
  /\ FileFits(gs[n], lo, h, b) /\ (gs[n].header \/ Blank(gs[n]))
  /\ n > 1 => Follows(fs[n - 1], gs[n])
  /\ n = 1 => FirstFits(gs[n], lo, b)
FitsUpTo(gs, n, lo, h, b) ==
  \E V \in [1 .. n + 1 -> Nat], C \in [1 .. n -> Nat] :
    FilesFit(gs, V, C) /\ V[n + 1] = h /\ V[n] = lo /\ C[n] = b
LEMMA LastWritten ==
  ASSUME NEW fs \in Seq(File), NEW U, NEW B, FilesFit(fs, U, B), NEW gs \in Seq(File), Len(gs) = Len(fs),
         NEW n \in Nat, n = Len(fs), n > 0,
         NEW h \in Nat, NEW b \in Nat, LastFits(fs, gs, U[n], n, h, b)
  PROVE  FitsUpTo(gs, n, U[n], h, b)
<1> DEFINE V == [U EXCEPT ![n + 1] = h]
           C == [B EXCEPT ![n] = b]
<1>1. U \in [1 .. n + 1 -> Nat] /\ B \in [1 .. n -> Nat]
  BY DEF FilesFit
<1>2. /\ V \in [1 .. n + 1 -> Nat] /\ C \in [1 .. n -> Nat]
      /\ V[n + 1] = h /\ C[n] = b
      /\ \A k \in 1 .. n : V[k] = U[k]
      /\ \A k \in 1 .. n - 1 : C[k] = B[k]
  BY <1>1
<1> HIDE DEF V, C
<1>0. /\ \A k \in 1 .. n - 1 : SameOrSafer(fs[k], gs[k])
      /\ FileFits(gs[n], U[n], h, b) /\ (gs[n].header \/ Blank(gs[n]))
      /\ n > 1 => Follows(fs[n - 1], gs[n])
      /\ n = 1 => FirstFits(gs[n], U[n], b)
  BY DEF LastFits
<1>3. ASSUME NEW k \in 1 .. n - 1 PROVE FitsAt(gs, V, C, k)
  <2>1. k \in 1 .. Len(fs) /\ k < Len(fs) /\ k + 1 \in 1 .. n
    OBVIOUS
  <2>2. /\ fs[k] \in File /\ U[k] \in Nat /\ U[k + 1] \in Nat /\ B[k] \in Nat
        /\ FileFits(fs[k], U[k], U[k + 1], B[k])
        /\ fs[k].header \/ Blank(fs[k])
        /\ Shut(fs[k]) /\ Follows(fs[k], fs[k + 1])
        /\ k = 1 => FirstFits(fs[k], U[k], B[k])
    BY <2>1, FitsAtIs
  <2>3. V[k] = U[k] /\ V[k + 1] = U[k + 1] /\ C[k] = B[k]
    BY <1>2, <2>1
  <2>4. /\ gs[k].header = fs[k].header /\ gs[k].magic = fs[k].magic /\ gs[k].records = fs[k].records
        /\ gs[k].synced \in fs[k].synced .. Len(fs[k].records)
    BY <1>0 DEF SameOrSafer
  <2>5. fs[k].synced \in Nat /\ Len(fs[k].records) \in Nat
    BY <2>2, ContentIs
  <2>6. gs[k].synced \in Nat /\ gs[k].synced >= fs[k].synced /\ gs[k].synced <= Len(fs[k].records)
    BY <2>4, <2>5
  <2>7. fs[k].header
    BY <2>2, BlankIs DEF Blank
  <2>8. Shut(gs[k]) /\ EndMagic(gs[k]) = EndMagic(fs[k])
    BY <2>2, <2>4 DEF Shut, EndMagic
  <2>9. FileFits(gs[k], U[k], U[k + 1], B[k])
    <3>1. /\ U[k] <= U[k + 1] /\ B[k] <= Len(fs[k].records)
          /\ Secure(fs[k], B[k]) /\ Content(fs[k].records, U[k], U[k + 1], B[k])
      BY <2>2 DEF FileFits
    <3>2. Secure(gs[k], B[k])
      BY <2>2, <2>4, <2>5, <2>6, <3>1 DEF Secure, Shut
    <3> QED
      BY <2>4, <3>1, <3>2 DEF FileFits
  <2>10. Follows(gs[k], gs[k + 1])
    <3>1. CASE k = n - 1
      <4>1. k + 1 = n /\ n > 1
        BY <3>1
      <4> QED
        BY <1>0, <2>8, <3>1, <4>1 DEF Follows
    <3>2. CASE k # n - 1
      <4>1. k + 1 \in 1 .. n - 1
        BY <3>2
      <4>2. gs[k + 1].header = fs[k + 1].header /\ gs[k + 1].magic = fs[k + 1].magic
        BY <1>0, <4>1 DEF SameOrSafer
      <4> QED
        BY <2>2, <2>8, <4>2 DEF Follows
    <3> QED
      BY <3>1, <3>2
  <2>11. k = 1 => FirstFits(gs[k], U[k], B[k])
    BY <2>2, <2>4, <2>5, <2>6 DEF FirstFits
  <2>12. gs[k].header
    BY <2>4, <2>7
  <2> QED
    BY <2>3, <2>8, <2>9, <2>10, <2>11, <2>12 DEF FitsAt
<1>4. FitsAt(gs, V, C, n)
  <2>1. V[n] = U[n] /\ ~ (n < Len(gs)) /\ n = Len(gs)
    BY <1>2
  <2> QED
    BY <1>0, <1>2, <2>1 DEF FitsAt
<1>5. FilesFit(gs, V, C)
  <2>1. ASSUME NEW k \in 1 .. n PROVE FitsAt(gs, V, C, k)
    <3>1. k = n \/ k \in 1 .. n - 1
      OBVIOUS
    <3> QED
      BY <1>3, <1>4, <3>1
  <2> QED
    BY <1>2, <2>1 DEF FilesFit
<1>6. V[n] = U[n]
  BY <1>2
<1> QED
  BY <1>2, <1>5, <1>6 DEF FitsUpTo

(* What is known in order. *)
LEMMA OrderGives ==
  ASSUME PlacesInv, NEW U, NEW B, NEW m \in Nat, Order(U, B, m), NEW n \in Nat, n = Len(files)
  PROVE  /\ files \in Seq(File) /\ FilesFit(files, U, B) /\ U[n + 1] \in Nat
         /\ HistoryFits(committed, acked, n, files[n], U[n], U[n + 1], B[n], m)
         /\ NodesFit(stage, mem, U[n + 1], m)
         /\ Writing(fd, buffer, n, files[n], U[n], U[n + 1], B[n], m)
         /\ StageFits(stage, task, created, n, files[n], files[n - 1], B[n])
         /\ n > 0 => /\ n \in 1 .. Len(files) /\ files[n] \in File /\ U[n] \in Nat /\ B[n] \in Nat
                     /\ FileFits(files[n], U[n], U[n + 1], B[n])
                     /\ files[n].header \/ Blank(files[n])
                     /\ n = 1 => FirstFits(files[n], U[n], B[n])
         /\ n > 1 => Follows(files[n - 1], files[n]) /\ Shut(files[n - 1])
<1>1. /\ files \in Seq(File) /\ FilesFit(files, U, B)
      /\ HistoryFits(committed, acked, n, files[n], U[n], U[n + 1], B[n], m)
      /\ NodesFit(stage, mem, U[n + 1], m)
      /\ Writing(fd, buffer, n, files[n], U[n], U[n + 1], B[n], m)
      /\ StageFits(stage, task, created, n, files[n], files[n - 1], B[n])
  BY WrittenTo DEF Order
<1>2. U[n + 1] \in Nat
  <2>1. U \in [1 .. n + 1 -> Nat] /\ n + 1 \in 1 .. n + 1
    BY <1>1 DEF FilesFit
  <2> QED
    BY <2>1
<1>3. ASSUME n > 0
      PROVE  /\ n \in 1 .. Len(files) /\ files[n] \in File /\ U[n] \in Nat /\ B[n] \in Nat
             /\ FileFits(files[n], U[n], U[n + 1], B[n])
             /\ files[n].header \/ Blank(files[n])
             /\ n = 1 => FirstFits(files[n], U[n], B[n])
  <2>1. n \in 1 .. Len(files)
    BY <1>3
  <2> QED
    BY <1>1, <2>1, FitsAtIs
<1>4. ASSUME n > 1 PROVE Follows(files[n - 1], files[n]) /\ Shut(files[n - 1])
  <2>1. n - 1 \in 1 .. Len(files) /\ n - 1 < Len(files) /\ n - 1 + 1 = n
    BY <1>4
  <2>2. Shut(files[n - 1]) /\ Follows(files[n - 1], files[n - 1 + 1])
    BY <1>1, <2>1, FitsAtIs
  <2> QED
    BY <2>1, <2>2
<1> QED
  BY <1>1, <1>2, <1>3, <1>4

(* Files that fit after a step, and a program that fits to them, are in order. *)
LEMMA OrderNext ==
  ASSUME files' \in Seq(File), NEW n \in Nat, n = Len(files'),
         NEW V \in [1 .. n + 1 -> Nat], NEW C \in [1 .. n -> Nat], NEW m \in Nat, FilesFit(files', V, C),
         HistoryFits(committed', acked', n, files'[n], V[n], V[n + 1], C[n], m),
         NodesFit(stage', mem', V[n + 1], m),
         Writing(fd', buffer', n, files'[n], V[n], V[n + 1], C[n], m),
         StageFits(stage', task', created', n, files'[n], files'[n - 1], C[n])
  PROVE  FilesInOrder'
<1>1. Order(V, C, m)'
  BY DEF Order
<1> QED
  BY <1>1 DEF FilesInOrder

LEMMA OrderFits ==
  ASSUME files' \in Seq(File), NEW n \in Nat, n = Len(files'), NEW lo, NEW h, NEW b, NEW m \in Nat,
         FitsUpTo(files', n, lo, h, b),
         HistoryFits(committed', acked', n, files'[n], lo, h, b, m),
         NodesFit(stage', mem', h, m), Writing(fd', buffer', n, files'[n], lo, h, b, m),
         StageFits(stage', task', created', n, files'[n], files'[n - 1], b)
  PROVE  FilesInOrder'
<1>1. PICK V \in [1 .. n + 1 -> Nat], C \in [1 .. n -> Nat] :
        FilesFit(files', V, C) /\ V[n + 1] = h /\ V[n] = lo /\ C[n] = b
  BY DEF FitsUpTo
<1> QED
  BY <1>1, OrderNext

(* So it is when only the last file changes. *)
LEMMA LastNext ==
  ASSUME PlacesInv, NEW U, NEW B, NEW m \in Nat, Order(U, B, m), NEW n \in Nat, n = Len(files), n > 0,
         files' \in Seq(File), Len(files') = n,
         NEW h \in Nat, NEW b \in Nat, NEW l \in Nat, LastFits(files, files', U[n], n, h, b),
         HistoryFits(committed', acked', n, files'[n], U[n], h, b, l),
         NodesFit(stage', mem', h, l), Writing(fd', buffer', n, files'[n], U[n], h, b, l),
         StageFits(stage', task', created', n, files'[n], files'[n - 1], b)
  PROVE  FilesInOrder'
<1>1. files \in Seq(File) /\ FilesFit(files, U, B)
  BY OrderGives
<1>2. FitsUpTo(files', n, U[n], h, b)
  BY <1>1, LastWritten
<1> QED
  BY <1>2, OrderFits

(* And when it is written to. *)
FitsLast(g, fs, lo, n, h, b) ==
  /\ FileFits(g, lo, h, b) /\ (g.header \/ Blank(g))
  /\ (g.magic = fs[n].magic /\ fs[n].header) \/ (n > 1 => Follows(fs[n - 1], g))
  /\ n = 1 => FirstFits(g, lo, b)
Replaced(gs, fs, n, g) ==
  gs[n] = g /\ \A k \in 1 .. Len(fs) : k # n => gs[k] = fs[k]
LEMMA LastReplaced ==
  ASSUME NEW fs \in Seq(File), NEW U, NEW B, FilesFit(fs, U, B), NEW n \in Nat, n = Len(fs), n > 0,
         NEW g \in File, NEW gs, Replaced(gs, fs, n, g),
         NEW h, NEW b, FitsLast(g, fs, U[n], n, h, b)
  PROVE  LastFits(fs, gs, U[n], n, h, b)
<1>2. /\ gs[n] = g
      /\ \A k \in 1 .. Len(fs) : k # n => gs[k] = fs[k]
  BY DEF Replaced
<1>3. ASSUME NEW k \in 1 .. n - 1 PROVE SameOrSafer(fs[k], gs[k])
  <2>1. k \in 1 .. Len(fs) /\ k # n
    OBVIOUS
  <2>2. gs[k] = fs[k]
    BY <1>2, <2>1
  <2>3. FileFits(fs[k], U[k], U[k + 1], B[k]) /\ fs[k] \in File
        /\ U[k] \in Nat /\ U[k + 1] \in Nat /\ B[k] \in Nat
    BY <2>1, FitsAtIs
  <2>4. fs[k].synced \in fs[k].synced .. Len(fs[k].records)
    <3>1. fs[k].synced \in Nat /\ Len(fs[k].records) \in Nat /\ fs[k].synced <= Len(fs[k].records)
      BY <2>3, ContentIs, FitsIs
    <3> QED
      BY <3>1
  <2> QED
    BY <2>2, <2>4 DEF SameOrSafer
<1>4. n > 1 => Follows(fs[n - 1], gs[n])
  <2>1. ASSUME n > 1 PROVE Follows(fs[n - 1], fs[n])
    <3>1. n - 1 \in 1 .. Len(fs) /\ n - 1 < Len(fs) /\ n - 1 + 1 = n
      BY <2>1
    <3>2. Follows(fs[n - 1], fs[n - 1 + 1])
      BY <3>1, FitsAtIs
    <3> QED
      BY <3>1, <3>2
  <2> QED
    BY <1>2, <2>1 DEF Follows, FitsLast
<1> QED
  BY <1>2, <1>3, <1>4 DEF LastFits, FitsLast

LEMMA WriteNext ==
  ASSUME PlacesInv, NEW U, NEW B, NEW m \in Nat, Order(U, B, m), NEW n \in Nat, n = Len(files), n > 0,
         NEW g \in File, files' = [files EXCEPT ![n] = g],
         NEW h \in Nat, NEW b \in Nat, NEW l \in Nat,
         FileFits(g, U[n], h, b), g.header \/ Blank(g),
         (g.magic = files[n].magic /\ files[n].header) \/ (n > 1 => Follows(files[n - 1], g)),
         n = 1 => FirstFits(g, U[n], b),
         HistoryFits(committed', acked', n, g, U[n], h, b, l),
         NodesFit(stage', mem', h, l), Writing(fd', buffer', n, g, U[n], h, b, l),
         StageFits(stage', task', created', n, g, g, b), stage' # "head"
  PROVE  FilesInOrder'
<1>1. files \in Seq(File) /\ FilesFit(files, U, B) /\ n \in 1 .. Len(files)
  BY OrderGives
<1>2. /\ files' \in Seq(File) /\ Len(files') = n /\ files'[n] = g
      /\ LastFits(files, files', U[n], n, h, b)
  <2>1. FitsLast(g, files, U[n], n, h, b)
    BY DEF FitsLast
  <2>2. files' \in Seq(File) /\ Len(files') = n /\ files'[n] = g
        /\ \A k \in 1 .. Len(files) : k # n => files'[k] = files[k]
    BY <1>1, FileReplaced
  <2>3. Replaced(files', files, n, g)
    BY <2>2 DEF Replaced
  <2> QED
    BY <1>1, <2>1, <2>2, <2>3, LastReplaced
<1>3. StageFits(stage', task', created', n, files'[n], files'[n - 1], b)
  BY <1>2 DEF StageFits
<1>4. HistoryFits(committed', acked', n, files'[n], U[n], h, b, l)
      /\ Writing(fd', buffer', n, files'[n], U[n], h, b, l)
  BY <1>2
<1> QED
  BY <1>2, <1>3, <1>4, LastNext

(* And when no file changes. *)
LEMMA StayNext ==
  ASSUME PlacesInv, NEW U \in [1 .. Len(files) + 1 -> Nat], NEW B \in [1 .. Len(files) -> Nat],
         NEW m \in Nat, Order(U, B, m), NEW n \in Nat, n = Len(files),
         files' = files, NEW l \in Nat,
         HistoryFits(committed', acked', n, files[n], U[n], U[n + 1], B[n], l),
         NodesFit(stage', mem', U[n + 1], l), Writing(fd', buffer', n, files[n], U[n], U[n + 1], B[n], l),
         StageFits(stage', task', created', n, files[n], files[n - 1], B[n])
  PROVE  FilesInOrder'
<1>1. files' \in Seq(File) /\ FilesFit(files', U, B) /\ n = Len(files')
      /\ U \in [1 .. n + 1 -> Nat] /\ B \in [1 .. n -> Nat]
  BY OrderGives
<1> QED
  BY <1>1, OrderNext

-----------------------------------------------------------------------------
(* The steps that leave the files in order *)

(* How the loading of all files ends says what the last one looks like. *)
LEMMA LoadedStatus ==
  ASSUME NEW fs \in Seq(File), NEW U, NEW B, FilesFit(fs, U, B), NEW n \in Nat, n = Len(fs),
         NEW st, st = LoadAll(fs).status
  PROVE  /\ st = "CORRUPTED" =>
              n > 0 /\ (Blank(fs[n]) \/ (fs[n].records # <<>> /\ fs[n].records[Len(fs[n].records)] = F!Torn))
         /\ st = "UNFINISHED" => n > 0 /\ Regular(fs[n], U[n], U[n + 1], B[n])
         /\ st \notin {"CORRUPTED", "UNFINISHED"} => n = 0 \/ Shut(fs[n])
<1>1. CASE n = 0
  BY <1>1, AllLoaded
<1>2. CASE n > 0
  <2>1. /\ fs[n].header => \E magic : LoadsFile(LoadAll(fs), fs[n], U[n], U[n + 1], B[n], magic)
        /\ ~fs[n].header => st = "CORRUPTED" /\ Blank(fs[n])
    BY <1>2, AllLoaded
  <2>2. CASE fs[n].header
    <3>1. PICK magic : LoadsFile(LoadAll(fs), fs[n], U[n], U[n + 1], B[n], magic)
      BY <2>1, <2>2
    <3>2. /\ Len(fs[n].records) = B[n] + (U[n + 1] - U[n]) => st = "UNFINISHED"
          /\ Shut(fs[n]) => st = "SUCCESS"
          /\ Len(fs[n].records) # B[n] + (U[n + 1] - U[n]) /\ ~Shut(fs[n]) =>
               st = "CORRUPTED" /\ fs[n].records # <<>> /\ fs[n].records[Len(fs[n].records)] = F!Torn
      BY <3>1 DEF LoadsFile
    <3> QED
      BY <1>2, <2>2, <3>2 DEF Regular
  <2>3. CASE ~fs[n].header
    BY <1>2, <2>1, <2>3
  <2> QED
    BY <2>2, <2>3
<1> QED
  BY <1>1, <1>2

(* A start finds the nodes the files hold, and with them what has been acknowledged. *)
LEMMA StartFinds ==
  ASSUME PlacesInv, NEW U, NEW B, NEW m \in Nat, Order(U, B, m), NEW n \in Nat, n = Len(files), Start
  PROVE  /\ files' = files /\ buffer' = <<>> /\ task' = "start" /\ mem' = Zeros(U[n + 1])
         /\ acked' = acked /\ U[n + 1] \in Nat /\ U[n + 1] <= m
         /\ committed = 1 .. m
         /\ \/ LoadAll(files).status = "CORRUPTED" /\ stage' = "readonly" /\ fd' = 0 /\ committed' = committed
            \/ /\ LoadAll(files).status # "CORRUPTED" /\ committed' = 1 .. U[n + 1]
               /\ \/ LoadAll(files).status = "UNFINISHED" /\ stage' = "up" /\ fd' = n
                  \/ LoadAll(files).status # "UNFINISHED" /\ stage' = "open" /\ fd' = 0
<1> DEFINE d == LoadAll(files)
           readOnly == d.status = "CORRUPTED" \/ ~LastLoaded(files)
<1>1. buffer = <<>>
  <2>1. stage = "down" /\ StagesFit
    BY DEF Start, PlacesInv
  <2> QED
    BY <2>1 DEF StagesFit
<1>2. /\ mem' = d.nodes /\ task' = "start" /\ UNCHANGED <<files, created, buffer, excuse>>
      /\ \/ readOnly /\ stage' = "readonly" /\ fd' = 0 /\ UNCHANGED <<committed, acked>>
         \/ /\ ~readOnly
            /\ \/ d.status = "UNFINISHED" /\ stage' = "up" /\ fd' = Len(files)
               \/ d.status # "UNFINISHED" /\ stage' = "open" /\ fd' = 0
            /\ committed' = committed \cap DOMAIN d.nodes
            /\ acked' = acked \cap DOMAIN d.nodes
  BY DEF Start, onDisk
<1>3. /\ files \in Seq(File) /\ FilesFit(files, U, B) /\ U[n + 1] \in Nat
      /\ HistoryFits(committed, acked, n, files[n], U[n], U[n + 1], B[n], m)
  BY OrderGives
<1>4. LastLoaded(files) /\ d.nodes = Zeros(U[n + 1])
  BY <1>3, AllLoaded
<1>5. DOMAIN d.nodes = 1 .. U[n + 1]
  BY <1>3, <1>4, ZerosIs
<1>6. committed = 1 .. m /\ U[n + 1] <= m /\ acked \subseteq 1 .. U[n + 1]
  BY <1>3 DEF HistoryFits
<1>7. committed \cap DOMAIN d.nodes = 1 .. U[n + 1] /\ acked \cap DOMAIN d.nodes = acked
  <2>1. ASSUME NEW h \in Nat, h <= m PROVE (1 .. m) \cap (1 .. h) = 1 .. h
    BY <2>1
  <2>2. (1 .. m) \cap (1 .. U[n + 1]) = 1 .. U[n + 1]
    BY <1>3, <1>6, <2>1
  <2> QED
    BY <1>5, <1>6, <2>2
<1> HIDE DEF d
<1> QED
  BY <1>1, <1>2, <1>3, <1>4, <1>6, <1>7 DEF d

LEMMA StartOrder ==
  ASSUME PlacesInv, NEW U \in [1 .. Len(files) + 1 -> Nat], NEW B \in [1 .. Len(files) -> Nat],
         NEW m \in Nat, Order(U, B, m), NEW n \in Nat, n = Len(files), Start
  PROVE  FilesInOrder'
<1> DEFINE st == LoadAll(files).status
<1>1. /\ files' = files /\ buffer' = <<>> /\ task' = "start" /\ mem' = Zeros(U[n + 1])
      /\ acked' = acked /\ U[n + 1] \in Nat /\ U[n + 1] <= m /\ committed = 1 .. m
      /\ \/ st = "CORRUPTED" /\ stage' = "readonly" /\ fd' = 0 /\ committed' = committed
         \/ /\ st # "CORRUPTED" /\ committed' = 1 .. U[n + 1]
            /\ \/ st = "UNFINISHED" /\ stage' = "up" /\ fd' = n
               \/ st # "UNFINISHED" /\ stage' = "open" /\ fd' = 0
  BY StartFinds
<1>2. files \in Seq(File) /\ FilesFit(files, U, B)
      /\ HistoryFits(committed, acked, n, files[n], U[n], U[n + 1], B[n], m)
  BY OrderGives
<1>3. /\ st = "CORRUPTED" =>
           n > 0 /\ (Blank(files[n]) \/ (files[n].records # <<>> /\ files[n].records[Len(files[n].records)] = F!Torn))
      /\ st = "UNFINISHED" => n > 0 /\ Regular(files[n], U[n], U[n + 1], B[n])
      /\ st \notin {"CORRUPTED", "UNFINISHED"} => n = 0 \/ Shut(files[n])
  BY <1>2, LoadedStatus
<1> HIDE DEF st
<1>4. CASE st = "CORRUPTED"
  <2>1. stage' = "readonly" /\ fd' = 0 /\ committed' = committed
    BY <1>1, <1>4
  <2>2. HistoryFits(committed', acked', n, files[n], U[n], U[n + 1], B[n], m)
    BY <1>1, <1>2, <2>1
  <2>3. NodesFit(stage', mem', U[n + 1], m) /\ Writing(fd', buffer', n, files[n], U[n], U[n + 1], B[n], m)
    BY <2>1 DEF NodesFit, Writing
  <2>4. StageFits(stage', task', created', n, files[n], files[n - 1], B[n])
    BY <1>3, <1>4, <2>1 DEF StageFits
  <2> QED
    BY <1>1, <2>2, <2>3, <2>4, StayNext
<1>5. CASE st # "CORRUPTED"
  <2>1. committed' = 1 .. U[n + 1]
    BY <1>1, <1>5
  <2>2. HistoryFits(committed', acked', n, files[n], U[n], U[n + 1], B[n], U[n + 1])
    BY <1>1, <1>2, <2>1 DEF HistoryFits
  <2>3. NodesFit(stage', mem', U[n + 1], U[n + 1])
    BY <1>1 DEF NodesFit
  <2>4. CASE st = "UNFINISHED"
    <3>1. stage' = "up" /\ fd' = n
      BY <1>1, <2>4
    <3>2. Writing(fd', buffer', n, files[n], U[n], U[n + 1], B[n], U[n + 1])
      <4>1. Len(buffer') = 0 /\ U[n + 1] = U[n + 1] + 0
        BY <1>1
      <4> QED
        BY <1>3, <2>4, <3>1, <4>1 DEF Writing
    <3>3. StageFits(stage', task', created', n, files[n], files[n - 1], B[n])
      BY <3>1 DEF StageFits
    <3> QED
      BY <1>1, <2>2, <2>3, <3>2, <3>3, StayNext
  <2>5. CASE st # "UNFINISHED"
    <3>1. stage' = "open" /\ fd' = 0
      BY <1>1, <1>5, <2>5
    <3>2. Writing(fd', buffer', n, files[n], U[n], U[n + 1], B[n], U[n + 1])
      BY <3>1 DEF Writing
    <3>3. StageFits(stage', task', created', n, files[n], files[n - 1], B[n])
      BY <1>1, <1>3, <1>5, <2>5, <3>1 DEF StageFits, Opening
    <3> QED
      BY <1>1, <2>2, <2>3, <3>2, <3>3, StayNext
  <2> QED
    BY <2>4, <2>5
<1> QED
  BY <1>4, <1>5

(* When a file cannot be opened, or the process ends, the files are as they were. *)
LEMMA StopOrder ==
  ASSUME PlacesInv, NEW U \in [1 .. Len(files) + 1 -> Nat], NEW B \in [1 .. Len(files) -> Nat],
         NEW m \in Nat, Order(U, B, m), NEW n \in Nat, n = Len(files), OpenFails \/ Crash
  PROVE  FilesInOrder'
<1>1. /\ stage' \in {"down", "up"} /\ fd' = 0
      /\ stage' = "up" => stage = "open"
      /\ UNCHANGED <<files, created, mem, committed, acked>>
  <2>1. stage = "open" => fd = 0
    BY DEF PlacesInv, StagesFit
  <2>2. CASE OpenFails
    BY <2>1, <2>2 DEF OpenFails, onDisk, history
  <2>3. CASE Crash
    BY <2>3 DEF Crash, Stopped, onDisk, history
  <2> QED
    BY <2>2, <2>3
<1>2. /\ HistoryFits(committed, acked, n, files[n], U[n], U[n + 1], B[n], m)
      /\ NodesFit(stage, mem, U[n + 1], m)
  BY OrderGives
<1>3. HistoryFits(committed', acked', n, files[n], U[n], U[n + 1], B[n], m)
  BY <1>1, <1>2
<1>4. NodesFit(stage', mem', U[n + 1], m)
  BY <1>1, <1>2 DEF NodesFit
<1>5. Writing(fd', buffer', n, files[n], U[n], U[n + 1], B[n], m)
  BY <1>1 DEF Writing
<1>6. StageFits(stage', task', created', n, files[n], files[n - 1], B[n])
  BY <1>1 DEF StageFits
<1>7. files' = files
  BY <1>1
<1> QED
  BY <1>3, <1>4, <1>5, <1>6, <1>7, StayNext

(* The largest number up to m. *)
LEMMA LargestUpTo ==
  ASSUME NEW m \in Nat
  PROVE  Max((1 .. m) \cup {0}) = m
<1>1. m \in (1 .. m) \cup {0} /\ \A y \in (1 .. m) \cup {0} : m >= y
  OBVIOUS
<1>2. ASSUME NEW x \in (1 .. m) \cup {0}, \A y \in (1 .. m) \cup {0} : x >= y PROVE x = m
  BY <1>1, <1>2
<1> QED
  BY <1>1, <1>2 DEF Max

(* A transaction adds the next node, in memory and in the buffer. *)
LEMMA CommitOrder ==
  ASSUME PlacesInv, NEW U \in [1 .. Len(files) + 1 -> Nat], NEW B \in [1 .. Len(files) -> Nat],
         NEW m \in Nat, Order(U, B, m), NEW n \in Nat, n = Len(files), Commit
  PROVE  FilesInOrder'
<1> DEFINE i == Max(Nodes \cup {0}) + 1
<1>1. /\ stage = "up" /\ buffer' = Append(buffer, TxOf(i)) /\ mem' = F!Put(mem, i, 0)
      /\ committed' = committed \cup {i}
      /\ UNCHANGED <<files, created, stage, task, fd, acked>>
  BY DEF Commit, onDisk, TxOf
<1>2. /\ HistoryFits(committed, acked, n, files[n], U[n], U[n + 1], B[n], m)
      /\ NodesFit(stage, mem, U[n + 1], m)
      /\ Writing(fd, buffer, n, files[n], U[n], U[n + 1], B[n], m) /\ U[n + 1] \in Nat
  BY OrderGives
<1>3. mem = Zeros(m)
  BY <1>1, <1>2 DEF NodesFit
<1>4. DOMAIN mem = 1 .. m /\ mem \in NodeMap
  BY <1>3, ZerosIs
<1>5. i = m + 1
  BY <1>4, LargestUpTo DEF Nodes
<1> HIDE DEF i
<1>6. mem' = Zeros(m + 1)
  <2>1. mem' = [j \in DOMAIN mem \cup {m + 1} |-> 0]
    <3>1. m + 1 \in Nat /\ mem' = F!Put(mem, m + 1, 0)
      BY <1>1, <1>5
    <3>2. F!Put(mem, m + 1, 0) = [j \in DOMAIN mem \cup {m + 1} |-> 0]
      BY <1>4, <3>1, PutNode
    <3> QED
      BY <3>1, <3>2
  <2> QED
    BY <1>3, <2>1, ZerosIs
<1>7. committed' = 1 .. m + 1
  <2>1. committed = 1 .. m
    BY <1>2 DEF HistoryFits
  <2>2. (1 .. m) \cup {m + 1} = 1 .. m + 1
    OBVIOUS
  <2> QED
    BY <1>1, <1>5, <2>1, <2>2
<1>8. HistoryFits(committed', acked', n, files[n], U[n], U[n + 1], B[n], m + 1)
  <2>1. acked' = acked /\ U[n + 1] <= m + 1
    BY <1>1, <1>2 DEF HistoryFits
  <2> QED
    BY <1>2, <1>7, <2>1 DEF HistoryFits
<1>9. NodesFit(stage', mem', U[n + 1], m + 1)
  BY <1>1, <1>6 DEF NodesFit
<1>10. Writing(fd', buffer', n, files[n], U[n], U[n + 1], B[n], m + 1)
  <2>1. ASSUME fd # 0
        PROVE  /\ fd = n /\ Regular(files[n], U[n], U[n + 1], B[n])
               /\ m + 1 = U[n + 1] + Len(buffer')
               /\ \A j \in 1 .. Len(buffer') : buffer'[j] = TxOf(U[n + 1] + j)
    <3>1. /\ fd = n /\ Regular(files[n], U[n], U[n + 1], B[n])
          /\ m = U[n + 1] + Len(buffer) /\ \A j \in 1 .. Len(buffer) : buffer[j] = TxOf(U[n + 1] + j)
      BY <1>2, <2>1 DEF Writing
    <3>2. buffer \in Seq(TxRecord) /\ Len(buffer) \in Nat /\ TxOf(m + 1) \in TxRecord
      <4>1. buffer \in Seq(TxRecord)
        BY DEF PlacesInv, FileTypes
      <4>2. Len(buffer) \in Nat
        BY <4>1
      <4> QED
        BY <4>1, <4>2, TxIs
    <3>3. buffer' = Append(buffer, TxOf(m + 1))
      BY <1>1, <1>5
    <3>4. /\ Len(buffer') = Len(buffer) + 1 /\ buffer'[Len(buffer) + 1] = TxOf(m + 1)
          /\ \A j \in 1 .. Len(buffer) : buffer'[j] = buffer[j]
      BY <3>2, <3>3
    <3>5. m + 1 = U[n + 1] + (Len(buffer) + 1)
      BY <1>2, <3>1, <3>2
    <3>6. ASSUME NEW j \in 1 .. Len(buffer) + 1 PROVE buffer'[j] = TxOf(U[n + 1] + j)
      <4>1. j = Len(buffer) + 1 \/ j \in 1 .. Len(buffer)
        BY <3>2
      <4> QED
        BY <3>1, <3>4, <3>5, <4>1
    <3> QED
      BY <3>1, <3>4, <3>5, <3>6
  <2> QED
    BY <1>1, <2>1 DEF Writing
<1>11. StageFits(stage', task', created', n, files[n], files[n - 1], B[n])
  BY <1>1 DEF StageFits
<1>12. files' = files /\ m + 1 \in Nat
  BY <1>1
<1> QED
  BY <1>8, <1>9, <1>10, <1>11, <1>12, StayNext

(* What is known of the file that is written to. *)
LEMMA OpenIs ==
  ASSUME PlacesInv, NEW U \in [1 .. Len(files) + 1 -> Nat], NEW B \in [1 .. Len(files) -> Nat],
         NEW m \in Nat, Order(U, B, m), NEW n \in Nat, n = Len(files), fd # 0
  PROVE  /\ fd = n /\ n > 0 /\ files[n] \in File
         /\ U[n] \in Nat /\ U[n + 1] \in Nat /\ B[n] \in Nat
         /\ FileFits(files[n], U[n], U[n + 1], B[n]) /\ Regular(files[n], U[n], U[n + 1], B[n])
         /\ n = 1 => FirstFits(files[n], U[n], B[n])
         /\ buffer \in Seq(Record) /\ m = U[n + 1] + Len(buffer)
         /\ \A i \in 1 .. Len(buffer) : buffer[i] = TxOf(U[n + 1] + i)
<1>1. buffer \in Seq(Record) /\ fd \in 1 .. Len(files)
  BY FileIs
<1>2. n > 0
  BY <1>1
<1>3. Writing(fd, buffer, n, files[n], U[n], U[n + 1], B[n], m)
      /\ U[n + 1] \in Nat /\ files[n] \in File /\ U[n] \in Nat /\ B[n] \in Nat
      /\ FileFits(files[n], U[n], U[n + 1], B[n])
      /\ (n = 1 => FirstFits(files[n], U[n], B[n]))
  BY <1>2, OrderGives
<1>4. /\ fd = n /\ Regular(files[n], U[n], U[n + 1], B[n]) /\ m = U[n + 1] + Len(buffer)
      /\ \A i \in 1 .. Len(buffer) : buffer[i] = TxOf(U[n + 1] + i)
  BY <1>3 DEF Writing
<1> QED
  BY <1>1, <1>2, <1>3, <1>4

(* A write to it leaves the files in order if the new contents fit. *)
LEMMA OpenNext ==
  ASSUME PlacesInv, NEW U \in [1 .. Len(files) + 1 -> Nat], NEW B \in [1 .. Len(files) -> Nat],
         NEW m \in Nat, Order(U, B, m), NEW n \in Nat, n = Len(files), fd # 0,
         NEW g \in File, files' = [files EXCEPT ![fd] = g], NEW h \in Nat, NEW b \in Nat,
         FileFits(g, U[n], h, b), g.header, g.magic = files[n].magic,
         n = 1 => FirstFits(g, U[n], b), committed' = committed, h <= m,
         acked' \subseteq 1 .. h, \A a \in acked' : AckSafe(g, U[n], b, a),
         NodesFit(stage', mem', h, m), Writing(fd', buffer', n, g, U[n], h, b, m),
         StageFits(stage', task', created', n, g, g, b), stage' # "head"
  PROVE  FilesInOrder'
<1>1. fd = n /\ n > 0 /\ Regular(files[n], U[n], U[n + 1], B[n])
  BY OpenIs
<1>2. files[n].header
  BY <1>1 DEF Regular
<1>3. HistoryFits(committed, acked, n, files[n], U[n], U[n + 1], B[n], m)
  BY OrderGives
<1>4. HistoryFits(committed', acked', n, g, U[n], h, b, m)
  BY <1>3 DEF HistoryFits
<1>5. files' = [files EXCEPT ![n] = g]
  BY <1>1
<1> QED
  BY <1>1, <1>2, <1>4, <1>5, WriteNext

(* The buffer, written to it. *)
LEMMA BufferWritten ==
  ASSUME PlacesInv, NEW U \in [1 .. Len(files) + 1 -> Nat], NEW B \in [1 .. Len(files) -> Nat],
         NEW m \in Nat, Order(U, B, m), NEW n \in Nat, n = Len(files), fd # 0,
         NEW g, g = Extended(files[fd], buffer)
  PROVE  /\ fd = n /\ g \in File /\ g.header /\ g.magic = files[n].magic
         /\ U[n] \in Nat /\ B[n] \in Nat
         /\ FileFits(g, U[n], m, B[n]) /\ Regular(g, U[n], m, B[n])
         /\ n = 1 => FirstFits(g, U[n], B[n])
         /\ committed = 1 .. m /\ acked \subseteq 1 .. m
         /\ \A a \in acked : AckSafe(g, U[n], B[n], a)
         /\ \A x \in File, a \in 1 .. m : x.synced = Len(g.records) => AckSafe(x, U[n], B[n], a)
         /\ stage = "up" => mem = Zeros(m)
<1>1. /\ fd = n /\ n > 0 /\ files[n] \in File
      /\ U[n] \in Nat /\ U[n + 1] \in Nat /\ B[n] \in Nat
      /\ FileFits(files[n], U[n], U[n + 1], B[n]) /\ Regular(files[n], U[n], U[n + 1], B[n])
      /\ n = 1 => FirstFits(files[n], U[n], B[n])
      /\ buffer \in Seq(Record) /\ m = U[n + 1] + Len(buffer)
      /\ \A i \in 1 .. Len(buffer) : buffer[i] = TxOf(U[n + 1] + i)
  BY OpenIs
<1>2. /\ g \in File /\ g.magic = files[n].magic /\ g.synced = files[n].synced
      /\ FileFits(g, U[n], m, B[n]) /\ Regular(g, U[n], m, B[n])
      /\ n = 1 => FirstFits(g, U[n], B[n])
  BY <1>1, BufferFits
<1>3. g.header /\ Len(g.records) = B[n] + (m - U[n])
  BY <1>2 DEF Regular
<1>4. HistoryFits(committed, acked, n, files[n], U[n], U[n + 1], B[n], m) /\ NodesFit(stage, mem, U[n + 1], m)
  BY OrderGives
<1>5. /\ committed = 1 .. m /\ U[n + 1] <= m /\ acked \subseteq 1 .. U[n + 1]
      /\ \A a \in acked : AckSafe(files[n], U[n], B[n], a)
  BY <1>1, <1>4 DEF HistoryFits
<1>6. acked \subseteq 1 .. m
  BY <1>1, <1>5
<1>7. \A a \in acked : AckSafe(g, U[n], B[n], a)
  BY <1>2, <1>5 DEF AckSafe
<1>8. ASSUME NEW x \in File, NEW a \in 1 .. m, x.synced = Len(g.records)
      PROVE  AckSafe(x, U[n], B[n], a)
  BY <1>1, <1>3, <1>8 DEF AckSafe
<1>9. stage = "up" => mem = Zeros(m)
  BY <1>4 DEF NodesFit
<1> QED
  BY <1>1, <1>2, <1>3, <1>5, <1>6, <1>7, <1>8, <1>9

(* And synchronised, with an end mark behind it. *)
LEMMA CloseOldOrder ==
  ASSUME PlacesInv, NEW U \in [1 .. Len(files) + 1 -> Nat], NEW B \in [1 .. Len(files) -> Nat],
         NEW m \in Nat, Order(U, B, m), NEW n \in Nat, n = Len(files),
         NEW t, CloseOld(t)
  PROVE  FilesInOrder'
<1> DEFINE f == Extended(files[fd], buffer)
           g == Extended(Synced(f), <<F!EndOfFile(created + 1)>>)
<1>1. /\ stage = "up" /\ fd # 0 /\ files' = [files EXCEPT ![fd] = g] /\ fd' = 0
      /\ acked' = committed /\ stage' = "open" /\ task' = t
      /\ UNCHANGED <<created, mem, committed>>
  BY DEF CloseOld
<1>2. /\ fd = n /\ f \in File /\ f.header /\ f.magic = files[n].magic
      /\ U[n] \in Nat /\ B[n] \in Nat
      /\ FileFits(f, U[n], m, B[n]) /\ Regular(f, U[n], m, B[n])
      /\ n = 1 => FirstFits(f, U[n], B[n])
      /\ committed = 1 .. m
      /\ \A x \in File, a \in 1 .. m : x.synced = Len(f.records) => AckSafe(x, U[n], B[n], a)
      /\ mem = Zeros(m)
  BY <1>1, BufferWritten
<1> HIDE DEF f
<1>3. /\ Synced(f) \in File /\ Synced(f).magic = f.magic
      /\ Synced(f).synced = Len(f.records) /\ Synced(f).records = f.records
      /\ FileFits(Synced(f), U[n], m, B[n]) /\ Regular(Synced(f), U[n], m, B[n])
      /\ n = 1 => FirstFits(Synced(f), U[n], B[n])
  BY <1>2, SyncFits
<1>4. created + 1 \in Nat
  <2>1. created \in Nat
    BY DEF PlacesInv, FileTypes
  <2> QED
    BY <2>1
<1>5. /\ g \in File /\ g.header /\ g.magic = files[n].magic /\ g.synced = Len(f.records)
      /\ FileFits(g, U[n], m, B[n]) /\ Shut(g) /\ EndMagic(g) = created + 1
      /\ n = 1 => FirstFits(g, U[n], B[n])
  BY <1>2, <1>3, <1>4, EndFits
<1> HIDE DEF g
<1>6. acked' \subseteq 1 .. m /\ \A a \in acked' : AckSafe(g, U[n], B[n], a)
  BY <1>1, <1>2, <1>5
<1>7. NodesFit(stage', mem', m, m) /\ Writing(fd', buffer', n, g, U[n], m, B[n], m)
  BY <1>1, <1>2 DEF NodesFit, Writing
<1>8. StageFits(stage', task', created', n, g, g, B[n])
  <2>1. n > 0
    BY <1>1, <1>2
  <2> QED
    BY <1>1, <1>5, <2>1 DEF StageFits, Opening
<1>9. m <= m /\ stage' # "head"
  BY <1>1
<1> QED
  BY <1>1, <1>2, <1>5, <1>6, <1>7, <1>8, <1>9, OpenNext

(* The buffer is written because it is full. *)
LEMMA SpillOrder ==
  ASSUME PlacesInv, NEW U \in [1 .. Len(files) + 1 -> Nat], NEW B \in [1 .. Len(files) -> Nat],
         NEW m \in Nat, Order(U, B, m), NEW n \in Nat, n = Len(files), Spill
  PROVE  FilesInOrder'
<1> DEFINE g == Extended(files[fd], buffer)
<1>1. /\ stage = "up" /\ fd # 0 /\ files' = [files EXCEPT ![fd] = g] /\ buffer' = <<>>
      /\ UNCHANGED <<created, stage, task, fd, mem, committed, acked>>
  BY DEF Spill, history
<1>2. /\ fd = n /\ g \in File /\ g.header /\ g.magic = files[n].magic
      /\ U[n] \in Nat /\ B[n] \in Nat
      /\ FileFits(g, U[n], m, B[n]) /\ Regular(g, U[n], m, B[n])
      /\ n = 1 => FirstFits(g, U[n], B[n])
      /\ acked \subseteq 1 .. m /\ \A a \in acked : AckSafe(g, U[n], B[n], a)
      /\ mem = Zeros(m)
  BY <1>1, BufferWritten
<1> HIDE DEF g
<1>3. acked' \subseteq 1 .. m /\ \A a \in acked' : AckSafe(g, U[n], B[n], a)
  BY <1>1, <1>2
<1>4. NodesFit(stage', mem', m, m)
  BY <1>1, <1>2 DEF NodesFit
<1>5. Writing(fd', buffer', n, g, U[n], m, B[n], m)
  <2>1. Len(buffer') = 0 /\ m = m + 0 /\ fd' = n
    BY <1>1, <1>2
  <2> QED
    BY <1>2, <2>1 DEF Writing
<1>6. StageFits(stage', task', created', n, g, g, B[n])
  BY <1>1 DEF StageFits
<1>7. m <= m /\ stage' # "head"
  BY <1>1
<1> QED
  BY <1>1, <1>2, <1>3, <1>4, <1>5, <1>6, <1>7, OpenNext

(* Or it is synchronised. *)
LEMMA SyncOrder ==
  ASSUME PlacesInv, NEW U \in [1 .. Len(files) + 1 -> Nat], NEW B \in [1 .. Len(files) -> Nat],
         NEW m \in Nat, Order(U, B, m), NEW n \in Nat, n = Len(files), Sync \/ Close
  PROVE  FilesInOrder'
<1> DEFINE f == Extended(files[fd], buffer)
           g == Synced(f)
<1>1. /\ stage = "up" /\ fd # 0 /\ files' = [files EXCEPT ![fd] = g] /\ buffer' = <<>>
      /\ acked' = committed /\ UNCHANGED <<created, mem, committed>>
      /\ \/ stage' = "up" /\ fd' = fd
         \/ stage' = "down" /\ fd' = 0
  BY DEF Sync, Close
<1>2. /\ fd = n /\ f \in File /\ f.header /\ f.magic = files[n].magic
      /\ U[n] \in Nat /\ B[n] \in Nat
      /\ FileFits(f, U[n], m, B[n]) /\ Regular(f, U[n], m, B[n])
      /\ n = 1 => FirstFits(f, U[n], B[n])
      /\ committed = 1 .. m
      /\ \A x \in File, a \in 1 .. m : x.synced = Len(f.records) => AckSafe(x, U[n], B[n], a)
      /\ mem = Zeros(m)
  BY <1>1, BufferWritten
<1> HIDE DEF f
<1>3. /\ g \in File /\ g.magic = files[n].magic /\ g.synced = Len(f.records)
      /\ FileFits(g, U[n], m, B[n]) /\ Regular(g, U[n], m, B[n])
      /\ n = 1 => FirstFits(g, U[n], B[n])
  BY <1>2, SyncFits
<1> HIDE DEF g
<1>4. acked' \subseteq 1 .. m /\ \A a \in acked' : AckSafe(g, U[n], B[n], a)
  BY <1>1, <1>2, <1>3
<1>5. NodesFit(stage', mem', m, m)
  BY <1>1, <1>2 DEF NodesFit
<1>6. Writing(fd', buffer', n, g, U[n], m, B[n], m)
  <2>1. Len(buffer') = 0 /\ m = m + 0 /\ (fd' = n \/ fd' = 0)
    BY <1>1, <1>2
  <2> QED
    BY <1>3, <2>1 DEF Writing
<1>7. StageFits(stage', task', created', n, g, g, B[n])
  BY <1>1 DEF StageFits
<1>8. m <= m /\ stage' # "head" /\ g.header
  BY <1>1, <1>3 DEF Regular
<1> QED
  BY <1>1, <1>3, <1>2, <1>4, <1>5, <1>6, <1>7, <1>8, OpenNext

(* The end of a start without files: the dump in the first file is empty. *)
LEMMA FinishOrder ==
  ASSUME PlacesInv, NEW U \in [1 .. Len(files) + 1 -> Nat], NEW B \in [1 .. Len(files) -> Nat],
         NEW m \in Nat, Order(U, B, m), NEW n \in Nat, n = Len(files), FinishStart, excuse' = {}
  PROVE  FilesInOrder'
<1> DEFINE s == <<F!DumpEnd>>
           g == Extended(files[fd], s)
<1>1. /\ stage = "finish" /\ stage' = "up" /\ fd = Len(files) /\ fd # 0 /\ buffer = <<>> /\ n = 1
      /\ files' = [files EXCEPT ![fd] = g] /\ fd' = fd
      /\ UNCHANGED <<created, buffer, mem, committed, acked>>
  <2>1. n = 1
    BY DEF FinishStart
  <2> QED
    BY <2>1 DEF FinishStart, PlacesInv, StagesFit
<1>2. /\ fd = n /\ n > 0 /\ files[n] \in File
      /\ U[n] \in Nat /\ U[n + 1] \in Nat /\ B[n] \in Nat
      /\ FileFits(files[n], U[n], U[n + 1], B[n]) /\ Regular(files[n], U[n], U[n + 1], B[n])
      /\ FirstFits(files[n], U[n], B[n]) /\ m = U[n + 1] + Len(buffer)
  BY <1>1, OpenIs
<1>3. /\ HistoryFits(committed, acked, n, files[n], U[n], U[n + 1], B[n], m)
      /\ NodesFit(stage, mem, U[n + 1], m)
      /\ StageFits(stage, task, created, n, files[n], files[n - 1], B[n])
  BY OrderGives
<1>4. Len(files[n].records) = 1 /\ mem = Zeros(m)
  BY <1>1, <1>3 DEF StageFits, NodesFit
<1>5. B[n] = 1 /\ U[n] = 0 /\ U[n + 1] = 0
  <2>1. files[n].header /\ 1 = B[n] + (U[n + 1] - U[n]) /\ B[n] > 0 /\ U[n] <= U[n + 1]
    BY <1>2, <1>4 DEF Regular, FirstFits, FileFits
  <2>2. U[n] = 0 \/ B[n] = U[n] + 2
    BY <1>2 DEF FirstFits
  <2> QED
    BY <1>2, <2>1, <2>2
<1>6. m = 0
  BY <1>1, <1>2, <1>5
<1>7. PICK order : order \in SetToSeqs(1 .. 0)
  BY OrderExists
<1>8. /\ s \in Seq(Record) /\ Len(s) = 0 + 1 /\ s[1] = F!DumpEnd
      /\ \A i \in 1 .. 0 + 1 : s[i] = DumpRecord(order, 0, i + 1)
  <2>1. s \in Seq(Record)
    BY MarksAre
  <2>2. DumpRecord(order, 0, 2) = F!DumpEnd
    BY DEF DumpRecord
  <2>3. ASSUME NEW i \in 1 .. 0 + 1 PROVE s[i] = DumpRecord(order, 0, i + 1)
    <3>1. i = 1 /\ i + 1 = 2
      OBVIOUS
    <3> QED
      BY <2>2, <3>1
  <2> QED
    BY <2>1, <2>3
<1> HIDE DEF s
<1>9. /\ g \in File /\ g.magic = files[n].magic /\ FileFits(g, 0, 0, 2) /\ Regular(g, 0, 0, 2)
      /\ FirstFits(g, 0, 2)
  <2>1. 0 \in Nat /\ FileFits(files[n], 0, 0, 1) /\ Regular(files[n], 0, 0, 1) /\ FirstFits(files[n], 0, 1)
    BY <1>2, <1>5
  <2>2. ASSUME NEW lo \in Nat, lo = 0
        PROVE  /\ g \in File /\ g.magic = files[n].magic
               /\ FileFits(g, lo, lo, lo + 2) /\ Regular(g, lo, lo, lo + 2) /\ FirstFits(g, lo, lo + 2)
    <3>1. order \in SetToSeqs(1 .. lo) /\ Len(s) = lo + 1 /\ \A i \in 1 .. lo + 1 : s[i] = DumpRecord(order, lo, i + 1)
      BY <1>7, <1>8, <2>2
    <3>2. FileFits(files[n], lo, lo, 1) /\ Regular(files[n], lo, lo, 1) /\ FirstFits(files[n], lo, 1)
      BY <2>1, <2>2
    <3>3. /\ Extended(files[n], s) \in File /\ Extended(files[n], s).magic = files[n].magic
          /\ FileFits(Extended(files[n], s), lo, lo, lo + 2) /\ Regular(Extended(files[n], s), lo, lo, lo + 2)
          /\ FirstFits(Extended(files[n], s), lo, lo + 2)
      <4>1. files[n] \in File /\ s \in Seq(Record) /\ Len(files[n].records) = 1
        BY <1>2, <1>4, <1>8
      <4> QED
        BY <3>1, <3>2, <4>1, DumpFits
    <3> QED
      BY <1>2, <3>3
  <2>3. 0 + 2 = 2
    OBVIOUS
  <2> QED
    BY <2>2, <2>3
<1> HIDE DEF g
<1>10. acked' \subseteq 1 .. 0 /\ (\A a \in acked' : AckSafe(g, U[n], 2, a)) /\ committed' = committed
  BY <1>1, <1>3, <1>5 DEF HistoryFits
<1>11. NodesFit(stage', mem', 0, m)
  BY <1>1, <1>4 DEF NodesFit
<1>12. Writing(fd', buffer', n, g, U[n], 0, 2, m)
  <2>1. Len(buffer') = 0 /\ m = 0 + 0 /\ fd' = n
    BY <1>1, <1>2, <1>6
  <2> QED
    BY <1>5, <1>9, <2>1 DEF Writing
<1>13. StageFits(stage', task', created', n, g, g, 2)
  BY <1>1 DEF StageFits
<1>14. 0 <= m /\ stage' # "head" /\ g.header /\ 2 \in Nat /\ 0 \in Nat
  BY <1>1, <1>6, <1>9 DEF Regular
<1>15. FileFits(g, U[n], 0, 2) /\ FirstFits(g, U[n], 2)
  BY <1>5, <1>9
<1> QED
  BY <1>1, <1>9, <1>10, <1>11, <1>12, <1>13, <1>14, <1>15, OpenNext

(* A dump writes all nodes. *)
LEMMA DumpOrder ==
  ASSUME PlacesInv, NEW U \in [1 .. Len(files) + 1 -> Nat], NEW B \in [1 .. Len(files) -> Nat],
         NEW m \in Nat, Order(U, B, m), NEW n \in Nat, n = Len(files), Dump
  PROVE  FilesInOrder'
<1>1. PICK order \in SetToSeqs(Nodes) :
        files' = [files EXCEPT ![fd] = Extended(@, Append(
                   [k \in DOMAIN order |-> F!Dumped(order[k], mem[order[k]])], F!DumpEnd))]
  BY DEF Dump
<1> DEFINE dump == [k \in DOMAIN order |-> F!Dumped(order[k], mem[order[k]])]
           s == Append(dump, F!DumpEnd)
           g == Extended(files[fd], s)
<1>2. /\ stage = "dump" /\ fd # 0 /\ files' = [files EXCEPT ![fd] = g] /\ stage' = "dumped"
      /\ buffer = <<>> /\ UNCHANGED <<created, fd, buffer, mem, committed, acked>>
  BY <1>1 DEF Dump, PlacesInv, StagesFit, history
<1>3. /\ fd = n /\ n > 0 /\ files[n] \in File
      /\ U[n] \in Nat /\ U[n + 1] \in Nat /\ B[n] \in Nat
      /\ FileFits(files[n], U[n], U[n + 1], B[n]) /\ Regular(files[n], U[n], U[n + 1], B[n])
      /\ n = 1 => FirstFits(files[n], U[n], B[n])
      /\ m = U[n + 1] + Len(buffer)
  <2>1. fd # 0
    BY <1>2
  <2> QED
    BY <2>1, OpenIs
<1>4. /\ HistoryFits(committed, acked, n, files[n], U[n], U[n + 1], B[n], m)
      /\ NodesFit(stage, mem, U[n + 1], m)
      /\ StageFits(stage, task, created, n, files[n], files[n - 1], B[n])
  BY OrderGives
<1>5. Len(files[n].records) = 1 /\ B[n] = 1 /\ mem = Zeros(m) /\ m = U[n + 1]
  BY <1>2, <1>4 DEF StageFits, NodesFit
<1>6. U[n + 1] = U[n]
  <2>1. 1 = 1 + (U[n + 1] - U[n])
    BY <1>3, <1>5 DEF Regular
  <2> QED
    BY <1>3, <2>1
<1>7. DOMAIN mem = 1 .. U[n] /\ mem \in NodeMap /\ order \in SetToSeqs(1 .. U[n])
  <2>1. DOMAIN Zeros(U[n]) = 1 .. U[n] /\ Zeros(U[n]) \in NodeMap
    BY <1>3, ZerosIs
  <2>2. mem = Zeros(U[n])
    BY <1>5, <1>6
  <2> QED
    BY <1>1, <2>1, <2>2 DEF Nodes
<1>8. /\ dump \in Seq(Record) /\ Len(dump) = U[n]
      /\ \A i \in 1 .. Len(dump) : dump[i] = F!Dumped(order[i], 0)
  <2>1. /\ dump \in Seq(Record) /\ Len(dump) = Cardinality(1 .. U[n])
        /\ \A i \in 1 .. Len(dump) : dump[i] = F!Dumped(order[i], 0)
    BY <1>7, DumpIs
  <2> QED
    BY <1>3, <2>1, UpToFinite
<1> HIDE DEF dump
<1>9. F!DumpEnd \in Record
  BY DEF Record
<1>10. /\ s \in Seq(Record) /\ Len(s) = U[n] + 1 /\ s[U[n] + 1] = F!DumpEnd
       /\ \A i \in 1 .. U[n] : s[i] = dump[i]
  BY <1>3, <1>8, <1>9
<1> HIDE DEF s
<1>11. ASSUME NEW i \in 1 .. U[n] + 1 PROVE s[i] = DumpRecord(order, U[n], i + 1)
  <2>1. i = U[n] + 1 \/ i \in 1 .. U[n]
    BY <1>3
  <2>2. CASE i = U[n] + 1
    <3>1. i + 1 = U[n] + 2 /\ i + 1 # 1
      BY <1>3, <2>2
    <3> QED
      BY <1>10, <2>2, <3>1 DEF DumpRecord
  <2>3. CASE i \in 1 .. U[n]
    <3>1. i + 1 # U[n] + 2 /\ i + 1 # 1 /\ i + 1 - 1 = i
      BY <1>3, <2>3
    <3>2. s[i] = F!Dumped(order[i], 0)
      BY <1>8, <1>10, <2>3
    <3> QED
      BY <3>1, <3>2 DEF DumpRecord
  <2> QED
    BY <2>1, <2>2, <2>3
<1>12. /\ g \in File /\ g.magic = files[n].magic
       /\ FileFits(g, U[n], U[n], U[n] + 2) /\ Regular(g, U[n], U[n], U[n] + 2)
       /\ n = 1 => FirstFits(g, U[n], U[n] + 2)
  <2>1. /\ FileFits(files[n], U[n], U[n], 1) /\ Regular(files[n], U[n], U[n], 1)
        /\ n = 1 => FirstFits(files[n], U[n], 1)
    BY <1>3, <1>5, <1>6
  <2> QED
    BY SMTT(30), <1>3, <1>5, <1>7, <1>10, <1>11, <2>1, DumpFits
<1> HIDE DEF g
<1>13. acked' \subseteq 1 .. U[n] /\ (\A a \in acked' : AckSafe(g, U[n], U[n] + 2, a)) /\ committed' = committed
  <2>1. acked' \subseteq 1 .. U[n] /\ committed' = committed
    BY <1>2, <1>4, <1>6 DEF HistoryFits
  <2> QED
    BY <1>3, <2>1 DEF AckSafe
<1>14. NodesFit(stage', mem', U[n], m)
  BY <1>2, <1>5, <1>6 DEF NodesFit
<1>15. Writing(fd', buffer', n, g, U[n], U[n], U[n] + 2, m)
  <2>1. Len(buffer') = 0 /\ m = U[n] + 0 /\ fd' = n
    BY <1>2, <1>3, <1>5, <1>6
  <2> QED
    BY <1>12, <2>1 DEF Writing
<1>16. StageFits(stage', task', created', n, g, g, U[n] + 2)
  BY <1>2 DEF StageFits
<1>17. U[n] <= m /\ g.header /\ U[n] + 2 \in Nat
  <2>1. m = U[n]
    BY <1>5, <1>6
  <2>2. U[n] <= m /\ U[n] + 2 \in Nat
    BY <1>3, <2>1
  <2> QED
    BY <1>12, <2>2 DEF Regular
<1>18. stage' # "head"
  BY <1>2
<1> QED
  BY <1>2, <1>3, <1>12, <1>13, <1>14, <1>15, <1>16, <1>17, <1>18, OpenNext

(* Then the file is synchronised. *)
LEMMA DumpSyncOrder ==
  ASSUME PlacesInv, NEW U \in [1 .. Len(files) + 1 -> Nat], NEW B \in [1 .. Len(files) -> Nat],
         NEW m \in Nat, Order(U, B, m), NEW n \in Nat, n = Len(files), DumpSync
  PROVE  FilesInOrder'
<1> DEFINE g == Synced(files[fd])
<1>1. /\ stage = "dumped" /\ fd # 0 /\ files' = [files EXCEPT ![fd] = g] /\ stage' = "up"
      /\ buffer = <<>> /\ UNCHANGED <<created, fd, buffer, mem, committed, acked>>
  BY DEF DumpSync, PlacesInv, StagesFit, history
<1>2. /\ fd = n /\ n > 0 /\ files[n] \in File
      /\ U[n] \in Nat /\ U[n + 1] \in Nat /\ B[n] \in Nat
      /\ FileFits(files[n], U[n], U[n + 1], B[n]) /\ Regular(files[n], U[n], U[n + 1], B[n])
      /\ n = 1 => FirstFits(files[n], U[n], B[n])
      /\ m = U[n + 1] + Len(buffer)
  BY <1>1, OpenIs
<1>3. /\ HistoryFits(committed, acked, n, files[n], U[n], U[n + 1], B[n], m)
      /\ NodesFit(stage, mem, U[n + 1], m)
  BY OrderGives
<1>4. /\ g \in File /\ g.magic = files[n].magic /\ g.synced = Len(files[n].records)
      /\ FileFits(g, U[n], U[n + 1], B[n]) /\ Regular(g, U[n], U[n + 1], B[n])
      /\ n = 1 => FirstFits(g, U[n], B[n])
  BY <1>2, SyncFits
<1> HIDE DEF g
<1>5. Len(files[n].records) = B[n] + (U[n + 1] - U[n])
  BY <1>2 DEF Regular
<1>6. acked' \subseteq 1 .. U[n + 1] /\ committed' = committed
  BY <1>1, <1>3 DEF HistoryFits
<1>7. ASSUME NEW a \in acked' PROVE AckSafe(g, U[n], B[n], a)
  <2>1. a \in 1 .. U[n + 1]
    BY <1>6
  <2> QED
    BY <1>2, <1>4, <1>5, <2>1 DEF AckSafe
<1>8. NodesFit(stage', mem', U[n + 1], m)
  BY <1>1, <1>3 DEF NodesFit
<1>9. Writing(fd', buffer', n, g, U[n], U[n + 1], B[n], m)
  <2>1. Len(buffer') = 0 /\ m = U[n + 1] + 0 /\ fd' = n
    BY <1>1, <1>2
  <2> QED
    BY <1>4, <2>1 DEF Writing
<1>10. StageFits(stage', task', created', n, g, g, B[n])
  BY <1>1 DEF StageFits
<1>11. U[n + 1] <= m /\ g.header
  BY <1>1, <1>2, <1>4 DEF Regular
<1>12. stage' # "head"
  BY <1>1
<1> QED
  BY <1>1, <1>2, <1>4, <1>6, <1>7, <1>8, <1>9, <1>10, <1>11, <1>12, OpenNext

(* A new file is behind the others. *)
LEMMA NewFits ==
  ASSUME NEW h \in Nat
  PROVE  NewFile \in File /\ FileFits(NewFile, h, h, 0) /\ Blank(NewFile) /\ (h = 0 => FirstFits(NewFile, h, 0))
<1> DEFINE g == NewFile
<1>1. g \in File /\ g.header = FALSE /\ g.records = <<>> /\ g.synced = 0 /\ Len(<<>>) = 0
  BY DEF NewFile, File
<1> HIDE DEF g
<1>2. BeginsDump(g.records, h, 0)
  <2>1. PICK order : order \in SetToSeqs(1 .. h)
    BY OrderExists
  <2>2. DumpsIn(order, g.records, h, 0)
    BY DEF DumpsIn
  <2>3. 0 <= h + 2
    OBVIOUS
  <2> QED
    BY <2>1, <2>2, <2>3 DEF BeginsDump
<1>3. /\ h - h = 0 /\ 0 + (h - h) = 0 /\ h <= h /\ 0 \in Nat
      /\ 0 \in {0 + (h - h), 0 + (h - h) + 1} /\ ~(0 > 0 + (h - h)) /\ ~(0 > 0) /\ 0 <= 0
  OBVIOUS
<1>4. \A j \in 1 .. h - h : g.records[0 + j] = TxOf(h + j)
  OBVIOUS
<1>5. FileFits(g, h, h, 0)
  <2>1. 0 = Len(g.records) /\ g.synced = 0
    BY <1>1
  <2>2. g.synced \in Nat /\ g.synced <= 0
    BY <1>3, <2>1
  <2>3. /\ 0 > 0 + (h - h) => IsTail(g.records[0])
        /\ 0 > 0 => g.synced > 0
        /\ 0 > 0 + (h - h) => g.synced >= 0 - 1
    BY <1>3
  <2> QED
    BY ZenonT(40), <1>1, <1>2, <1>3, <1>4, <2>1, <2>2, <2>3, FitsOf
<1>6. Blank(g) /\ (h = 0 => FirstFits(g, h, 0))
  BY <1>1 DEF Blank, FirstFits
<1> QED
  BY <1>1, <1>5, <1>6 DEF g

LEMMA NewLast ==
  ASSUME NEW fs \in Seq(File), NEW n \in Nat, n = Len(fs), NEW U, NEW B, FilesFit(fs, U, B),
         n > 0 => Shut(fs[n]), NEW gs, gs = Append(fs, NewFile)
  PROVE  /\ gs \in Seq(File) /\ Len(gs) = n + 1 /\ gs[n + 1] = NewFile /\ (n > 0 => gs[n] = fs[n])
         /\ FitsUpTo(gs, n + 1, U[n + 1], U[n + 1], 0)
<1> DEFINE V == [k \in 1 .. n + 2 |-> IF k = n + 2 THEN U[n + 1] ELSE U[k]]
           C == [k \in 1 .. n + 1 |-> IF k = n + 1 THEN 0 ELSE B[k]]
<1>1. U \in [1 .. n + 1 -> Nat] /\ B \in [1 .. n -> Nat]
  BY DEF FilesFit
<1>2. /\ V \in [1 .. n + 2 -> Nat] /\ C \in [1 .. n + 1 -> Nat]
      /\ V[n + 2] = U[n + 1] /\ C[n + 1] = 0 /\ U[n + 1] \in Nat
      /\ \A k \in 1 .. n + 1 : V[k] = U[k]
      /\ \A k \in 1 .. n : C[k] = B[k]
  BY SMTT(30), <1>1
<1> HIDE DEF V, C
<1>3. /\ gs \in Seq(File) /\ Len(gs) = n + 1 /\ gs[n + 1] = NewFile
      /\ \A k \in 1 .. n : gs[k] = fs[k]
  BY NewFits
<1>4. ASSUME NEW k \in 1 .. n PROVE FitsAt(gs, V, C, k)
  <2>1. k \in 1 .. Len(fs) /\ k \in 1 .. n + 1 /\ k + 1 \in 1 .. n + 1 /\ k < Len(gs) /\ k # Len(gs)
    BY <1>3
  <2>2. /\ FileFits(fs[k], U[k], U[k + 1], B[k])
        /\ fs[k].header \/ (k = Len(fs) /\ Blank(fs[k]))
        /\ k < Len(fs) => Shut(fs[k]) /\ Follows(fs[k], fs[k + 1])
        /\ k = 1 => FirstFits(fs[k], U[k], B[k])
    BY <2>1, FitsAtIs
  <2>3. gs[k] = fs[k] /\ V[k] = U[k] /\ V[k + 1] = U[k + 1] /\ C[k] = B[k]
    BY <1>2, <1>3, <2>1
  <2>4. Shut(fs[k]) /\ Follows(fs[k], gs[k + 1])
    <3>1. CASE k = n
      <4>1. gs[k + 1] = NewFile /\ n > 0
        BY <1>3, <3>1
      <4>2. Follows(fs[k], gs[k + 1])
        BY <4>1 DEF Follows, NewFile
      <4> QED
        BY <3>1, <4>1, <4>2
    <3>2. CASE k # n
      <4>1. k < Len(fs) /\ k + 1 \in 1 .. n
        BY <3>2
      <4> QED
        BY <1>3, <2>2, <4>1
    <3> QED
      BY <3>1, <3>2
  <2>5. fs[k].header
    BY <2>2, <2>4 DEF Shut, Blank
  <2> QED
    BY <2>2, <2>3, <2>4, <2>5 DEF FitsAt
<1>5. FitsAt(gs, V, C, n + 1)
  <2>1. n + 1 \in 1 .. n + 1 /\ n + 1 + 1 = n + 2 /\ n + 1 = Len(gs) /\ ~(n + 1 < Len(gs))
    BY <1>3
  <2>2. V[n + 1] = U[n + 1] /\ V[n + 1 + 1] = U[n + 1] /\ C[n + 1] = 0
    BY <1>2, <2>1
  <2>3. n + 1 = 1 => U[n + 1] = 0
    <3>1. n + 1 = 1 => n = 0
      OBVIOUS
    <3> QED
      BY <3>1 DEF FilesFit
  <2>4. FileFits(NewFile, U[n + 1], U[n + 1], 0) /\ Blank(NewFile)
        /\ (n + 1 = 1 => FirstFits(NewFile, U[n + 1], 0))
    BY <1>2, <2>3, NewFits
  <2> QED
    BY <1>3, <2>1, <2>2, <2>4 DEF FitsAt
<1>6. FilesFit(gs, V, C)
  <2>1. ASSUME NEW k \in 1 .. n + 1 PROVE FitsAt(gs, V, C, k)
    <3>1. k = n + 1 \/ k \in 1 .. n
      OBVIOUS
    <3> QED
      BY <1>4, <1>5, <3>1
  <2>2. Len(gs) + 1 = n + 2 /\ Len(gs) # 0
    BY <1>3
  <2> QED
    BY <1>2, <1>3, <2>1, <2>2 DEF FilesFit
<1>7. V[n + 1] = U[n + 1]
  BY <1>2
<1>8. FitsUpTo(gs, n + 1, U[n + 1], U[n + 1], 0)
  <2>1. n + 1 + 1 = n + 2
    OBVIOUS
  <2> QED
    BY <1>2, <1>6, <1>7, <2>1 DEF FitsUpTo
<1>9. n > 0 => gs[n] = fs[n]
  BY <1>3
<1> QED
  BY <1>3, <1>8, <1>9

LEMMA NewFileOrder ==
  ASSUME PlacesInv, NEW U \in [1 .. Len(files) + 1 -> Nat], NEW B \in [1 .. Len(files) -> Nat],
         NEW m \in Nat, Order(U, B, m), NEW n \in Nat, n = Len(files), OpenNew
  PROVE  FilesInOrder'
<1>1. /\ stage = "open" /\ fd = 0 /\ files' = Append(files, NewFile) /\ created' = created + 1
      /\ stage' = "head"
      /\ UNCHANGED <<task, fd, buffer, mem, committed, acked>>
  BY DEF OpenNew, PlacesInv, StagesFit, history
<1>2. /\ files \in Seq(File) /\ FilesFit(files, U, B) /\ U[n + 1] \in Nat
      /\ HistoryFits(committed, acked, n, files[n], U[n], U[n + 1], B[n], m)
      /\ NodesFit(stage, mem, U[n + 1], m)
      /\ StageFits(stage, task, created, n, files[n], files[n - 1], B[n])
  BY OrderGives
<1>3. /\ n = 0 => task = "start"
      /\ n > 0 => Shut(files[n])
      /\ task # "start" => EndMagic(files[n]) = created + 1
  BY <1>1, <1>2 DEF StageFits, Opening
<1>4. /\ files' \in Seq(File) /\ Len(files') = n + 1 /\ files'[n + 1] = NewFile /\ (n > 0 => files'[n] = files[n])
      /\ FitsUpTo(files', n + 1, U[n + 1], U[n + 1], 0)
  BY ZenonT(40), <1>1, <1>2, <1>3, NewLast
<1>5. ASSUME NEW p \in Nat, p = n + 1 PROVE FilesInOrder'
  <2>1. p > 0 /\ p - 1 = n /\ files'[p] = NewFile /\ Len(files') = p
        /\ FitsUpTo(files', p, U[n + 1], U[n + 1], 0)
    BY <1>4, <1>5
  <2>2. HistoryFits(committed', acked', p, files'[p], U[n + 1], U[n + 1], 0, m)
    <3>1. /\ committed = 1 .. m /\ U[n + 1] <= m /\ acked \subseteq 1 .. U[n + 1]
      BY <1>2 DEF HistoryFits
    <3>2. ASSUME NEW a \in acked PROVE AckSafe(files'[p], U[n + 1], 0, a)
      BY <1>2, <3>1 DEF AckSafe
    <3>3. committed' = committed /\ acked' = acked
      BY <1>1
    <3> QED
      BY <3>1, <3>2, <3>3 DEF HistoryFits
  <2>3. NodesFit(stage', mem', U[n + 1], m)
    BY <1>1, <1>2 DEF NodesFit
  <2>4. Writing(fd', buffer', p, files'[p], U[n + 1], U[n + 1], 0, m)
    BY <1>1 DEF Writing
  <2>5. StageFits(stage', task', created', p, files'[p], files'[p - 1], 0)
    <3>1. p = 1 => task' = "start"
      <4>1. p = 1 => n = 0
        BY <1>5
      <4> QED
        BY <1>1, <1>3, <4>1
    <3>2. task' # "start" => EndMagic(files'[p - 1]) = created'
      <4>1. n = 0 \/ n > 0
        OBVIOUS
      <4> QED
        BY <1>1, <1>3, <1>4, <2>1, <4>1
    <3>3. Blank(files'[p])
      BY <1>2, <2>1, NewFits
    <3> QED
      BY <1>1, <2>1, <3>1, <3>2, <3>3 DEF StageFits, Heading
  <2>6. files' \in Seq(File) /\ 0 \in Nat
    BY <1>4
  <2> QED
    BY <1>2, <2>1, <2>2, <2>3, <2>4, <2>5, <2>6, OrderFits
<1> QED
  BY <1>5

(* The header it gets carries the magic number of the end mark before it. *)
LEMMA HeadMagicIs ==
  ASSUME PlacesInv, NEW U \in [1 .. Len(files) + 1 -> Nat], NEW B \in [1 .. Len(files) -> Nat],
         NEW m \in Nat, Order(U, B, m), NEW n \in Nat, n = Len(files), stage = "head", n > 1
  PROVE  HeadMagic = EndMagic(files[n - 1])
<1>1. /\ files \in Seq(File) /\ FilesFit(files, U, B)
      /\ StageFits(stage, task, created, n, files[n], files[n - 1], B[n])
  BY OrderGives
<1>2. task # "start" => EndMagic(files[n - 1]) = created
  BY <1>1 DEF StageFits, Heading
<1>3. LoadFiles(files, n - 1).magic = EndMagic(files[n - 1])
  <2>1. n - 1 \in 0 .. Len(files) /\ n - 1 < Len(files) /\ n - 1 > 0
    OBVIOUS
  <2>2. ChainAt(files, U, n - 1)
    BY <1>1, <2>1, ChainLoaded
  <2> QED
    BY <2>1, <2>2 DEF ChainAt
<1> QED
  BY <1>2, <1>3 DEF HeadMagic

LEMMA HeadOrder ==
  ASSUME PlacesInv, NEW U \in [1 .. Len(files) + 1 -> Nat], NEW B \in [1 .. Len(files) -> Nat],
         NEW m \in Nat, Order(U, B, m), NEW n \in Nat, n = Len(files), WriteHead
  PROVE  FilesInOrder'
<1>1. PICK g \in File : Headed(g)
  BY WriteHeadIs
<1>2. /\ g.header = TRUE /\ g.magic = HeadMagic /\ g.records = HeadBegin
      /\ g.synced = Len(HeadBegin) /\ n > 0 /\ buffer' = <<>>
      /\ files' = [files EXCEPT ![n] = g] /\ fd' = n
      /\ stage = "head" /\ stage' \in {"finish", "up", "dump"}
      /\ stage' = "dump" => task = "dump"
      /\ UNCHANGED <<created, task, mem, committed, acked>>
  <2>1. n \in 1 .. n
    BY <1>1 DEF Headed
  <2>2. n > 0
    BY <2>1
  <2> QED
    BY <1>1, <2>2 DEF Headed
<1>3. /\ HistoryFits(committed, acked, n, files[n], U[n], U[n + 1], B[n], m)
      /\ NodesFit(stage, mem, U[n + 1], m) /\ files \in Seq(File) /\ files[n] \in File
      /\ StageFits(stage, task, created, n, files[n], files[n - 1], B[n])
      /\ U[n] \in Nat /\ B[n] \in Nat /\ U[n + 1] \in Nat
      /\ FileFits(files[n], U[n], U[n + 1], B[n])
      /\ n = 1 => FirstFits(files[n], U[n], B[n])
  BY <1>2, OrderGives
<1>4. Blank(files[n]) /\ mem = Zeros(m) /\ m = U[n + 1]
  BY <1>2, <1>3 DEF StageFits, Heading, NodesFit
<1>5. U[n + 1] = U[n] /\ B[n] = 0
  BY <1>3, <1>4, BlankIs DEF Blank
<1>6. n = 1 => U[n] = 0
  <2>1. n = 1 => U[n] = 0 \/ 0 = U[n] + 2
    BY <1>3, <1>5 DEF FirstFits
  <2> QED
    BY <1>3, <2>1
<1>7. PICK b \in {0, 1} : /\ HeadBegin = IF b = 1 THEN <<F!DumpBegin>> ELSE <<>>
                          /\ n = 1 \/ task = "dump" => b = 1
  BY DEF HeadBegin
<1>8. FileFits(g, U[n], U[n], b) /\ Regular(g, U[n], U[n], b) /\ Len(g.records) = b
      /\ (n = 1 => FirstFits(g, U[n], b))
  <2>1. g.records = (IF b = 1 THEN <<F!DumpBegin>> ELSE <<>>) /\ g.synced = Len(g.records) /\ g.header
    BY <1>2, <1>7
  <2>2. FileFits(g, U[n], U[n], b) /\ Regular(g, U[n], U[n], b) /\ Len(g.records) = b
        /\ (U[n] = 0 /\ b = 1 => FirstFits(g, U[n], b))
    BY <1>3, <2>1, HeadFits
  <2> QED
    BY <1>6, <1>7, <2>2
<1>9. b \in Nat
  OBVIOUS
<1>10. HistoryFits(committed', acked', n, g, U[n], U[n], b, m)
  <2>1. /\ committed = 1 .. m /\ U[n] <= m /\ acked \subseteq 1 .. U[n]
    BY <1>3, <1>5 DEF HistoryFits
  <2>2. ASSUME NEW a \in acked PROVE AckSafe(g, U[n], b, a)
    BY <1>3, <2>1 DEF AckSafe
  <2>3. committed' = committed /\ acked' = acked
    BY <1>2
  <2> QED
    BY <2>1, <2>2, <2>3 DEF HistoryFits
<1>11. NodesFit(stage', mem', U[n], m)
  BY <1>2, <1>4, <1>5 DEF NodesFit
<1>12. Writing(fd', buffer', n, g, U[n], U[n], b, m)
  <2>1. Len(buffer') = 0 /\ m = U[n] + 0 /\ fd' = n
    <3>1. m = U[n]
      BY <1>4, <1>5
    <3> QED
      BY <1>2, <1>3, <3>1
  <2> QED
    BY <1>8, <2>1 DEF Writing
<1>13. StageFits(stage', task', created', n, g, g, b)
  BY <1>2, <1>7, <1>8 DEF StageFits
<1>14. n > 1 => Follows(files[n - 1], g)
  BY <1>2, HeadMagicIs DEF Follows
<1>15. stage' # "head"
  BY <1>2
<1> QED
  BY <1>2, <1>3, <1>8, <1>9, <1>10, <1>11, <1>12, <1>13, <1>14, <1>15, WriteNext

(* What a power failure leaves is in order unless an end mark is lost. *)
LEMMA PowerOrder ==
  ASSUME PlacesInv, NEW U \in [1 .. Len(files) + 1 -> Nat], NEW B \in [1 .. Len(files) -> Nat],
         NEW m \in Nat, Order(U, B, m), NEW n \in Nat, n = Len(files), PowerFails, excuse = {}, excuse' = {}
  PROVE  FilesInOrder'
<1>1. /\ stage' = "down" /\ fd' = 0 /\ committed' = committed /\ acked' = acked
      /\ files' \in Seq(File) /\ Len(files') = n
      /\ \A k \in 1 .. n : \E i \in 0 .. Len(files[k].records) : Kept(files[k], files'[k], i)
      /\ \A k \in 1 .. n - 1 : Closed(files[k]) => Closed(files'[k])
  <2>1. /\ stage' = "down" /\ fd' = 0 /\ committed' = committed /\ acked' = acked
        /\ files' \in Seq(File) /\ Len(files') = Len(files)
        /\ \A k \in 1 .. Len(files) : \E i \in 0 .. Len(files[k].records) : Kept(files[k], files'[k], i)
        /\ excuse' = excuse =>
             "end mark" \in excuse \/ \A k \in 1 .. Len(files) - 1 : Closed(files[k]) => Closed(files'[k])
    BY PowerFailsIs
  <2>2. excuse' = excuse /\ "end mark" \notin excuse
    OBVIOUS
  <2>3. \A k \in 1 .. Len(files) - 1 : Closed(files[k]) => Closed(files'[k])
    BY <2>1, <2>2
  <2> QED
    BY <2>1, <2>3
<1>2. /\ files \in Seq(File) /\ FilesFit(files, U, B) /\ U[n + 1] \in Nat
      /\ HistoryFits(committed, acked, n, files[n], U[n], U[n + 1], B[n], m)
  BY OrderGives
<1>3. /\ \A h : NodesFit(stage', mem', h, m)
      /\ \A f, lo, h, b : Writing(fd', buffer', n, f, lo, h, b, m)
      /\ \A f, g, b : StageFits(stage', task', created', n, f, g, b)
  BY <1>1 DEF NodesFit, Writing, StageFits
<1>4. CASE n = 0
  <2>1. files' = files
    <3>1. files = <<>> /\ files' = <<>>
      BY <1>1, <1>2, <1>4, EmptySeq
    <3> QED
      BY <3>1
  <2>2. HistoryFits(committed', acked', n, files[n], U[n], U[n + 1], B[n], m)
    BY <1>1, <1>2
  <2> QED
    BY <1>3, <2>1, <2>2, StayNext
<1>5. CASE n > 0
  <2>1. ASSUME NEW k \in 1 .. n - 1 PROVE SameOrSafer(files[k], files'[k])
    <3>1. k \in 1 .. Len(files) /\ k < Len(files) /\ k \in 1 .. n
      OBVIOUS
    <3>2. /\ files[k] \in File /\ U[k] \in Nat /\ U[k + 1] \in Nat /\ B[k] \in Nat
          /\ FileFits(files[k], U[k], U[k + 1], B[k]) /\ Shut(files[k])
      BY <1>2, <3>1, FitsAtIs
    <3>3. Closed(files'[k])
      BY <1>1, <3>2, ContentIs
    <3>4. PICK i \in 0 .. Len(files[k].records) : Kept(files[k], files'[k], i)
      BY <1>1, <3>1
    <3>5. files'[k] \in File
      BY <1>1, <3>1
    <3>6. i \in Nat
      BY <3>4
    <3> QED
      BY <3>2, <3>3, <3>4, <3>5, <3>6, KeptShut
  <2>2. n \in 1 .. n
    BY <1>5
  <2>3. PICK i \in 0 .. Len(files[n].records) : Kept(files[n], files'[n], i)
    BY <1>1, <2>2
  <2>4. /\ files[n] \in File /\ U[n] \in Nat /\ B[n] \in Nat
        /\ FileFits(files[n], U[n], U[n + 1], B[n])
        /\ files[n].header \/ Blank(files[n])
        /\ n = 1 => FirstFits(files[n], U[n], B[n])
        /\ n > 1 => Follows(files[n - 1], files[n])
    BY <1>5, OrderGives
  <2>5. files'[n] \in File /\ i \in Nat
    BY <1>1, <2>2
  <2>6. /\ files'[n].header = files[n].header /\ files'[n].magic = files[n].magic
        /\ files[n].records \in Seq(Record) /\ i <= Len(files[n].records)
        /\ i = Len(files[n].records) => files'[n].records = files[n].records
    BY <2>3, <2>4, <2>5, KeptIs
  <2>7. files'[n].header \/ Blank(files'[n])
    <3>1. ASSUME Blank(files[n]) PROVE Blank(files'[n])
      <4>1. files[n].records = <<>> /\ Len(<<>>) = 0
        BY <3>1 DEF Blank
      <4>2. i = Len(files[n].records)
        BY <2>5, <2>6, <4>1
      <4> QED
        BY <2>6, <3>1, <4>2 DEF Blank
    <3> QED
      BY <2>4, <2>6, <3>1
  <2>8. PICK c, k \in Nat :
          /\ FileFits(files'[n], U[n], k, c) /\ k <= U[n + 1]
          /\ FirstFits(files[n], U[n], B[n]) => FirstFits(files'[n], U[n], c)
          /\ \A a \in 1 .. U[n + 1] : AckSafe(files[n], U[n], B[n], a) => a <= k /\ AckSafe(files'[n], U[n], c, a)
    BY ZenonT(40), <1>2, <2>3, <2>4, <2>5, KeptFits
  <2>9. n > 1 => Follows(files[n - 1], files'[n])
    BY <2>4, <2>6 DEF Follows
  <2>10. LastFits(files, files', U[n], n, k, c)
    BY <2>1, <2>4, <2>7, <2>8, <2>9 DEF LastFits
  <2>11. HistoryFits(committed', acked', n, files'[n], U[n], k, c, m)
    <3>1. /\ committed = 1 .. m /\ U[n + 1] <= m /\ acked \subseteq 1 .. U[n + 1]
          /\ \A a \in acked : AckSafe(files[n], U[n], B[n], a)
      BY <1>2, <1>5 DEF HistoryFits
    <3>2. ASSUME NEW a \in acked PROVE a \in 1 .. k /\ AckSafe(files'[n], U[n], c, a)
      <4>1. a \in 1 .. U[n + 1] /\ a <= k /\ AckSafe(files'[n], U[n], c, a)
        BY <2>8, <3>1
      <4> QED
        BY <2>8, <4>1
    <3>3. k <= m
      BY <1>2, <2>8, <3>1
    <3> QED
      BY <1>1, <3>1, <3>2, <3>3 DEF HistoryFits
  <2> QED
    BY <1>1, <1>3, <1>5, <2>8, <2>10, <2>11, LastNext
<1> QED
  BY <1>4, <1>5

(* Deleting files before a complete dump. *)
LEMMA DumpFirst ==
  ASSUME NEW f \in File, NEW lo \in Nat, NEW hi \in Nat, NEW b \in Nat, FileFits(f, lo, hi, b), HasDump(f)
  PROVE  FirstFits(f, lo, b)
<1>1. PICK i \in 1 .. f.synced : f.records[i] = F!DumpEnd
  BY DEF HasDump
<1>2. /\ f.synced \in Nat /\ Len(f.records) \in Nat
      /\ \A j \in 1 .. Len(f.records) : f.records[j] = F!DumpEnd => j = b /\ b = lo + 2
  BY ContentIs
<1>3. f.synced <= Len(f.records)
  BY FitsIs
<1>4. i \in 1 .. Len(f.records)
  BY <1>2, <1>3
<1>5. i = b /\ b = lo + 2
  BY <1>1, <1>2, <1>4
<1>6. f.synced >= b /\ b > 0
  BY <1>2, <1>5
<1> QED
  BY <1>5, <1>6 DEF FirstFits

LEMMA LaterFit ==
  ASSUME NEW fs \in Seq(File), NEW n \in Nat, n = Len(fs), NEW U, NEW B, FilesFit(fs, U, B),
         NEW k \in 2 .. n, HasDump(fs[k]), NEW gs \in Seq(File), Len(gs) = n - (k - 1),
         \A i \in 1 .. Len(gs) : gs[i] = fs[i + (k - 1)]
  PROVE  FitsUpTo(gs, n - (k - 1), U[n], U[n + 1], B[n])
<1> DEFINE V == [i \in 1 .. n - (k - 1) + 1 |-> U[i + (k - 1)]]
           C == [i \in 1 .. n - (k - 1) |-> B[i + (k - 1)]]
<1>1. U \in [1 .. n + 1 -> Nat] /\ B \in [1 .. n -> Nat]
  BY DEF FilesFit
<1>2. /\ V \in [1 .. n - (k - 1) + 1 -> Nat] /\ C \in [1 .. n - (k - 1) -> Nat]
      /\ \A i \in 1 .. n - (k - 1) + 1 : V[i] = U[i + (k - 1)]
      /\ \A i \in 1 .. n - (k - 1) : C[i] = B[i + (k - 1)]
  BY <1>1
<1> HIDE DEF V, C
<1>3. ASSUME NEW i \in 1 .. n - (k - 1) PROVE FitsAt(gs, V, C, i)
  <2>1. /\ i + (k - 1) \in 1 .. Len(fs) /\ i \in 1 .. Len(gs)
        /\ i \in 1 .. n - (k - 1) + 1 /\ i + 1 \in 1 .. n - (k - 1) + 1
        /\ i + 1 + (k - 1) = i + (k - 1) + 1
        /\ i + (k - 1) = Len(fs) <=> i = Len(gs)
        /\ i + (k - 1) < Len(fs) <=> i < Len(gs)
    OBVIOUS
  <2>2. gs[i] = fs[i + (k - 1)] /\ V[i] = U[i + (k - 1)] /\ V[i + 1] = U[i + (k - 1) + 1]
        /\ C[i] = B[i + (k - 1)]
    <3>1. gs[i] = fs[i + (k - 1)]
      BY <2>1
    <3>2. V[i] = U[i + (k - 1)] /\ C[i] = B[i + (k - 1)]
      BY <1>2, <2>1
    <3>3. V[i + 1] = U[i + 1 + (k - 1)]
      BY <1>2, <2>1
    <3> QED
      BY <2>1, <3>1, <3>2, <3>3
  <2>3. i < Len(gs) => gs[i + 1] = fs[i + (k - 1) + 1]
    <3>1. ASSUME i < Len(gs) PROVE gs[i + 1] = fs[i + (k - 1) + 1]
      <4>1. i + 1 \in 1 .. Len(gs)
        BY <2>1, <3>1
      <4> QED
        BY <2>1, <4>1
    <3> QED
      BY <3>1
  <2>4. ASSUME NEW j \in 1 .. Len(fs), j = i + (k - 1)
        PROVE  /\ fs[j] \in File /\ U[j] \in Nat /\ U[j + 1] \in Nat /\ B[j] \in Nat
               /\ FileFits(fs[j], U[j], U[j + 1], B[j])
               /\ fs[j].header \/ (j = Len(fs) /\ Blank(fs[j]))
               /\ j < Len(fs) => Shut(fs[j]) /\ Follows(fs[j], fs[j + 1])
    BY FitsAtIs
  <2>5. i = 1 => HasDump(gs[i])
    <3>1. i = 1 => i + (k - 1) = k
      OBVIOUS
    <3> QED
      BY <2>2, <3>1
  <2>6. FileFits(gs[i], V[i], V[i + 1], C[i]) /\ (i = 1 => FirstFits(gs[i], V[i], C[i]))
    BY <2>1, <2>2, <2>4, <2>5, DumpFirst
  <2> QED
    BY <2>1, <2>2, <2>3, <2>4, <2>6 DEF FitsAt
<1>4. FilesFit(gs, V, C)
  <2>1. Len(gs) # 0 /\ Len(gs) = n - (k - 1)
    OBVIOUS
  <2> QED
    BY <1>2, <1>3, <2>1 DEF FilesFit
<1>5. /\ n - (k - 1) \in 1 .. n - (k - 1) /\ n - (k - 1) \in 1 .. n - (k - 1) + 1
      /\ n - (k - 1) + 1 \in 1 .. n - (k - 1) + 1
      /\ n - (k - 1) + (k - 1) = n /\ n - (k - 1) + 1 + (k - 1) = n + 1
  OBVIOUS
<1>6. V[n - (k - 1) + 1] = U[n + 1] /\ V[n - (k - 1)] = U[n] /\ C[n - (k - 1)] = B[n]
  BY <1>2, <1>5
<1> QED
  BY <1>2, <1>4, <1>6 DEF FitsUpTo

LEMMA DeleteOrder ==
  ASSUME PlacesInv, NEW U \in [1 .. Len(files) + 1 -> Nat], NEW B \in [1 .. Len(files) -> Nat],
         NEW m \in Nat, Order(U, B, m), NEW n \in Nat, n = Len(files), DeleteOlder
  PROVE  FilesInOrder'
<1>1. PICK k \in Nat : DeleteAt(k)
  BY DeleteOlderIs
<1>2. /\ k \in 2 .. n /\ HasDump(files[k]) /\ stage \in {"down", "up"}
      /\ files' \in Seq(File) /\ Len(files') = n - (k - 1)
      /\ \A i \in 1 .. Len(files') : files'[i] = files[i + (k - 1)]
      /\ fd' = IF fd = 0 THEN 0 ELSE fd - (k - 1)
      /\ UNCHANGED <<created, stage, task, buffer, mem, committed, acked>>
  BY <1>1 DEF DeleteAt
<1>3. /\ files \in Seq(File) /\ FilesFit(files, U, B)
      /\ HistoryFits(committed, acked, n, files[n], U[n], U[n + 1], B[n], m)
      /\ NodesFit(stage, mem, U[n + 1], m)
      /\ Writing(fd, buffer, n, files[n], U[n], U[n + 1], B[n], m)
  BY OrderGives
<1>4. ASSUME NEW p \in Nat, p = n - (k - 1) PROVE FilesInOrder'
  <2>1. k \in 2 .. n
    BY <1>2
  <2>2. p \in 1 .. n /\ p + (k - 1) = n /\ n > 0
    BY <1>4, <2>1
  <2>3. files'[p] = files[n] /\ p = Len(files')
    <3>1. p = Len(files')
      BY <1>2, <1>4
    <3>2. p \in 1 .. Len(files')
      BY <2>2, <3>1
    <3> QED
      BY <1>2, <2>2, <3>1, <3>2
  <2>4. FitsUpTo(files', p, U[n], U[n + 1], B[n])
    BY <1>2, <1>3, <1>4, LaterFit
  <2>5. HistoryFits(committed', acked', p, files'[p], U[n], U[n + 1], B[n], m)
    BY <1>2, <1>3, <2>2, <2>3 DEF HistoryFits
  <2>6. NodesFit(stage', mem', U[n + 1], m)
    BY <1>2, <1>3 DEF NodesFit
  <2>7. Writing(fd', buffer', p, files'[p], U[n], U[n + 1], B[n], m)
    <3>1. fd' # 0 => fd # 0 /\ fd' = fd - (k - 1)
      BY <1>2
    <3>2. fd = n /\ fd' = fd - (k - 1) => fd' = p
      BY <1>4
    <3> QED
      BY <1>2, <1>3, <2>3, <3>1, <3>2 DEF Writing
  <2>8. StageFits(stage', task', created', p, files'[p], files'[p - 1], B[n])
    BY <1>2 DEF StageFits
  <2>9. files' \in Seq(File)
    BY <1>2
  <2> QED
    BY <2>3, <2>4, <2>5, <2>6, <2>7, <2>8, <2>9, OrderFits
<1>5. n - (k - 1) \in Nat
  <2>1. k \in 2 .. n
    BY <1>2
  <2> QED
    BY <2>1
<1> QED
  BY <1>4, <1>5

(* A repair. *)
LEMMA RescueOrder ==
  ASSUME PlacesInv, NEW U \in [1 .. Len(files) + 1 -> Nat], NEW B \in [1 .. Len(files) -> Nat],
         NEW m \in Nat, Order(U, B, m), NEW n \in Nat, n = Len(files), Rescue
  PROVE  FilesInOrder'
<1>1. /\ stage = "down"
      /\ UNCHANGED <<created, stage, task, fd, buffer, mem, committed, acked>>
      /\ \E k, i \in Nat : CutAt(k, i)
  BY RescueIs
<1>2. PICK k, i \in Nat : CutAt(k, i)
  BY <1>1
<1>3. /\ k \in 1 .. Len(files) /\ i \in 0 .. Len(files[k].records) - 1
      /\ files[k].records[i + 1] = F!Torn
  BY <1>2 DEF CutAt
<1>4. PICK g \in File :
        /\ files' = [files EXCEPT ![k] = g]
        /\ g.header = files[k].header /\ g.magic = files[k].magic
        /\ g.records = SubSeq(files[k].records, 1, i) /\ g.synced = i
  BY <1>2 DEF CutAt
<1>5. /\ files \in Seq(File) /\ FilesFit(files, U, B)
      /\ HistoryFits(committed, acked, n, files[n], U[n], U[n + 1], B[n], m)
  BY OrderGives
<1>6. /\ files[k] \in File /\ U[k] \in Nat /\ U[k + 1] \in Nat /\ B[k] \in Nat
      /\ FileFits(files[k], U[k], U[k + 1], B[k])
      /\ files[k].header \/ (k = Len(files) /\ Blank(files[k]))
      /\ k < Len(files) => Shut(files[k]) /\ Follows(files[k], files[k + 1])
      /\ k = 1 => FirstFits(files[k], U[k], B[k])
  BY <1>3, <1>5, FitsAtIs
<1>7. /\ ~Shut(files[k]) /\ FileFits(g, U[k], U[k + 1], B[k])
      /\ FirstFits(files[k], U[k], B[k]) => FirstFits(g, U[k], B[k])
      /\ \A a \in 1 .. U[k + 1] : AckSafe(g, U[k], B[k], a)
  <2>1. /\ files[k] \in File /\ U[k] \in Nat /\ U[k + 1] \in Nat /\ B[k] \in Nat
        /\ FileFits(files[k], U[k], U[k + 1], B[k])
    BY <1>6
  <2> QED
    BY <1>3, <1>4, <2>1, CutFits
<1>8. k = n /\ n > 0
  BY <1>3, <1>6, <1>7
<1>9. files[n].header
  <2>1. ~Blank(files[k])
    <3>1. Len(files[k].records) # 0
      BY <1>3
    <3> QED
      BY <3>1 DEF Blank
  <2> QED
    BY <1>6, <1>8, <2>1
<1>10. HistoryFits(committed', acked', n, g, U[n], U[n + 1], B[n], m)
  <2>1. /\ committed = 1 .. m /\ U[n + 1] <= m /\ acked \subseteq 1 .. U[n + 1]
    BY <1>5 DEF HistoryFits
  <2>2. committed' = committed /\ acked' = acked
    BY <1>1
  <2> QED
    BY <1>7, <1>8, <2>1, <2>2 DEF HistoryFits
<1>11. fd' = 0 /\ stage' = "down"
  <2>1. fd = 0
    BY <1>1 DEF PlacesInv, StagesFit
  <2> QED
    BY <1>1, <2>1
<1>12. /\ NodesFit(stage', mem', U[n + 1], m) /\ Writing(fd', buffer', n, g, U[n], U[n + 1], B[n], m)
       /\ StageFits(stage', task', created', n, g, g, B[n]) /\ stage' # "head"
  BY <1>11 DEF NodesFit, Writing, StageFits
<1>13. /\ files' = [files EXCEPT ![n] = g] /\ g.header = TRUE /\ g.magic = files[n].magic
       /\ U[n + 1] \in Nat /\ B[n] \in Nat
       /\ FileFits(g, U[n], U[n + 1], B[n]) /\ (n = 1 => FirstFits(g, U[n], B[n]))
  <2>1. g.header = TRUE
    BY <1>4, <1>6, <1>8, <1>9 DEF File
  <2> QED
    BY <1>4, <1>6, <1>7, <1>8, <2>1
<1> QED
  BY <1>8, <1>9, <1>10, <1>12, <1>13, WriteNext

-----------------------------------------------------------------------------
(* The files are always in order, as long as there is no excuse *)

LEMMA FilesStep ==
  ASSUME FilesInv, [FilesNext]_filesVars
  PROVE  FilesInv'
<1>1. PlacesInv /\ PlacesInv'
  BY PlacesStep DEF FilesInv
<1>2. ASSUME excuse' = {} PROVE FilesInOrder'
  <2>1. excuse = {}
    <3>1. excuse \subseteq excuse'
      <4>1. CASE PowerFails
        BY <1>1, <4>1, PowerFailsIs
      <4>2. CASE FinishStart
        BY <4>2 DEF FinishStart
      <4>3. CASE CommitMemory
        BY <4>3 DEF CommitMemory
      <4>4. CASE UNCHANGED excuse
        BY <4>4
      <4>5. \/ PowerFails \/ FinishStart \/ CommitMemory \/ UNCHANGED excuse
        BY DEF FilesNext, Start, OpenNew, OpenFails, WriteHead, CloseOld, Commit, Spill, Sync, Dump,
               DumpSync, Close, Crash, DeleteOlder, Rescue, filesVars, history
      <4> QED
        BY <4>1, <4>2, <4>3, <4>4, <4>5
    <3> QED
      BY <1>2, <3>1
  <2>2. PICK U \in [1 .. Len(files) + 1 -> Nat], B \in [1 .. Len(files) -> Nat], m \in Nat : Order(U, B, m)
    BY <2>1 DEF FilesInv, FilesInOrder
  <2>3. ASSUME NEW n \in Nat, n = Len(files) PROVE FilesInOrder'
    <3>1. CASE Start
      BY <1>1, <2>2, <2>3, <3>1, StartOrder
    <3>2. CASE OpenNew
      BY <1>1, <2>2, <2>3, <3>2, NewFileOrder
    <3>3. CASE WriteHead
      BY <1>1, <2>2, <2>3, <3>3, HeadOrder
    <3>4. CASE FinishStart
      BY <1>1, <1>2, <2>2, <2>3, <3>4, FinishOrder
    <3>5. CASE \E t \in {"new file", "dump"} : CloseOld(t)
      <4>1. PICK t : CloseOld(t)
        BY <3>5
      <4> QED
        BY <1>1, <2>2, <2>3, <4>1, CloseOldOrder
    <3>6. CASE OpenFails \/ Crash
      BY <1>1, <2>2, <2>3, <3>6, StopOrder
    <3>7. CASE Commit
      BY <1>1, <2>2, <2>3, <3>7, CommitOrder
    <3>8. CASE CommitMemory
      <4>1. excuse' = excuse \cup {"memory"}
        BY <3>8 DEF CommitMemory
      <4> QED
        BY <1>2, <4>1
    <3>9. CASE Spill
      BY <1>1, <2>2, <2>3, <3>9, SpillOrder
    <3>10. CASE Sync \/ Close
      BY <1>1, <2>2, <2>3, <3>10, SyncOrder
    <3>11. CASE Dump
      BY <1>1, <2>2, <2>3, <3>11, DumpOrder
    <3>12. CASE DumpSync
      BY <1>1, <2>2, <2>3, <3>12, DumpSyncOrder
    <3>13. CASE PowerFails
      BY <1>1, <1>2, <2>1, <2>2, <2>3, <3>13, PowerOrder
    <3>14. CASE DeleteOlder
      BY <1>1, <2>2, <2>3, <3>14, DeleteOrder
    <3>15. CASE Rescue
      BY <1>1, <2>2, <2>3, <3>15, RescueOrder
    <3>16. CASE UNCHANGED filesVars
      <4>1. UNCHANGED <<files, created, stage, task, fd, buffer, mem, committed, acked>>
        BY <3>16 DEF filesVars, onDisk, program, history
      <4>2. Order(U, B, m)'
        BY <2>2, <4>1 DEF Order
      <4>3. U \in [1 .. Len(files') + 1 -> Nat] /\ B \in [1 .. Len(files') -> Nat]
        BY <2>2, <4>1
      <4> QED
        BY <4>2, <4>3 DEF FilesInOrder
    <3> QED
      BY <3>1, <3>2, <3>3, <3>4, <3>5, <3>6, <3>7, <3>8, <3>9, <3>10, <3>11, <3>12, <3>13,
         <3>14, <3>15, <3>16 DEF FilesNext
  <2>4. Len(files) \in Nat
    BY <1>1, WrittenTo
  <2> QED
    BY <2>3, <2>4
<1> QED
  BY <1>1, <1>2 DEF FilesInv

LEMMA FilesStart ==
  ASSUME FilesInit
  PROVE  FilesInOrder
<1>1. /\ files = <<>> /\ Len(files) = 0 /\ stage = "down" /\ fd = 0
      /\ committed = {} /\ acked = {}
  BY DEF FilesInit
<1>2. PICK U, B : /\ U \in [1 .. 0 + 1 -> Nat] /\ B \in [1 .. 0 -> Nat] /\ U[1] = 0
  <2>1. [i \in 1 .. 0 + 1 |-> 0] \in [1 .. 0 + 1 -> Nat] /\ [i \in 1 .. 0 |-> 0] \in [1 .. 0 -> Nat]
        /\ [i \in 1 .. 0 + 1 |-> 0][1] = 0
    OBVIOUS
  <2> QED
    BY <2>1
<1>3. FilesFit(files, U, B)
  BY <1>1, <1>2 DEF FilesFit
<1>4. HistoryFits(committed, acked, 0, files[0], U[0], U[0 + 1], B[0], 0)
  <2>1. U[0 + 1] = 0 /\ 1 .. 0 = {}
    BY <1>2
  <2> QED
    BY <1>1, <2>1 DEF HistoryFits
<1>5. /\ NodesFit(stage, mem, U[0 + 1], 0) /\ Writing(fd, buffer, 0, files[0], U[0], U[0 + 1], B[0], 0)
      /\ StageFits(stage, task, created, 0, files[0], files[0 - 1], B[0])
  BY <1>1 DEF NodesFit, Writing, StageFits
<1>6. Order(U, B, 0)
  BY <1>1, <1>3, <1>4, <1>5 DEF Order
<1> QED
  BY <1>1, <1>2, <1>6 DEF FilesInOrder

(* The invariant. *)
LEMMA FilesAlways == FilesSpec => []FilesInv
<1>1. FilesInit /\ PlacesInv => FilesInv
  BY FilesStart DEF FilesInv
<1>2. FilesInv /\ [FilesNext]_filesVars => FilesInv'
  BY FilesStep
<1> QED
  BY <1>1, <1>2, PlacesAlways, PTL DEF FilesSpec

(* RecoveryIsPrefixUnless: a start finds the nodes of the first so many transactions,
   all that tr_commit(CT_SYNC) has answered for among them, after any sequence of
   crashes, power failures, repairs, dumps and deletions. *)
THEOREM StartsFindPrefix == FilesSpec => RecoveryIsPrefixUnless
<1>1. ASSUME FilesInv, Start, excuse = {} PROVE Recovers
  <2>1. PlacesInv /\ FilesInOrder
    BY <1>1 DEF FilesInv
  <2>2. PICK U \in [1 .. Len(files) + 1 -> Nat], B \in [1 .. Len(files) -> Nat], m \in Nat : Order(U, B, m)
    BY <2>1 DEF FilesInOrder
  <2>3. ASSUME NEW n \in Nat, n = Len(files) PROVE Recovers
    <3>1. mem' = Zeros(U[n + 1]) /\ U[n + 1] \in Nat /\ U[n + 1] <= m /\ committed = 1 .. m
      BY <1>1, <2>1, <2>2, <2>3, StartFinds
    <3>2. HistoryFits(committed, acked, n, files[n], U[n], U[n + 1], B[n], m)
      BY <2>1, <2>2, <2>3, OrderGives
    <3>3. acked \subseteq 1 .. U[n + 1]
      BY <3>2 DEF HistoryFits
    <3>4. DOMAIN mem' = 1 .. U[n + 1]
      BY <3>1, ZerosIs
    <3>5. 1 .. U[n + 1] \subseteq 1 .. m
      BY <3>1
    <3>6. \A i \in 1 .. U[n + 1], j \in 1 .. m : j < i => j \in 1 .. U[n + 1]
      BY <3>1
    <3> QED
      BY <3>1, <3>3, <3>4, <3>5, <3>6 DEF Recovers
  <2>4. Len(files) \in Nat
    BY <2>1, WrittenTo
  <2> QED
    BY <2>3, <2>4
<1>2. FilesInv /\ [FilesNext]_filesVars => [Start /\ excuse = {} => Recovers]_filesVars
  BY <1>1
<1> QED
  BY <1>2, FilesAlways, PTL DEF FilesSpec, RecoveryIsPrefixUnless

(* FilesHoldAll: while the program serves requests, what load_data would make of the
   files, with what is still in the buffer, is what is in memory. *)
THEOREM FilesAlwaysHoldAll == FilesSpec => []FilesHoldAll
<1>1. ASSUME FilesInv, stage = "up", fd # 0, excuse = {}
      PROVE  LoadAll([files EXCEPT ![fd] = Extended(@, buffer)]).nodes = mem
  <2>1. PlacesInv /\ FilesInOrder
    BY <1>1 DEF FilesInv
  <2>2. PICK U \in [1 .. Len(files) + 1 -> Nat], B \in [1 .. Len(files) -> Nat], m \in Nat : Order(U, B, m)
    BY <2>1 DEF FilesInOrder
  <2>3. ASSUME NEW n \in Nat, n = Len(files), NEW g, g = Extended(files[fd], buffer),
               NEW gs, gs = [files EXCEPT ![n] = g]
        PROVE  fd = n /\ LoadAll(gs).nodes = mem
    <3>1. /\ fd = n /\ g \in File /\ g.header /\ g.magic = files[n].magic
          /\ U[n] \in Nat /\ B[n] \in Nat
          /\ FileFits(g, U[n], m, B[n]) /\ (n = 1 => FirstFits(g, U[n], B[n]))
          /\ mem = Zeros(m)
      BY <1>1, <2>1, <2>2, <2>3, BufferWritten
    <3>2. files \in Seq(File) /\ FilesFit(files, U, B) /\ n > 0
          /\ Regular(files[n], U[n], U[n + 1], B[n])
      BY <1>1, <2>1, <2>2, <2>3, OrderGives, OpenIs
    <3>3. files[n].header
      BY <3>2 DEF Regular
    <3>4. gs \in Seq(File) /\ Len(gs) = n /\ LastFits(files, gs, U[n], n, m, B[n])
      <4>1. FitsLast(g, files, U[n], n, m, B[n])
        BY <3>1, <3>3 DEF FitsLast
      <4>2. gs \in Seq(File) /\ Len(gs) = n /\ gs[n] = g
            /\ \A k \in 1 .. Len(files) : k # n => gs[k] = files[k]
        <5>1. n \in 1 .. Len(files)
          BY <2>3, <3>2
        <5> QED
          BY <2>3, <3>1, <3>2, <5>1, FileReplaced
      <4>3. Replaced(gs, files, n, g)
        BY <4>2 DEF Replaced
      <4> QED
        BY <2>3, <3>1, <3>2, <4>1, <4>2, <4>3, LastReplaced
    <3>5. FitsUpTo(gs, n, U[n], m, B[n])
      BY <2>2, <2>3, <3>1, <3>2, <3>4, LastWritten
    <3>6. PICK V, C : FilesFit(gs, V, C) /\ V[n + 1] = m
      BY <3>5 DEF FitsUpTo
    <3>7. LoadAll(gs).nodes = Zeros(V[Len(gs) + 1])
      BY <3>4, <3>6, AllLoaded
    <3> QED
      BY <3>1, <3>4, <3>6, <3>7
  <2>4. Len(files) \in Nat
    BY <2>1, WrittenTo
  <2> QED
    BY <2>3, <2>4
<1>2. FilesInv => FilesHoldAll
  BY <1>1 DEF FilesHoldAll
<1> QED
  BY <1>2, FilesAlways, PTL

(* ReadOnlyReasons: database_create leaves a database read-only only if the last file
   ends in a torn record or has not got its header, unless there is an excuse. *)
THEOREM ReadOnlyHasReasons == FilesSpec => []ReadOnlyReasons
<1>1. ASSUME FilesInv, stage = "readonly", excuse = {}
      PROVE  \/ ~Last(files).header
             \/ Last(files).records # <<>> /\ Last(Last(files).records) = F!Torn
  <2>1. PlacesInv /\ FilesInOrder
    BY <1>1 DEF FilesInv
  <2>2. PICK U \in [1 .. Len(files) + 1 -> Nat], B \in [1 .. Len(files) -> Nat], m \in Nat : Order(U, B, m)
    BY <2>1 DEF FilesInOrder
  <2>3. ASSUME NEW n \in Nat, n = Len(files)
        PROVE  \/ ~files[n].header
               \/ files[n].records # <<>> /\ files[n].records[Len(files[n].records)] = F!Torn
    <3>1. StageFits(stage, task, created, n, files[n], files[n - 1], B[n])
      BY <2>1, <2>2, <2>3, OrderGives
    <3> QED
      BY <1>1, <3>1 DEF StageFits, Blank
  <2>4. Len(files) \in Nat
    BY <2>1, WrittenTo
  <2> QED
    BY <2>3, <2>4 DEF Last
<1>2. FilesInv => ReadOnlyReasons
  BY <1>1 DEF ReadOnlyReasons
<1> QED
  BY <1>2, FilesAlways, PTL
=============================================================================
