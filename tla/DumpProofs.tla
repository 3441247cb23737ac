----------------------------- MODULE DumpProofs -----------------------------
(***************************************************************************)
(* What the files of a database hold while transactions run and a dump is  *)
(* written, for every set of handles and values, any number of places in   *)
(* memory and any largest id: reading them gives the state that the jobs   *)
(* written so far leave; a file that begins with a dump gives it without   *)
(* the files before it once the dump has come to its end, and is refused   *)
(* only when a transaction that creates a node was written before the node *)
(* was dumped.                                                             *)
(***************************************************************************)
EXTENDS DumpReplay, SequenceTheorems, FiniteSetTheorems, WellFoundedInduction, TLAPS

-----------------------------------------------------------------------------
(* Numbers *)

(* Some numbers have a least one. *)
LEMMA LeastExists ==
  ASSUME NEW W, W \subseteq Nat, W # {}
  PROVE  \E i \in W : \A k \in W : i <= k
<1>1. PICK i \in W : \A k \in W : ~ (<<k, i>> \in OpToRel(<, Nat))
  BY WFMin, NatLessThanWellFounded
<1>2. ASSUME NEW k \in W PROVE ~ (k < i)
  BY <1>1 DEF OpToRel
<1>3. \A k \in W : i <= k
  BY <1>2
<1> QED
  BY <1>3

(* What is true of 0 and stays true from each number to the next is true of all
   numbers up to n. *)
LEMMA AllUpTo ==
  ASSUME NEW n \in Nat, NEW P, 0 \in P, \A k \in 1 .. n : k - 1 \in P => k \in P
  PROVE  \A k \in 0 .. n : k \in P
<1> DEFINE bad == {k \in 0 .. n : k \notin P}
<1>1. SUFFICES ASSUME bad # {} PROVE FALSE
  OBVIOUS
<1>2. bad \subseteq Nat
  OBVIOUS
<1> HIDE DEF bad
<1>3. PICK i \in bad : \A k \in bad : i <= k
  BY <1>1, <1>2, LeastExists
<1> USE DEF bad
<1>4. i \in 1 .. n /\ i - 1 \notin bad
  BY <1>3
<1> QED
  BY <1>3, <1>4

(* The greatest of some numbers. *)
LastOf(S) == CHOOSE x \in S : \A y \in S : y <= x

LEMMA LastOfIs ==
  ASSUME NEW S, S \subseteq Nat, NEW m \in S, \A y \in S : y <= m
  PROVE  LastOf(S) = m
<1>1. \A x \in S : (\A y \in S : y <= x) => x = m
  OBVIOUS
<1>2. LastOf(S) \in S /\ \A y \in S : y <= LastOf(S)
  BY DEF LastOf
<1> QED
  BY <1>1, <1>2

(* A bounded set that is not empty has a last member. *)
LEMMA LastOfExists ==
  ASSUME NEW n \in Nat, NEW S, S \subseteq 1 .. n, S # {}
  PROVE  LastOf(S) \in S /\ \A y \in S : y <= LastOf(S)
<1> DEFINE T == {x \in Nat : n - x \in S}
<1>1. T # {} /\ T \subseteq Nat
  <2>1. PICK s \in S : TRUE
    OBVIOUS
  <2>2. n - s \in Nat /\ n - (n - s) = s
    BY <2>1
  <2> QED
    BY <2>1, <2>2
<1> HIDE DEF T
<1>2. PICK t \in T : \A u \in T : t <= u
  BY <1>1, LeastExists
<1>3. n - t \in S /\ t \in Nat
  BY <1>2 DEF T
<1>4. ASSUME NEW y \in S PROVE y <= n - t
  <2>1. y \in 1 .. n /\ n - y \in Nat /\ n - (n - y) = y
    OBVIOUS
  <2>2. n - y \in T
    BY <2>1 DEF T
  <2> QED
    BY <1>2, <1>3, <2>1, <2>2
<1> QED
  BY <1>3, <1>4 DEF LastOf

(* The smallest of some numbers is what it should be. *)
LEMMA SmallestIs ==
  ASSUME NEW S, S \subseteq Nat, NEW m \in S, \A n \in S : m <= n
  PROVE  SmallestOf(S) = m
<1>1. \A x \in S : (\A k \in S : x <= k) => x = m
  OBVIOUS
<1>2. SmallestOf(S) \in S /\ \A k \in S : SmallestOf(S) <= k
  BY DEF SmallestOf
<1> QED
  BY <1>1, <1>2

(* And a set of numbers that is not empty has a smallest. *)
LEMMA SmallestExists ==
  ASSUME NEW S, S \subseteq Nat, S # {}
  PROVE  SmallestOf(S) \in S /\ \A n \in S : SmallestOf(S) <= n
BY LeastExists DEF SmallestOf

-----------------------------------------------------------------------------
(* Operations *)

Operations ==
  {L!Created(i) : i \in Ids} \cup {L!Modified(i, v) : i \in Ids, v \in Values}
    \cup {L!Deleted(i) : i \in Ids}

(* What they are. *)
LEMMA OpIs ==
  ASSUME NEW o \in Operations
  PROVE  /\ o.id \in Ids /\ o.id \in Nat \ {0}
         /\ \/ o.op = "CREATED" /\ o = L!Created(o.id)
            \/ o.op = "MODIFIED" /\ o.value \in Values /\ o = L!Modified(o.id, o.value)
            \/ o.op = "DELETED" /\ o = L!Deleted(o.id)
<1>1. ASSUME NEW i \in Ids, o = L!Created(i) PROVE o.op = "CREATED" /\ o.id = i
  BY <1>1 DEF L!Created
<1>2. ASSUME NEW i \in Ids, NEW v \in Values, o = L!Modified(i, v)
      PROVE o.op = "MODIFIED" /\ o.id = i /\ o.value = v
  BY <1>2 DEF L!Modified
<1>3. ASSUME NEW i \in Ids, o = L!Deleted(i) PROVE o.op = "DELETED" /\ o.id = i
  BY <1>3 DEF L!Deleted
<1>4. Ids \subseteq Nat \ {0}
  BY DumpAssumption DEF Ids
<1> QED
  BY <1>1, <1>2, <1>3, <1>4 DEF Operations

(* What each kind of operation names. *)
LEMMA OpFields ==
  /\ \A i : L!Created(i).op = "CREATED" /\ L!Created(i).id = i
  /\ \A i, v : L!Modified(i, v).op = "MODIFIED" /\ L!Modified(i, v).id = i
               /\ L!Modified(i, v).value = v
  /\ \A i : L!Deleted(i).op = "DELETED" /\ L!Deleted(i).id = i
<1>1. \A i : L!Created(i).op = "CREATED" /\ L!Created(i).id = i
  BY DEF L!Created
<1>2. \A i, v : L!Modified(i, v).op = "MODIFIED" /\ L!Modified(i, v).id = i
                /\ L!Modified(i, v).value = v
  BY DEF L!Modified
<1>3. \A i : L!Deleted(i).op = "DELETED" /\ L!Deleted(i).id = i
  BY DEF L!Deleted
<1> QED
  BY <1>1, <1>2, <1>3

(* What some operations do to node i. *)
Touches(ops, i) == {x \in DOMAIN ops : ops[x].id = i}
Touched(ops, i) == Touches(ops, i) # {}
Creates(ops, i) == \E x \in DOMAIN ops : ops[x].id = i /\ ops[x].op = "CREATED"
Deletes(ops, i) == \E x \in DOMAIN ops : ops[x].id = i /\ ops[x].op = "DELETED"
LastOp(ops, i) == ops[LastOf(Touches(ops, i))]

(* A node is created before, and deleted after, all else that is done to it. *)
Orderly(ops) ==
  \A x, y \in DOMAIN ops :
    ops[x].id = ops[y].id /\ x < y => ops[x].op # "DELETED" /\ ops[y].op # "CREATED"

LEMMA NoOps ==
  ASSUME NEW i
  PROVE  /\ ~Touched(<<>>, i) /\ ~Creates(<<>>, i) /\ ~Deletes(<<>>, i) /\ Orderly(<<>>)
         /\ <<>> \in Seq(Operations)
BY DEF Touched, Touches, Creates, Deletes, Orderly

(* The last operation on a node. *)
LEMMA LastOpIs ==
  ASSUME NEW ops \in Seq(Operations), NEW i, Touched(ops, i)
  PROVE  /\ LastOp(ops, i) \in Operations /\ LastOp(ops, i).id = i /\ i \in Ids
         /\ LastOf(Touches(ops, i)) \in DOMAIN ops
         /\ \A x \in DOMAIN ops : ops[x].id = i => x <= LastOf(Touches(ops, i))
         /\ LastOp(ops, i).op = "CREATED" => Creates(ops, i)
         /\ LastOp(ops, i).op = "DELETED" => Deletes(ops, i)
         /\ Orderly(ops) /\ Deletes(ops, i) => LastOp(ops, i).op = "DELETED"
<1> DEFINE S == Touches(ops, i)
           m == LastOf(S)
<1>1. Len(ops) \in Nat /\ S \subseteq 1 .. Len(ops) /\ S # {} /\ DOMAIN ops = 1 .. Len(ops)
  BY DEF Touches, Touched
<1>2. m \in S /\ \A y \in S : y <= m
  <2> HIDE DEF S
  <2> QED
    BY <1>1, LastOfExists
<1>3. m \in DOMAIN ops /\ ops[m].id = i /\ ops[m] \in Operations /\ LastOp(ops, i) = ops[m]
  BY <1>2, <1>1 DEF Touches, LastOp
<1>4. ops[m].id \in Ids
  BY <1>3, OpIs
<1>5. \A x \in DOMAIN ops : ops[x].id = i => x <= m
  BY <1>2 DEF Touches
<1> HIDE DEF m, S
<1>6. ASSUME Orderly(ops), NEW x \in DOMAIN ops, ops[x].id = i, ops[x].op = "DELETED"
      PROVE  ops[m].op = "DELETED"
  <2>1. x = m \/ x < m
    BY <1>1, <1>3, <1>5, <1>6
  <2> QED
    BY <1>3, <1>6, <2>1 DEF Orderly
<1> QED
  BY <1>3, <1>4, <1>5, <1>6 DEF Creates, Deletes, m, S

(* One operation more. *)
LEMMA OpsAppend ==
  ASSUME NEW ops \in Seq(Operations), NEW o \in Operations, NEW i
  PROVE  LET new == Append(ops, o)
         IN  /\ new \in Seq(Operations)
             /\ Touched(new, i) <=> Touched(ops, i) \/ o.id = i
             /\ Creates(new, i) <=> Creates(ops, i) \/ (o.id = i /\ o.op = "CREATED")
             /\ Deletes(new, i) <=> Deletes(ops, i) \/ (o.id = i /\ o.op = "DELETED")
             /\ Touched(new, i) => LastOp(new, i) = IF o.id = i THEN o ELSE LastOp(ops, i)
<1> DEFINE new == Append(ops, o)
           n == Len(ops)
<1>1. /\ new \in Seq(Operations) /\ n \in Nat /\ DOMAIN new = 1 .. n + 1 /\ DOMAIN ops = 1 .. n
      /\ new[n + 1] = o /\ \A x \in 1 .. n : new[x] = ops[x]
  OBVIOUS
<1> HIDE DEF new, n
<1>2. CASE o.id = i
  <2>1. n + 1 \in Touches(new, i) /\ \A y \in Touches(new, i) : y <= n + 1
    BY <1>1, <1>2 DEF Touches
  <2>2. Touches(new, i) \subseteq Nat
    BY <1>1 DEF Touches
  <2>3. LastOf(Touches(new, i)) = n + 1
    BY <2>1, <2>2, LastOfIs
  <2> QED
    BY <1>1, <1>2, <2>1, <2>3 DEF Touched, LastOp, Creates, Deletes, new
<1>3. CASE o.id # i
  <2>1. \A x : x \in Touches(new, i) <=> x \in Touches(ops, i)
    BY <1>1, <1>3 DEF Touches
  <2>2. Touches(new, i) = Touches(ops, i)
    BY ONLY <2>1
  <2>3. Creates(new, i) <=> Creates(ops, i)
    BY <1>1, <1>3 DEF Creates
  <2>4. Deletes(new, i) <=> Deletes(ops, i)
    BY <1>1, <1>3 DEF Deletes
  <2>5. Touched(ops, i) => LastOp(new, i) = LastOp(ops, i)
    BY <1>1, <2>2, LastOpIs DEF LastOp
  <2> QED
    BY <1>1, <1>3, <2>2, <2>3, <2>4, <2>5 DEF Touched, new
<1> QED
  BY <1>2, <1>3

-----------------------------------------------------------------------------
(* Histories: what one job after another does. *)

Histories == Seq(Seq(Operations))
Jobs(V, k, i) == {j \in 1 .. k : Touched(V[j], i)}
Start(i) == IF i <= StartNodes THEN L!Created(i) ELSE [op |-> "NONE", id |-> i]

(* The last operation on node i in the first k jobs. *)
Last(V, k, i) ==
  IF Jobs(V, k, i) = {} THEN Start(i) ELSE LastOp(V[LastOf(Jobs(V, k, i))], i)

Exists(o) == o.op \in {"CREATED", "MODIFIED"}
ValueIn(o) == IF o.op = "CREATED" THEN InitValue ELSE o.value

(* Jobs i that leave node i alone change nothing of it. *)
LEMMA LastStays ==
  ASSUME NEW V, NEW k \in Nat, NEW l \in Nat, NEW i, k <= l,
         \A j \in k + 1 .. l : ~Touched(V[j], i)
  PROVE  Last(V, l, i) = Last(V, k, i)
<1>1. \A j : j \in Jobs(V, l, i) <=> j \in Jobs(V, k, i)
  BY DEF Jobs
<1>2. Jobs(V, l, i) = Jobs(V, k, i)
  BY ONLY <1>1
<1> QED
  BY <1>2 DEF Last

(* One job more. *)
LEMMA LastNext ==
  ASSUME NEW V, NEW k \in Nat, NEW i
  PROVE  Last(V, k + 1, i) =
           IF Touched(V[k + 1], i) THEN LastOp(V[k + 1], i) ELSE Last(V, k, i)
<1>1. CASE Touched(V[k + 1], i)
  <2>1. k + 1 \in Jobs(V, k + 1, i) /\ Jobs(V, k + 1, i) \subseteq Nat
        /\ \A j \in Jobs(V, k + 1, i) : j <= k + 1
    BY <1>1 DEF Jobs
  <2>2. LastOf(Jobs(V, k + 1, i)) = k + 1
    BY <2>1, LastOfIs
  <2> QED
    BY <1>1, <2>1, <2>2 DEF Last
<1>2. CASE ~Touched(V[k + 1], i)
  BY <1>2, LastStays
<1> QED
  BY <1>1, <1>2

(* Histories that do the same to a node. *)
LEMMA LastSame ==
  ASSUME NEW V, NEW U, NEW k \in Nat, NEW i,
         \A j \in 1 .. k : V[j] = U[j] \/ (~Touched(V[j], i) /\ ~Touched(U[j], i))
  PROVE  Last(V, k, i) = Last(U, k, i)
<1>1. \A j : j \in Jobs(V, k, i) <=> j \in Jobs(U, k, i)
  BY DEF Jobs
<1>2. Jobs(V, k, i) = Jobs(U, k, i)
  BY ONLY <1>1
<1>3. CASE Jobs(V, k, i) = {}
  BY <1>2, <1>3 DEF Last
<1>4. CASE Jobs(V, k, i) # {}
  <2>1. Jobs(V, k, i) \subseteq 1 .. k
    BY DEF Jobs
  <2>2. LastOf(Jobs(V, k, i)) \in Jobs(V, k, i)
    BY <1>4, <2>1, LastOfExists
  <2>3. V[LastOf(Jobs(V, k, i))] = U[LastOf(Jobs(V, k, i))]
    BY <2>2 DEF Jobs
  <2> QED
    BY <1>2, <1>4, <2>3 DEF Last
<1> QED
  BY <1>3, <1>4

(* The job that did the last operation. *)
LEMMA LastIn ==
  ASSUME NEW V, NEW k \in Nat, NEW i, Jobs(V, k, i) # {}
  PROVE  \E j \in 1 .. k : /\ j \in Jobs(V, k, i) /\ Touched(V[j], i)
                           /\ Last(V, k, i) = LastOp(V[j], i)
                           /\ \A l \in j + 1 .. k : ~Touched(V[l], i)
<1>1. Jobs(V, k, i) \subseteq 1 .. k
  BY DEF Jobs
<1>2. /\ LastOf(Jobs(V, k, i)) \in Jobs(V, k, i)
      /\ \A y \in Jobs(V, k, i) : y <= LastOf(Jobs(V, k, i))
  BY <1>1, LastOfExists
<1> DEFINE m == LastOf(Jobs(V, k, i))
<1>3. m \in 1 .. k /\ Touched(V[m], i) /\ m \in Jobs(V, k, i)
  BY <1>1, <1>2 DEF Jobs
<1>4. Last(V, k, i) = LastOp(V[m], i)
  BY DEF Last
<1>5. ASSUME NEW l \in m + 1 .. k PROVE ~Touched(V[l], i)
  <2>1. l \in 1 .. k /\ ~(l <= m)
    BY <1>3
  <2>2. l \notin Jobs(V, k, i)
    BY <1>2, <2>1
  <2> QED
    BY <2>1, <2>2 DEF Jobs
<1> HIDE DEF m
<1> QED
  BY <1>3, <1>4, <1>5

(* What it can be. *)
LEMMA LastIs ==
  ASSUME NEW V \in Histories, NEW k \in 0 .. Len(V), NEW i \in Nat \ {0}
  PROVE  LET o == Last(V, k, i)
         IN  /\ \/ o.op = "NONE" /\ Jobs(V, k, i) = {} /\ ~(i <= StartNodes)
                \/ o \in Operations /\ i \in Ids
             /\ o.id = i
             /\ Jobs(V, k, i) # {} => o.op # "NONE"
             /\ Exists(o) => ValueIn(o) \in Values /\ i \in Ids
<1>1. CASE Jobs(V, k, i) = {}
  <2>1. CASE i <= StartNodes
    <3>1. i \in Ids
      BY <2>1, DumpAssumption DEF Ids
    <3>2. Last(V, k, i) = L!Created(i)
      BY <1>1, <2>1 DEF Last, Start
    <3>3. L!Created(i).op = "CREATED" /\ L!Created(i).id = i
      BY OpFields
    <3>4. L!Created(i) \in Operations
      BY <3>1 DEF Operations
    <3>5. InitValue \in Values
      BY DumpAssumption
    <3> QED
      BY <1>1, <3>1, <3>2, <3>3, <3>4, <3>5 DEF ValueIn
  <2>2. CASE ~(i <= StartNodes)
    BY <1>1, <2>2 DEF Last, Start, Exists
  <2> QED
    BY <2>1, <2>2
<1>2. CASE Jobs(V, k, i) # {}
  <2>1. k \in Nat /\ Len(V) \in Nat
    BY DEF Histories
  <2>2. PICK j \in 1 .. k : Touched(V[j], i) /\ Last(V, k, i) = LastOp(V[j], i)
    BY <1>2, <2>1, LastIn
  <2>3. V[j] \in Seq(Operations)
    BY <2>1, <2>2 DEF Histories
  <2>4. Last(V, k, i) \in Operations /\ Last(V, k, i).id = i /\ i \in Ids
    BY <2>2, <2>3, LastOpIs
  <2> DEFINE o == Last(V, k, i)
  <2>5. o.op \in {"CREATED", "MODIFIED", "DELETED"} /\ (o.op = "MODIFIED" => o.value \in Values)
    BY <2>4, OpIs
  <2> HIDE DEF o
  <2>6. Exists(o) => ValueIn(o) \in Values
    BY <2>5, DumpAssumption DEF Exists, ValueIn
  <2> QED
    BY <1>2, <2>4, <2>5, <2>6 DEF o
<1> QED
  BY <1>1, <1>2

(* Operations that can follow k jobs: they create what has never been there and
   nothing else, and leave alone what has been deleted. *)
Fits(V, k, ops) ==
  /\ Orderly(ops)
  /\ \A i \in Ids : Touched(ops, i) =>
       /\ Last(V, k, i).op # "DELETED"
       /\ Creates(ops, i) <=> Last(V, k, i).op = "NONE"

Valid(V) == \A j \in 1 .. Len(V) : Fits(V, j - 1, V[j])

(* What is deleted stays so. *)
LEMMA DeletedStays ==
  ASSUME NEW V \in Histories, Valid(V), NEW k \in 0 .. Len(V), NEW l \in k .. Len(V), NEW i,
         Last(V, k, i).op = "DELETED"
  PROVE  Last(V, l, i).op = "DELETED" /\ \A j \in k + 1 .. l : ~Touched(V[j], i)
<1>1. Len(V) \in Nat /\ k \in Nat /\ l \in Nat
  BY DEF Histories
<1>2. ASSUME \E j \in k + 1 .. l : Touched(V[j], i) PROVE FALSE
  <2> DEFINE S == {j \in k + 1 .. l : Touched(V[j], i)}
  <2>1. S # {} /\ S \subseteq Nat
    BY <1>1, <1>2
  <2> HIDE DEF S
  <2>2. PICK j \in S : \A m \in S : j <= m
    BY <2>1, LeastExists
  <2>3. /\ j \in k + 1 .. l /\ Touched(V[j], i) /\ j - 1 \in Nat /\ k <= j - 1
        /\ \A m \in k + 1 .. j - 1 : ~Touched(V[m], i)
    BY <1>1, <2>2 DEF S
  <2>4. Last(V, j - 1, i) = Last(V, k, i)
    BY <1>1, <2>3, LastStays
  <2>5. j \in 1 .. Len(V) /\ V[j] \in Seq(Operations)
    BY <1>1, <2>3 DEF Histories
  <2>6. i \in Ids
    BY <2>3, <2>5, LastOpIs
  <2> QED
    BY <2>3, <2>4, <2>5, <2>6 DEF Valid, Fits
<1>3. Last(V, l, i) = Last(V, k, i)
  BY <1>1, <1>2, LastStays
<1> QED
  BY <1>2, <1>3

(* What has been there has been there. *)
LEMMA BeenStays ==
  ASSUME NEW V \in Histories, NEW k \in 0 .. Len(V), NEW l \in k .. Len(V), NEW i \in Nat \ {0},
         Last(V, k, i).op # "NONE"
  PROVE  Last(V, l, i).op # "NONE"
<1>1. Len(V) \in Nat /\ k \in Nat /\ l \in Nat /\ k \in 0 .. Len(V) /\ l \in 0 .. Len(V)
  BY DEF Histories
<1>2. CASE Jobs(V, l, i) = {}
  <2>1. \A j \in k + 1 .. l : ~Touched(V[j], i)
    BY <1>1, <1>2 DEF Jobs
  <2> QED
    BY <1>1, <2>1, LastStays
<1>3. CASE Jobs(V, l, i) # {}
  BY <1>1, <1>3, LastIs
<1> QED
  BY <1>2, <1>3

(* A history that goes on as it may. *)
LEMMA ValidAppend ==
  ASSUME NEW V \in Histories, Valid(V), NEW ops \in Seq(Operations), Fits(V, Len(V), ops)
  PROVE  /\ Append(V, ops) \in Histories /\ Valid(Append(V, ops))
         /\ Len(Append(V, ops)) = Len(V) + 1
         /\ \A k \in 0 .. Len(V) : \A i : Last(Append(V, ops), k, i) = Last(V, k, i)
<1> DEFINE U == Append(V, ops)
           n == Len(V)
<1>1. /\ U \in Histories /\ Len(U) = n + 1 /\ n \in Nat /\ U[n + 1] = ops
      /\ \A j \in 1 .. n : U[j] = V[j]
  BY DEF Histories
<1> HIDE DEF U, n
<1>2. ASSUME NEW k \in 0 .. n, NEW i PROVE Last(U, k, i) = Last(V, k, i)
  <2>1. k \in Nat /\ \A j \in 1 .. k : U[j] = V[j]
    BY <1>1
  <2> QED
    BY <2>1, LastSame
<1>3. ASSUME NEW j \in 1 .. n + 1 PROVE Fits(U, j - 1, U[j])
  <2>1. j - 1 \in 0 .. n
    BY <1>1
  <2>2. Fits(V, j - 1, U[j])
    BY <1>1 DEF Valid, n
  <2> QED
    BY <1>2, <2>1, <2>2 DEF Fits
<1>4. Valid(U)
  BY <1>1, <1>3 DEF Valid
<1> QED
  BY <1>1, <1>2, <1>4 DEF U, n

-----------------------------------------------------------------------------
(* Reading one record after another, and one operation after another. *)

(* How ReadRecords goes through the first n records. *)
Reads(f, d, records, n, first) ==
  f = [k \in 0 .. n |-> IF k = 0 THEN d ELSE L!ReadRecord(f[k - 1], records[k], first)]

(* There is one way to go through them. *)
LEMMA ReadsExists ==
  ASSUME NEW n \in Nat, NEW d, NEW records, NEW first
  PROVE  \E f : Reads(f, d, records, n, first)
<1> DEFINE P == {k \in Nat : \E f : Reads(f, d, records, k, first)}
<1>1. 0 \in P
  <2> DEFINE f == [k \in 0 .. 0 |-> d]
  <2>1. Reads(f, d, records, 0, first)
    BY DEF Reads
  <2> QED
    BY <2>1
<1>2. ASSUME NEW k \in 1 .. n, k - 1 \in P PROVE k \in P
  <2>1. PICK f : Reads(f, d, records, k - 1, first)
    BY <1>2
  <2> DEFINE r(j) == L!ReadRecord(f[j], records[j + 1], first)
             g == [j \in 0 .. k |-> IF j = k THEN r(k - 1) ELSE f[j]]
  <2>2. ASSUME NEW j \in 0 .. k
        PROVE  g[j] = IF j = 0 THEN d ELSE L!ReadRecord(g[j - 1], records[j], first)
    <3>1. CASE j = k
      <4>1. g[j - 1] = f[k - 1] /\ g[j] = r(k - 1) /\ j - 1 + 1 = j /\ j # 0
        BY <3>1
      <4> HIDE DEF g
      <4> QED
        BY <4>1, <3>1
    <3>2. CASE j # k
      <4>1. j \in 0 .. k - 1 /\ g[j] = f[j] /\ (j # 0 => g[j - 1] = f[j - 1])
        BY <3>2
      <4>2. f[j] = IF j = 0 THEN d ELSE L!ReadRecord(f[j - 1], records[j], first)
        BY <2>1, <4>1 DEF Reads
      <4> HIDE DEF g
      <4> QED
        BY <4>1, <4>2
    <3> QED
      BY <3>1, <3>2
  <2>3. g = [j \in 0 .. k |-> g[j]]
    OBVIOUS
  <2> HIDE DEF g
  <2>4. Reads(g, d, records, k, first)
    BY <2>2, <2>3 DEF Reads
  <2> QED
    BY <2>4
<1> HIDE DEF P
<1>3. n \in P
  BY <1>1, <1>2, AllUpTo
<1> QED
  BY <1>3 DEF P

(* And it does not depend on what follows. *)
LEMMA ReadsAgree ==
  ASSUME NEW n \in Nat, NEW d, NEW records, NEW others, NEW first, NEW l \in 0 .. n,
         \A k \in 1 .. l : records[k] = others[k],
         NEW f, Reads(f, d, records, n, first), NEW g, Reads(g, d, others, l, first)
  PROVE  f[l] = g[l]
<1> DEFINE P == {k \in 0 .. l : f[k] = g[k]}
<1>1. 0 \in P
  BY DEF Reads
<1>2. ASSUME NEW k \in 1 .. l, k - 1 \in P PROVE k \in P
  <2>1. f[k] = L!ReadRecord(f[k - 1], records[k], first)
    <3>1. k \in 0 .. n /\ k # 0
      OBVIOUS
    <3> QED
      BY <3>1 DEF Reads
  <2>2. g[k] = L!ReadRecord(g[k - 1], others[k], first)
    BY DEF Reads
  <2> QED
    BY <1>2, <2>1, <2>2
<1> HIDE DEF P
<1>3. l \in P
  BY <1>1, <1>2, AllUpTo
<1> QED
  BY <1>3 DEF P

(* All records of a file, and one record more. *)
ReadAll(d, f, first) == L!ReadRecords(d, f, Len(f), first)

Longer(f, g, r, S) == f \in Seq(S) /\ g = Append(f, r)

LEMMA ReadMore ==
  ASSUME NEW f, NEW g, NEW r, NEW S, Longer(f, g, r, S), NEW d, NEW first
  PROVE  ReadAll(d, g, first) = L!ReadRecord(ReadAll(d, f, first), r, first)
<1>0. f \in Seq(S) /\ g = Append(f, r)
  BY DEF Longer
<1>1. ASSUME NEW k \in Nat, NEW records
      PROVE  \E a : Reads(a, d, records, k, first) /\ L!ReadRecords(d, records, k, first) = a[k]
  <2>1. L!ReadRecords(d, records, k, first) = (CHOOSE a : Reads(a, d, records, k, first))[k]
    BY DEF L!ReadRecords, Reads
  <2> QED
    BY <2>1, ReadsExists
<1> DEFINE n == Len(f)
<1>2. n \in Nat /\ Len(g) = n + 1 /\ g[n + 1] = r /\ \A k \in 1 .. n : g[k] = f[k]
  BY <1>0
<1> HIDE DEF n
<1>3. PICK a : Reads(a, d, g, n + 1, first) /\ L!ReadRecords(d, g, n + 1, first) = a[n + 1]
  BY <1>1, <1>2
<1>4. PICK b : Reads(b, d, f, n, first) /\ L!ReadRecords(d, f, n, first) = b[n]
  BY <1>1, <1>2
<1> DEFINE m == n + 1
<1>5. m \in Nat /\ n \in 0 .. m /\ m \in 0 .. m /\ m # 0 /\ m - 1 = n
  BY <1>2
<1>6. Reads(a, d, g, m, first) /\ g[m] = r
  BY <1>2, <1>3
<1> HIDE DEF m
<1>7. a[n] = b[n]
  BY ONLY <1>2, <1>4, <1>5, <1>6, ReadsAgree
<1>8. a[m] = L!ReadRecord(a[n], r, first)
  <2>1. a[m] = L!ReadRecord(a[m - 1], g[m], first)
    BY <1>5, <1>6 DEF Reads
  <2> QED
    BY <1>5, <1>6, <2>1
<1> QED
  BY <1>2, <1>3, <1>4, <1>7, <1>8 DEF ReadAll, n, m

(* An empty file changes nothing. *)
LEMMA ReadNone ==
  ASSUME NEW d, NEW first
  PROVE  ReadAll(d, <<>>, first) = d
<1>1. ReadAll(d, <<>>, first) = (CHOOSE a : Reads(a, d, <<>>, 0, first))[0]
  <2>1. Len(<<>>) = 0
    OBVIOUS
  <2> QED
    BY <2>1 DEF ReadAll, L!ReadRecords, Reads
<1>2. \E b : Reads(b, d, <<>>, 0, first)
  BY ReadsExists
<1> DEFINE c == CHOOSE a : Reads(a, d, <<>>, 0, first)
<1>3. Reads(c, d, <<>>, 0, first)
  BY <1>2
<1> HIDE DEF c
<1>4. c[0] = d
  BY <1>3 DEF Reads
<1> QED
  BY <1>1, <1>4 DEF c

(* How ReadTransaction goes through the first n operations. *)
Applies(f, d, ops, n) ==
  f = [k \in 0 .. n |-> IF k = 0 THEN d ELSE L!ReadOperation(f[k - 1], ops[k])]

(* There is a way to go through them. *)
LEMMA AppliesExists ==
  ASSUME NEW n \in Nat, NEW d, NEW ops
  PROVE  \E f : Applies(f, d, ops, n)
<1> DEFINE P == {k \in Nat : \E f : Applies(f, d, ops, k)}
<1>1. 0 \in P
  <2> DEFINE f == [k \in 0 .. 0 |-> d]
  <2>1. Applies(f, d, ops, 0)
    BY DEF Applies
  <2> QED
    BY <2>1
<1>2. ASSUME NEW k \in 1 .. n, k - 1 \in P PROVE k \in P
  <2>1. PICK f : Applies(f, d, ops, k - 1)
    BY <1>2
  <2> DEFINE r(j) == L!ReadOperation(f[j], ops[j + 1])
             g == [j \in 0 .. k |-> IF j = k THEN r(k - 1) ELSE f[j]]
  <2>2. ASSUME NEW j \in 0 .. k
        PROVE  g[j] = IF j = 0 THEN d ELSE L!ReadOperation(g[j - 1], ops[j])
    <3>1. CASE j = k
      <4>1. g[j - 1] = f[k - 1] /\ g[j] = r(k - 1) /\ j - 1 + 1 = j /\ j # 0
        BY <3>1
      <4> HIDE DEF g
      <4> QED
        BY <4>1, <3>1
    <3>2. CASE j # k
      <4>1. j \in 0 .. k - 1 /\ g[j] = f[j] /\ (j # 0 => g[j - 1] = f[j - 1])
        BY <3>2
      <4>2. f[j] = IF j = 0 THEN d ELSE L!ReadOperation(f[j - 1], ops[j])
        BY <2>1, <4>1 DEF Applies
      <4> HIDE DEF g
      <4> QED
        BY <4>1, <4>2
    <3> QED
      BY <3>1, <3>2
  <2>3. g = [j \in 0 .. k |-> g[j]]
    OBVIOUS
  <2> HIDE DEF g
  <2>4. Applies(g, d, ops, k)
    BY <2>2, <2>3 DEF Applies
  <2> QED
    BY <2>4
<1> HIDE DEF P
<1>3. n \in P
  BY <1>1, <1>2, AllUpTo
<1> QED
  BY <1>3 DEF P

(* What has been loaded is a record, and its nodes are a function. *)
IsLoaded(d) ==
  /\ d = [nodes |-> d.nodes, ghosts |-> d.ghosts, magic |-> d.magic,
          dumpOn |-> d.dumpOn, status |-> d.status]
  /\ d.nodes = [i \in DOMAIN d.nodes |-> d.nodes[i]]

(* The value of node i, if there is one. *)
Holds(d, i) == IF i \in DOMAIN d.nodes THEN {d.nodes[i]} ELSE {}

(* Reading changes nothing but nodes and ghosts. *)
SameReading(d, e) ==
  IsLoaded(e) /\ e.magic = d.magic /\ e.dumpOn = d.dumpOn /\ e.status = d.status

(* What an operation makes of the node it is about. *)
NodeAfter(x, o) ==
  IF o.op = "CREATED" THEN IF x = {} THEN {InitValue} ELSE x
  ELSE IF o.op = "MODIFIED" /\ x # {} THEN {o.value} ELSE {}

(* e differs from d in nodes and ghosts; node k has value x, if any. *)
Has(e, N, G) == e.nodes = N /\ e.ghosts = G
NodeIs(d, e, k, x) ==
  /\ SameReading(d, e) /\ DOMAIN e.nodes \subseteq DOMAIN d.nodes \cup {k}
  /\ \A i : Holds(e, i) = IF i = k THEN x ELSE Holds(d, i)

(* Other nodes. *)
LEMMA WithNodes ==
  ASSUME NEW d, IsLoaded(d), NEW N, N = [j \in DOMAIN N |-> N[j]],
         NEW e, e = [d EXCEPT !.nodes = N]
  PROVE  SameReading(d, e) /\ Has(e, N, d.ghosts)
<1>1. e = [nodes |-> N, ghosts |-> d.ghosts, magic |-> d.magic,
           dumpOn |-> d.dumpOn, status |-> d.status]
  BY DEF IsLoaded
<1> QED
  BY <1>1 DEF SameReading, IsLoaded, Has

(* A value for a node. *)
PutIn(d, k, v) == [d EXCEPT !.nodes = L!Put(d.nodes, k, v)]

LEMMA PutIs ==
  ASSUME NEW d, IsLoaded(d), NEW k, NEW v, NEW e, e = PutIn(d, k, v)
  PROVE  NodeIs(d, e, k, {v}) /\ e.ghosts = d.ghosts
<1> DEFINE N == L!Put(d.nodes, k, v)
<1>1. /\ N = [j \in DOMAIN N |-> N[j]] /\ DOMAIN N = DOMAIN d.nodes \cup {k}
      /\ \A j \in DOMAIN N : N[j] = IF j = k THEN v ELSE d.nodes[j]
  BY DEF L!Put
<1> HIDE DEF N
<1>2. SameReading(d, e) /\ Has(e, N, d.ghosts)
  <2>1. e = [d EXCEPT !.nodes = N]
    BY DEF N, PutIn
  <2>2. N = [j \in DOMAIN N |-> N[j]] /\ IsLoaded(d)
    BY <1>1
  <2> QED
    BY ONLY <2>1, <2>2, WithNodes
<1> QED
  BY <1>1, <1>2 DEF Holds, Has, NodeIs

(* A node less. *)
LEMMA RemovedIs ==
  ASSUME NEW d, IsLoaded(d), NEW k, NEW e, e = L!ReadDelete(d, k)
  PROVE  NodeIs(d, e, k, {}) /\ e.ghosts = d.ghosts
<1> DEFINE N == [j \in DOMAIN d.nodes \ {k} |-> d.nodes[j]]
<1>1. /\ N = [j \in DOMAIN N |-> N[j]] /\ DOMAIN N = DOMAIN d.nodes \ {k}
      /\ \A j \in DOMAIN N : N[j] = d.nodes[j]
  OBVIOUS
<1>2. e = [d EXCEPT !.nodes = N]
  BY DEF L!ReadDelete
<1> HIDE DEF N
<1>3. SameReading(d, e) /\ Has(e, N, d.ghosts)
  <2>1. N = [j \in DOMAIN N |-> N[j]] /\ IsLoaded(d)
    BY <1>1
  <2> QED
    BY ONLY <1>2, <2>1, WithNodes
<1> QED
  BY <1>1, <1>3 DEF Holds, Has, NodeIs

(* A node that was not expected. *)
LEMMA GhostIs ==
  ASSUME NEW d, IsLoaded(d), NEW G, NEW e, e = [d EXCEPT !.ghosts = G]
  PROVE  SameReading(d, e) /\ Has(e, d.nodes, G)
<1>1. e = [nodes |-> d.nodes, ghosts |-> G, magic |-> d.magic,
           dumpOn |-> d.dumpOn, status |-> d.status]
  BY DEF IsLoaded
<1> QED
  BY <1>1 DEF SameReading, IsLoaded, Has

(* One operation. *)
LEMMA OperationRead ==
  ASSUME NEW d, IsLoaded(d), NEW o \in Operations, NEW e, e = L!ReadOperation(d, o)
  PROVE  /\ NodeIs(d, e, o.id, NodeAfter(Holds(d, o.id), o))
         /\ (o.op = "CREATED" /\ Holds(d, o.id) # {}) \/ e.ghosts = d.ghosts
<1> DEFINE k == o.id
           known == k \in DOMAIN d.nodes
<1>1. known <=> Holds(d, k) # {}
  BY DEF Holds
<1>2. CASE o.op = "CREATED"
  <2>1. e = L!ReadCreate(d, k)
    BY <1>2 DEF L!ReadOperation
  <2>2. CASE known
    <3>1. e = [d EXCEPT !.ghosts = d.ghosts \cup {k}]
      BY <2>1, <2>2 DEF L!ReadCreate, L!Known
    <3> DEFINE G == d.ghosts \cup {k}
    <3> HIDE DEF G
    <3>2. SameReading(d, e) /\ Has(e, d.nodes, G)
      <4>1. e = [d EXCEPT !.ghosts = G] /\ IsLoaded(d)
        BY <3>1 DEF G
      <4> QED
        BY ONLY <4>1, GhostIs
    <3>3. NodeAfter(Holds(d, k), o) = Holds(d, k)
      BY <1>1, <1>2, <2>2 DEF NodeAfter
    <3> QED
      BY <1>1, <1>2, <2>2, <3>2, <3>3 DEF Holds, Has, NodeIs
  <2>3. CASE ~known
    <3>1. e = PutIn(d, k, InitValue)
      BY <2>1, <2>3 DEF L!ReadCreate, L!Known, PutIn
    <3> HIDE DEF k
    <3>2. NodeIs(d, e, k, {InitValue}) /\ e.ghosts = d.ghosts
      <4>1. IsLoaded(d)
        OBVIOUS
      <4> QED
        BY ONLY <3>1, <4>1, PutIs
    <3>3. NodeAfter(Holds(d, k), o) = {InitValue}
      BY <1>1, <1>2, <2>3 DEF NodeAfter
    <3> QED
      BY <3>2, <3>3 DEF k
  <2> QED
    BY <2>2, <2>3
<1>3. CASE o.op = "MODIFIED"
  <2>1. e = L!ReadModify(d, k, o.value)
    BY <1>3 DEF L!ReadOperation
  <2>2. CASE known
    <3>1. e = PutIn(d, k, o.value)
      BY <2>1, <2>2 DEF L!ReadModify, L!Known, PutIn
    <3> HIDE DEF k
    <3>2. NodeIs(d, e, k, {o.value}) /\ e.ghosts = d.ghosts
      <4>1. IsLoaded(d)
        OBVIOUS
      <4> QED
        BY ONLY <3>1, <4>1, PutIs
    <3>3. NodeAfter(Holds(d, k), o) = {o.value}
      BY <1>1, <1>3, <2>2 DEF NodeAfter
    <3> QED
      BY <3>2, <3>3 DEF k
  <2>3. CASE ~known
    <3>1. e = d
      BY <2>1, <2>3 DEF L!ReadModify, L!Known
    <3>2. NodeAfter(Holds(d, k), o) = Holds(d, k)
      BY <1>1, <1>3, <2>3 DEF NodeAfter
    <3> QED
      BY <3>1, <3>2 DEF SameReading, NodeIs
  <2> QED
    BY <2>2, <2>3
<1>4. CASE o.op = "DELETED"
  <2>1. e = L!ReadDelete(d, k)
    BY <1>4 DEF L!ReadOperation
  <2>2. NodeAfter(Holds(d, k), o) = {}
    BY <1>4 DEF NodeAfter
  <2> HIDE DEF k
  <2>3. NodeIs(d, e, k, {}) /\ e.ghosts = d.ghosts
    <3>1. IsLoaded(d)
      OBVIOUS
    <3> QED
      BY ONLY <2>1, <3>1, RemovedIs
  <2> QED
    BY <2>2, <2>3 DEF k
<1> QED
  BY <1>2, <1>3, <1>4, OpIs

(* What operations make of the value x of node i. *)
After(x, ops, i) ==
  IF ~Touched(ops, i) THEN x
  ELSE LET o == LastOp(ops, i)
       IN  IF o.op = "DELETED" \/ (x = {} /\ ~Creates(ops, i)) THEN {}
           ELSE IF o.op = "CREATED" /\ x # {} THEN x ELSE {ValueIn(o)}

More(new, ops, o) == new = Append(ops, o)

LEMMA AfterMore ==
  ASSUME NEW ops \in Seq(Operations), NEW o \in Operations, NEW new, More(new, ops, o),
         Orderly(new), NEW x, NEW i
  PROVE  /\ i = o.id => After(x, new, i) = NodeAfter(After(x, ops, i), o)
         /\ i # o.id => After(x, new, i) = After(x, ops, i)
<1> USE DEF More
<1>1. /\ Touched(new, i) <=> Touched(ops, i) \/ o.id = i
      /\ Creates(new, i) <=> Creates(ops, i) \/ (o.id = i /\ o.op = "CREATED")
      /\ Touched(new, i) => LastOp(new, i) = IF o.id = i THEN o ELSE LastOp(ops, i)
  BY OpsAppend
<1>2. CASE i # o.id
  BY <1>1, <1>2 DEF After
<1>3. CASE i = o.id
  <2>1. LastOp(new, i) = o /\ Touched(new, i)
    BY <1>1, <1>3
  <2>2. Touched(ops, i) => LastOp(ops, i).op # "DELETED" /\ o.op # "CREATED"
    <3>1. SUFFICES ASSUME Touched(ops, i) PROVE LastOp(ops, i).op # "DELETED" /\ o.op # "CREATED"
      OBVIOUS
    <3> DEFINE m == LastOf(Touches(ops, i))
    <3>2. m \in DOMAIN ops /\ LastOp(ops, i) = ops[m] /\ LastOp(ops, i).id = i
      BY <3>1, LastOpIs DEF LastOp
    <3> HIDE DEF m
    <3>3. /\ m \in DOMAIN new /\ Len(ops) + 1 \in DOMAIN new /\ m < Len(ops) + 1
          /\ new[m] = ops[m] /\ new[Len(ops) + 1] = o
      BY <3>2
    <3> QED
      BY <1>3, <3>2, <3>3 DEF Orderly
  <2>3. o.op \in {"CREATED", "MODIFIED", "DELETED"}
    BY OpIs
  <2>4. ~Touched(ops, i) => ~Creates(ops, i)
    BY DEF Touched, Touches, Creates
  <2>5. CASE ~Touched(ops, i)
    BY <1>1, <1>3, <2>1, <2>3, <2>4, <2>5 DEF After, NodeAfter, ValueIn
  <2>6. CASE Touched(ops, i)
    <3>1. LastOp(ops, i).op # "DELETED" /\ o.op # "CREATED"
      BY <2>2, <2>6
    <3>2. (After(x, ops, i) = {}) <=> (x = {} /\ ~Creates(ops, i))
      BY <2>6, <3>1 DEF After
    <3>3. Creates(new, i) <=> Creates(ops, i)
      BY <1>1, <3>1
    <3> QED
      BY <1>3, <2>1, <2>3, <3>1, <3>2, <3>3 DEF After, NodeAfter, ValueIn
  <2> QED
    BY <2>5, <2>6
<1> QED
  BY <1>2, <1>3

-----------------------------------------------------------------------------
(* What each record does. *)

(* e is d after a transaction. *)
Outcome(d, ops, e) ==
  /\ SameReading(d, e) /\ DOMAIN e.nodes \subseteq DOMAIN d.nodes \cup Ids
  /\ \A i : Holds(e, i) = After(Holds(d, i), ops, i)
  /\ (\A i : Creates(ops, i) => Holds(d, i) = {}) => e.ghosts = d.ghosts

(* One operation more. *)
LEMMA OutcomeMore ==
  ASSUME NEW d, NEW ops \in Seq(Operations), NEW o \in Operations, NEW new, More(new, ops, o),
         Orderly(new), NEW c, Outcome(d, ops, c), NEW e, e = L!ReadOperation(c, o)
  PROVE  Outcome(d, new, e)
<1>1. SameReading(d, c) /\ IsLoaded(c)
  BY DEF Outcome, SameReading
<1>2. /\ NodeIs(c, e, o.id, NodeAfter(Holds(c, o.id), o))
      /\ (o.op = "CREATED" /\ Holds(c, o.id) # {}) \/ e.ghosts = c.ghosts
  <2>1. IsLoaded(c) /\ o \in Operations /\ e = L!ReadOperation(c, o)
    BY <1>1
  <2> QED
    BY ONLY <2>1, OperationRead
<1>3. SameReading(d, e)
  BY <1>1, <1>2 DEF NodeIs, SameReading
<1>4. DOMAIN e.nodes \subseteq DOMAIN d.nodes \cup Ids
  <2>1. o.id \in Ids
    BY OpIs
  <2> QED
    BY <1>2, <2>1 DEF NodeIs, Outcome
<1>5. ASSUME NEW i PROVE Holds(e, i) = After(Holds(d, i), new, i)
  <2>1. Holds(e, i) = IF i = o.id THEN NodeAfter(Holds(c, i), o) ELSE Holds(c, i)
    BY <1>2 DEF NodeIs
  <2>2. Holds(c, i) = After(Holds(d, i), ops, i)
    BY DEF Outcome
  <2>4. PICK x : x = Holds(d, i)
    OBVIOUS
  <2>3. /\ i = o.id => After(x, new, i) = NodeAfter(After(x, ops, i), o)
        /\ i # o.id => After(x, new, i) = After(x, ops, i)
    <3>1. /\ ops \in Seq(Operations) /\ o \in Operations /\ More(new, ops, o)
          /\ Orderly(new)
      OBVIOUS
    <3> QED
      BY ONLY <3>1, AfterMore
  <2> QED
    BY <2>1, <2>2, <2>3, <2>4
<1>6. ASSUME \A i : Creates(new, i) => Holds(d, i) = {} PROVE e.ghosts = d.ghosts
  <2> USE DEF More
  <2>1. ASSUME NEW i PROVE Creates(new, i) <=> Creates(ops, i) \/ (o.id = i /\ o.op = "CREATED")
    BY OpsAppend
  <2>2. c.ghosts = d.ghosts
    BY <1>6, <2>1 DEF Outcome
  <2>3. ASSUME o.op = "CREATED" PROVE Holds(c, o.id) = {}
    <3>1. Creates(new, o.id) /\ Holds(d, o.id) = {}
      BY <1>6, <2>1, <2>3
    <3>2. ~Touched(ops, o.id)
      <4>1. SUFFICES ASSUME NEW x \in DOMAIN ops, ops[x].id = o.id PROVE FALSE
        BY DEF Touched, Touches
      <4>2. /\ x \in DOMAIN new /\ Len(ops) + 1 \in DOMAIN new /\ x < Len(ops) + 1
            /\ new[x] = ops[x] /\ new[Len(ops) + 1] = o
        OBVIOUS
      <4> QED
        BY <2>3, <4>1, <4>2 DEF Orderly
    <3>3. Holds(c, o.id) = After(Holds(d, o.id), ops, o.id)
      BY DEF Outcome
    <3> QED
      BY <3>1, <3>2, <3>3 DEF After
  <2> QED
    BY <1>2, <2>2, <2>3
<1> QED
  BY <1>3, <1>4, <1>5, <1>6 DEF Outcome

(* A whole transaction. *)
LEMMA TransactionRead ==
  ASSUME NEW d, IsLoaded(d), NEW ops \in Seq(Operations), ops # <<>>, Orderly(ops)
  PROVE  Outcome(d, ops, L!ReadTransaction(d, ops))
<1>1. PICK n \in Nat : n = Len(ops)
  OBVIOUS
<1> DEFINE pre(k) == SubSeq(ops, 1, k)
<1>2. PICK f : Applies(f, d, ops, n) /\ L!ReadTransaction(d, ops) = f[n]
  <2>1. L!ReadTransaction(d, ops) = (CHOOSE f : Applies(f, d, ops, n))[n]
    BY <1>1 DEF L!ReadTransaction, Applies
  <2>2. \E f : Applies(f, d, ops, n)
    BY <1>1, AppliesExists
  <2> QED
    BY <2>1, <2>2
<1>3. ASSUME NEW k \in 0 .. n
      PROVE  /\ pre(k) \in Seq(Operations) /\ Len(pre(k)) = k /\ Orderly(pre(k))
             /\ \A x \in 1 .. k : pre(k)[x] = ops[x]
  <2>1. pre(k) \in Seq(Operations) /\ Len(pre(k)) = k /\ \A x \in 1 .. k : pre(k)[x] = ops[x]
    BY <1>1
  <2> HIDE DEF pre
  <2>2. DOMAIN pre(k) = 1 .. k /\ 1 .. k \subseteq DOMAIN ops
    BY <1>1, <2>1
  <2>3. Orderly(pre(k))
    BY <2>1, <2>2 DEF Orderly
  <2> QED
    BY <2>1, <2>3
<1>4. ASSUME NEW k \in 1 .. n PROVE pre(k) = Append(pre(k - 1), ops[k])
  BY <1>1
<1>7. pre(n) = ops /\ pre(0) = <<>>
  BY <1>1
<1> HIDE DEF pre
<1> DEFINE P == {k \in 0 .. n : Outcome(d, pre(k), f[k])}
<1>5. 0 \in P
  <2>1. pre(0) = <<>> /\ f[0] = d
    BY <1>2, <1>7 DEF Applies
  <2>2. \A i : ~Touched(<<>>, i)
    BY NoOps
  <2>3. Outcome(d, <<>>, d)
    BY <2>2 DEF Outcome, SameReading, After
  <2> QED
    BY <1>1, <2>1, <2>3
<1>6. ASSUME NEW k \in 1 .. n, k - 1 \in P PROVE k \in P
  <2>1. f[k] = L!ReadOperation(f[k - 1], ops[k])
    BY <1>2 DEF Applies
  <2>2. /\ pre(k - 1) \in Seq(Operations) /\ Orderly(pre(k)) /\ pre(k) = Append(pre(k - 1), ops[k])
        /\ ops[k] \in Operations /\ Outcome(d, pre(k - 1), f[k - 1])
    <3>1. k - 1 \in 0 .. n /\ k \in 0 .. n /\ ops[k] \in Operations
      BY <1>1
    <3>2. Outcome(d, pre(k - 1), f[k - 1])
      BY <1>6
    <3> QED
      BY <1>3, <1>4, <3>1, <3>2
  <2> HIDE DEF P
  <2>3. Outcome(d, pre(k), f[k])
    <3>1. More(pre(k), pre(k - 1), ops[k])
      BY <2>2 DEF More
    <3> QED
      BY ONLY <2>1, <2>2, <3>1, OutcomeMore
  <2> QED
    BY <2>3 DEF P
<1> HIDE DEF P
<1>8. \A k \in 0 .. n : k \in P
  BY <1>5, <1>6, AllUpTo, Zenon
<1> QED
  BY <1>1, <1>2, <1>7, <1>8 DEF P

Records ==
  {L!Transaction(ops) : ops \in Seq(Operations) \ {<<>>}}
    \cup {L!Dumped(i, v) : i \in Ids, v \in Values} \cup {L!DumpBegin, L!DumpEnd}

(* Records and their kinds. *)
LEMMA RecordKinds ==
  /\ \A ops : L!Transaction(ops).kind = "transaction" /\ L!Transaction(ops).ops = ops
  /\ \A i, v : L!Dumped(i, v).kind = "dumped" /\ L!Dumped(i, v).id = i /\ L!Dumped(i, v).value = v
  /\ L!DumpBegin.kind = "DUMP BEGIN"
  /\ L!DumpEnd.kind = "DUMP END"
<1>1. ASSUME NEW ops
      PROVE  L!Transaction(ops).kind = "transaction" /\ L!Transaction(ops).ops = ops
  BY DEF L!Transaction
<1>2. ASSUME NEW i, NEW v
      PROVE  L!Dumped(i, v).kind = "dumped" /\ L!Dumped(i, v).id = i /\ L!Dumped(i, v).value = v
  BY DEF L!Dumped
<1>3. L!DumpBegin.kind = "DUMP BEGIN" /\ L!DumpEnd.kind = "DUMP END"
  BY DEF L!DumpBegin, L!DumpEnd
<1> QED
  BY ONLY <1>1, <1>2, <1>3

(* A transaction in a file. *)
LEMMA TransactionRecord ==
  ASSUME NEW d, IsLoaded(d), d.status = "READING", NEW ops \in Seq(Operations), ops # <<>>,
         Orderly(ops), NEW first
  PROVE  Outcome(d, ops, L!ReadRecord(d, L!Transaction(ops), first))
<1> DEFINE r == L!Transaction(ops)
<1>1. r.kind = "transaction" /\ r.ops = ops
  BY RecordKinds
<1> HIDE DEF r
<1>2. L!ReadRecord(d, r, first) = L!ReadTransaction(d, ops)
  BY <1>1 DEF L!ReadRecord
<1>3. Outcome(d, ops, L!ReadTransaction(d, ops))
  BY TransactionRead
<1> QED
  BY <1>2, <1>3 DEF r

(* Corruption is the end. *)
LEMMA CorruptedStays ==
  ASSUME NEW d, d.status # "READING", NEW r, NEW first
  PROVE  L!ReadRecord(d, r, first) = d
BY DEF L!ReadRecord

(* A dumped node in a file. *)
ReadsDumped(d, i, v, first, e) ==
  /\ IsLoaded(d) /\ d.status = "READING" /\ d.dumpOn = TRUE /\ first \in BOOLEAN
  /\ e = L!ReadRecord(d, L!Dumped(i, v), first)

LEMMA DumpedRecord ==
  ASSUME NEW d, NEW i, NEW v, NEW first, NEW e, ReadsDumped(d, i, v, first, e)
  PROVE  /\ ~first => e = d
         /\ first /\ Holds(d, i) = {} => NodeIs(d, e, i, {v}) /\ e.ghosts = d.ghosts
         /\ first /\ Holds(d, i) # {} => e.status = "CORRUPTED"
<1> DEFINE r == L!Dumped(i, v)
<1>0. /\ IsLoaded(d) /\ d.status = "READING" /\ d.dumpOn = TRUE /\ first \in BOOLEAN
      /\ e = L!ReadRecord(d, r, first)
  BY DEF ReadsDumped
<1>1. r.kind = "dumped" /\ r.id = i /\ r.value = v
  BY DEF L!Dumped
<1>2. e = L!ReadRecord(d, r, first)
  BY <1>0
<1> HIDE DEF r
<1>3. e = L!ReadDumped(d, r, first)
  BY <1>0, <1>1, <1>2 DEF L!ReadRecord
<1>4. ASSUME ~first PROVE e = d
  BY <1>0, <1>3, <1>4 DEF L!ReadDumped
<1>5. ASSUME first, Holds(d, i) = {} PROVE NodeIs(d, e, i, {v}) /\ e.ghosts = d.ghosts
  <2>1. ~L!Known(d, i)
    BY <1>5 DEF L!Known, Holds
  <2>2. e = PutIn(d, i, v)
    BY <1>0, <1>1, <1>3, <1>5, <2>1 DEF L!ReadDumped, PutIn
  <2>3. IsLoaded(d)
    BY <1>0
  <2> QED
    BY ONLY <2>2, <2>3, PutIs
<1>6. ASSUME first, Holds(d, i) # {} PROVE e.status = "CORRUPTED"
  <2>1. L!Known(d, i)
    BY <1>6 DEF L!Known, Holds
  <2> DEFINE c == [d EXCEPT !.ghosts = @ \cup {i}]
  <2>2. e = L!Corrupted(c)
    BY <1>0, <1>1, <1>3, <1>6, <2>1 DEF L!ReadDumped
  <2>3. c = [nodes |-> d.nodes, ghosts |-> d.ghosts \cup {i}, magic |-> d.magic,
             dumpOn |-> d.dumpOn, status |-> d.status]
    BY <1>0 DEF IsLoaded
  <2> HIDE DEF c
  <2> QED
    BY <2>2, <2>3 DEF L!Corrupted
<1> QED
  BY <1>4, <1>5, <1>6

(* The marks around a dump. *)
Marked(d, e, on) ==
  IsLoaded(e) /\ e.nodes = d.nodes /\ e.ghosts = d.ghosts /\ e.magic = d.magic
    /\ e.dumpOn = on /\ e.status = d.status

LEMMA MarkRecord ==
  ASSUME NEW d, IsLoaded(d), d.status = "READING", NEW first
  PROVE  /\ d.dumpOn = FALSE => Marked(d, L!ReadRecord(d, L!DumpBegin, first), TRUE)
         /\ d.dumpOn = TRUE => Marked(d, L!ReadRecord(d, L!DumpEnd, first), FALSE)
<1>1. ASSUME NEW on \in BOOLEAN, NEW e, e = [d EXCEPT !.dumpOn = on] PROVE Marked(d, e, on)
  <2>1. e = [nodes |-> d.nodes, ghosts |-> d.ghosts, magic |-> d.magic,
             dumpOn |-> on, status |-> d.status]
    BY <1>1 DEF IsLoaded
  <2> QED
    BY <2>1 DEF Marked, IsLoaded
<1>2. ASSUME NEW r, r.kind = "DUMP BEGIN", d.dumpOn = FALSE
      PROVE  L!ReadRecord(d, r, first) = [d EXCEPT !.dumpOn = TRUE]
  BY <1>2 DEF L!ReadRecord
<1>3. ASSUME NEW r, r.kind = "DUMP END", d.dumpOn = TRUE
      PROVE  L!ReadRecord(d, r, first) = [d EXCEPT !.dumpOn = FALSE]
  BY <1>3 DEF L!ReadRecord
<1>4. L!DumpBegin.kind = "DUMP BEGIN" /\ L!DumpEnd.kind = "DUMP END"
  BY RecordKinds
<1>5. d.dumpOn = FALSE => Marked(d, L!ReadRecord(d, L!DumpBegin, first), TRUE)
  BY <1>1, <1>2, <1>4
<1>6. d.dumpOn = TRUE => Marked(d, L!ReadRecord(d, L!DumpEnd, first), FALSE)
  BY <1>1, <1>3, <1>4
<1> QED
  BY <1>5, <1>6

-----------------------------------------------------------------------------
(* Logs *)

Items == [slot : Slots, op : Operations, old : Values]
OldIn(items, s) == items[SmallestOf({x \in DOMAIN items : items[x].slot = s})].old

(* The operations of a log. *)
LEMMA OpsIs ==
  ASSUME NEW items \in Seq(Items)
  PROVE  /\ Ops(items) \in Seq(Operations) /\ Len(Ops(items)) = Len(items)
         /\ DOMAIN Ops(items) = DOMAIN items
         /\ \A x \in DOMAIN items :
              /\ Ops(items)[x] = items[x].op /\ items[x].op \in Operations
              /\ items[x].slot \in Slots /\ items[x].old \in Values
<1>1. ASSUME NEW x \in 1 .. Len(items)
      PROVE  items[x].op \in Operations /\ items[x].slot \in Slots /\ items[x].old \in Values
  <2>1. items[x] \in Items
    OBVIOUS
  <2> QED
    BY <2>1 DEF Items
<1>2. DOMAIN items = 1 .. Len(items) /\ Len(items) \in Nat
  OBVIOUS
<1>3. Ops(items) = [x \in 1 .. Len(items) |-> items[x].op]
  BY <1>2 DEF Ops
<1>4. Ops(items) \in Seq(Operations) /\ Len(Ops(items)) = Len(items)
  BY <1>1, <1>2, <1>3
<1> QED
  BY <1>1, <1>2, <1>3, <1>4

(* A log with nothing in it writes nothing. *)
LEMMA NoItems == Ops(<<>>) = <<>> /\ <<>> \in Seq(Items)
<1>1. Ops(<<>>) = [x \in {} |-> <<>>[x].op]
  BY DEF Ops
<1> QED
  BY <1>1

(* One entry more. *)
LEMMA ItemsAppend ==
  ASSUME NEW items \in Seq(Items), NEW e \in Items
  PROVE  /\ More(Ops(Append(items, e)), Ops(items), e.op)
         /\ Append(items, e) \in Seq(Items) /\ Len(Append(items, e)) = Len(items) + 1
         /\ Append(items, e)[Len(items) + 1] = e
         /\ \A x \in 1 .. Len(items) : Append(items, e)[x] = items[x]
         /\ e.op \in Operations
<1> DEFINE new == Append(items, e)
<1>1. /\ new \in Seq(Items) /\ Len(new) = Len(items) + 1 /\ new[Len(items) + 1] = e
      /\ \A x \in 1 .. Len(items) : new[x] = items[x]
  OBVIOUS
<1>2. e.op \in Operations
  BY DEF Items
<1> HIDE DEF new
<1>3. /\ Ops(new) \in Seq(Operations) /\ Len(Ops(new)) = Len(items) + 1
      /\ \A x \in 1 .. Len(items) + 1 : Ops(new)[x] = new[x].op
  BY <1>1, OpsIs
<1>4. /\ Ops(items) \in Seq(Operations) /\ Len(Ops(items)) = Len(items)
      /\ \A x \in 1 .. Len(items) : Ops(items)[x] = items[x].op
  BY OpsIs
<1> DEFINE a == Append(Ops(items), e.op)
<1>5. /\ a \in Seq(Operations) /\ Len(a) = Len(items) + 1 /\ a[Len(items) + 1] = e.op
      /\ \A x \in 1 .. Len(items) : a[x] = items[x].op
  BY <1>2, <1>4
<1> HIDE DEF a
<1>6. \A x \in 1 .. Len(items) + 1 : Ops(new)[x] = a[x]
  BY <1>1, <1>3, <1>5
<1>7. Ops(new) = a
  BY <1>3, <1>5, <1>6, SeqEqual
<1> QED
  BY <1>1, <1>2, <1>7 DEF More, a, new

(* The first entry on a place keeps its old value. *)
LEMMA OldInAppend ==
  ASSUME NEW items \in Seq(Items), NEW e \in Items, NEW s
  PROVE  /\ (\E x \in DOMAIN items : items[x].slot = s) =>
              OldIn(Append(items, e), s) = OldIn(items, s)
         /\ (e.slot = s /\ ~\E x \in DOMAIN items : items[x].slot = s) =>
              OldIn(Append(items, e), s) = e.old
<1> DEFINE new == Append(items, e)
           S == {x \in DOMAIN items : items[x].slot = s}
           T == {x \in DOMAIN new : new[x].slot = s}
           n == Len(items)
<1>1. /\ DOMAIN new = 1 .. n + 1 /\ DOMAIN items = 1 .. n /\ n \in Nat /\ new[n + 1] = e
      /\ \A x \in 1 .. n : new[x] = items[x]
  OBVIOUS
<1> HIDE DEF new, n
<1>2. ASSUME \E x \in DOMAIN items : items[x].slot = s PROVE OldIn(new, s) = OldIn(items, s)
  <2>1. S # {} /\ S \subseteq Nat /\ S \subseteq 1 .. n /\ T \subseteq Nat
    BY <1>1, <1>2
  <2>2. \A x : x \in T => x \in S \/ x = n + 1
    BY <1>1
  <2>3. S \subseteq T
    BY <1>1
  <2> DEFINE m == SmallestOf(S)
  <2> HIDE DEF S, T
  <2>4. m \in S /\ \A k \in S : m <= k
    BY <2>1, SmallestExists
  <2>5. m \in T /\ m \in 1 .. n /\ \A k \in T : m <= k
    BY <1>1, <2>1, <2>2, <2>3, <2>4
  <2> HIDE DEF m
  <2>6. SmallestOf(T) = m
    BY <2>1, <2>5, SmallestIs
  <2>7. OldIn(items, s) = items[m].old
    BY DEF OldIn, S, m
  <2>8. OldIn(new, s) = new[m].old
    BY <2>6 DEF OldIn, T
  <2> QED
    BY <1>1, <2>5, <2>7, <2>8
<1>3. ASSUME e.slot = s, ~\E x \in DOMAIN items : items[x].slot = s PROVE OldIn(new, s) = e.old
  <2>1. T \subseteq Nat /\ n + 1 \in T /\ \A k \in T : n + 1 <= k
    BY <1>1, <1>3
  <2> HIDE DEF T
  <2>2. SmallestOf(T) = n + 1
    BY ONLY <2>1, SmallestIs
  <2>3. OldIn(new, s) = new[n + 1].old
    BY <2>2 DEF OldIn, T
  <2> QED
    BY <1>1, <2>3
<1> QED
  BY <1>2, <1>3 DEF new

(* The value a slot of the log held before is a value. *)
LEMMA OldInIsValue ==
  ASSUME NEW items \in Seq(Items), NEW s, \E x \in DOMAIN items : items[x].slot = s
  PROVE  OldIn(items, s) \in Values
<1> DEFINE S == {x \in DOMAIN items : items[x].slot = s}
<1>1. S # {} /\ S \subseteq Nat
  OBVIOUS
<1> HIDE DEF S
<1>2. SmallestOf(S) \in S
  BY <1>1, SmallestExists
<1>3. SmallestOf(S) \in DOMAIN items
  BY <1>2 DEF S
<1>4. items[SmallestOf(S)].old \in Values
  BY <1>3, OpsIs
<1> QED
  BY <1>4 DEF OldIn, S

-----------------------------------------------------------------------------
(* The queue *)

QueueJobs == [type : {"COMMIT", "START_DUMP"}, ops : Seq(Operations),
              garbage : SUBSET Slots, ready : BOOLEAN]

(* A job that is not ready belongs to one handle, which will fill it. *)
Shape(q, pl, lg) ==
  /\ q \in Seq(QueueJobs) /\ lg \in [Handles -> Seq(Items)] /\ pl \in [Handles -> Nat]
  /\ \A h \in Handles : pl[h] # 0 => pl[h] \in 1 .. Len(q) /\ ~q[pl[h]].ready
  /\ \A h, g \in Handles : pl[h] = pl[g] /\ h # g => pl[h] = 0
  /\ \A k \in 1 .. Len(q) :
       /\ ~q[k].ready => q[k].type = "COMMIT" /\ \E h \in Handles : pl[h] = k
       /\ ~q[k].ready \/ q[k].type = "START_DUMP" => q[k].ops = <<>> /\ q[k].garbage = {}

(* What each job does, or will do when it is filled if it is not given up. *)
WorkOf(q, pl, lg) ==
  [k \in 1 .. Len(q) |-> IF q[k].ready THEN q[k].ops
                         ELSE Ops(lg[CHOOSE h \in Handles : pl[h] = k])]
Work == WorkOf(queue, place, log)

(* The history of the queue: ready jobs do what they hold, the others what the
   logs of their transactions hold, *)
LEMMA WorkIs ==
  ASSUME NEW q, NEW pl, NEW lg, Shape(q, pl, lg)
  PROVE  LET W == WorkOf(q, pl, lg)
         IN  /\ W \in Histories /\ Len(W) = Len(q) /\ Len(q) \in Nat
             /\ \A k \in 1 .. Len(q) : W[k] \in Seq(Operations)
             /\ \A k \in 1 .. Len(q) : q[k].ready => W[k] = q[k].ops
             /\ \A h \in Handles : pl[h] # 0 => /\ pl[h] \in 1 .. Len(q)
                                                /\ W[pl[h]] = Ops(lg[h])
<1> DEFINE W == WorkOf(q, pl, lg)
<1>1. Len(q) \in Nat /\ \A k \in 1 .. Len(q) : q[k] \in QueueJobs
  BY DEF Shape
<1>2. W = [k \in 1 .. Len(q) |-> W[k]] /\ DOMAIN W = 1 .. Len(q)
  BY DEF WorkOf
<1>3. ASSUME NEW k \in 1 .. Len(q)
      PROVE  /\ W[k] \in Seq(Operations)
             /\ q[k].ready => W[k] = q[k].ops
             /\ \A h \in Handles : pl[h] = k => W[k] = Ops(lg[h])
  <2>1. CASE q[k].ready
    <3>1. W[k] = q[k].ops /\ q[k].ops \in Seq(Operations)
      BY <1>1, <2>1 DEF WorkOf, QueueJobs
    <3>2. \A h \in Handles : pl[h] # k
      BY <1>1, <2>1 DEF Shape
    <3> QED
      BY <3>1, <3>2
  <2>2. CASE ~q[k].ready
    <3>1. PICK g \in Handles : pl[g] = k
      BY <2>2 DEF Shape
    <3>2. \A h \in Handles : pl[h] = k => h = g
      BY <1>1, <3>1 DEF Shape
    <3>3. (CHOOSE h \in Handles : pl[h] = k) = g
      BY <3>1, <3>2
    <3>4. W[k] = Ops(lg[g])
      BY <2>2, <3>3 DEF WorkOf
    <3>5. lg[g] \in Seq(Items)
      BY DEF Shape
    <3>6. Ops(lg[g]) \in Seq(Operations)
      BY <3>5, OpsIs
    <3> QED
      BY <2>2, <3>2, <3>4, <3>6
  <2> QED
    BY <2>1, <2>2
<1> HIDE DEF W
<1>4. W \in Seq(Seq(Operations)) /\ Len(W) = Len(q)
  BY <1>1, <1>2, <1>3
<1>5. \A h \in Handles : pl[h] # 0 => pl[h] \in 1 .. Len(q)
  BY DEF Shape
<1> QED
  BY <1>1, <1>3, <1>4, <1>5 DEF Histories, W

(* and no other history does. *)
LEMMA WorkIsOnly ==
  ASSUME NEW q, NEW pl, NEW lg, Shape(q, pl, lg), NEW W \in Histories, Len(W) = Len(q),
         \A k \in 1 .. Len(q) : q[k].ready => W[k] = q[k].ops,
         \A h \in Handles : pl[h] # 0 => W[pl[h]] = Ops(lg[h])
  PROVE  WorkOf(q, pl, lg) = W
<1> DEFINE U == WorkOf(q, pl, lg)
<1>1. /\ U \in Histories /\ Len(U) = Len(q) /\ Len(q) \in Nat
      /\ \A k \in 1 .. Len(q) : q[k].ready => U[k] = q[k].ops
      /\ \A h \in Handles : pl[h] # 0 => U[pl[h]] = Ops(lg[h])
  BY WorkIs
<1>2. ASSUME NEW k \in 1 .. Len(q) PROVE U[k] = W[k]
  <2>1. CASE q[k].ready
    BY <1>1, <2>1
  <2>2. CASE ~q[k].ready
    <3>1. PICK h \in Handles : pl[h] = k
      BY <2>2 DEF Shape
    <3> QED
      BY <1>1, <3>1
  <2> QED
    BY <2>1, <2>2
<1> HIDE DEF U
<1>3. U \in Seq(Seq(Operations)) /\ W \in Seq(Seq(Operations)) /\ Len(U) = Len(W)
  BY <1>1 DEF Histories
<1>4. U = W
  BY <1>1, <1>2, <1>3, SeqEqual
<1> QED
  BY <1>4 DEF U

(* Changes of the queue and of logs. *)
Updated(new, old, h, x) == new = [old EXCEPT ![h] = x]
Linked(new, q, t, r) ==
  new = Append(q, [type |-> t, ops |-> <<>>, garbage |-> {}, ready |-> r])
Filled(new, q, k, ops, S) ==
  new = [q EXCEPT ![k] = [type |-> "COMMIT", ops |-> ops, garbage |-> S, ready |-> TRUE]]

(* A log changes whose transaction is not in the queue yet: the history is the
   same. *)
LEMMA LogShape ==
  ASSUME NEW q, NEW pl, NEW lg, Shape(q, pl, lg), NEW h \in Handles, pl[h] = 0,
         NEW items \in Seq(Items), NEW new, Updated(new, lg, h, items)
  PROVE  Shape(q, pl, new) /\ WorkOf(q, pl, new) = WorkOf(q, pl, lg)
<1>1. /\ new \in [Handles -> Seq(Items)] /\ new[h] = items
      /\ \A g \in Handles : g # h => new[g] = lg[g]
  BY DEF Shape, Updated
<1>2. Shape(q, pl, new)
  BY <1>1 DEF Shape
<1> DEFINE W == WorkOf(q, pl, lg)
<1>3. /\ W \in Histories /\ Len(W) = Len(q)
      /\ \A k \in 1 .. Len(q) : q[k].ready => W[k] = q[k].ops
      /\ \A g \in Handles : pl[g] # 0 => W[pl[g]] = Ops(lg[g])
  BY WorkIs
<1>4. \A g \in Handles : pl[g] # 0 => W[pl[g]] = Ops(new[g])
  BY <1>1, <1>3
<1> HIDE DEF W
<1>5. WorkOf(q, pl, new) = W
  BY <1>2, <1>3, <1>4, WorkIsOnly
<1> QED
  BY <1>2, <1>5 DEF W

(* A job more. *)
LEMMA LinkShape ==
  ASSUME NEW q, NEW pl, NEW lg, Shape(q, pl, lg), NEW new, NEW t \in {"COMMIT", "START_DUMP"},
         NEW r \in BOOLEAN, Linked(new, q, t, r)
  PROVE  /\ Len(new) = Len(q) + 1 /\ Len(q) \in Nat /\ new \in Seq(QueueJobs)
         /\ \A k \in 1 .. Len(q) : new[k] = q[k]
         /\ new[Len(q) + 1] = [type |-> t, ops |-> <<>>, garbage |-> {}, ready |-> r]
<1> DEFINE j == [type |-> t, ops |-> <<>>, garbage |-> {}, ready |-> r]
<1>1. <<>> \in Seq(Operations) /\ q \in Seq(QueueJobs)
  BY NoOps DEF Shape
<1>2. j \in QueueJobs
  BY <1>1 DEF QueueJobs
<1>3. new = Append(q, j)
  BY DEF Linked
<1> HIDE DEF j
<1>4. /\ Len(new) = Len(q) + 1 /\ Len(q) \in Nat /\ new \in Seq(QueueJobs)
      /\ \A k \in 1 .. Len(q) : new[k] = q[k]
      /\ new[Len(q) + 1] = j
  BY <1>1, <1>2, <1>3
<1> QED
  BY <1>4 DEF j

(* The job is of a transaction. *)
Pushed(q, pl, lg, h, nq, npl) ==
  /\ Shape(q, pl, lg) /\ h \in Handles /\ pl[h] = 0
  /\ Linked(nq, q, "COMMIT", FALSE) /\ Updated(npl, pl, h, Len(nq))

LEMMA PushShape ==
  ASSUME NEW q, NEW pl, NEW lg, NEW h, NEW nq, NEW npl, Pushed(q, pl, lg, h, nq, npl)
  PROVE  /\ Shape(nq, npl, lg) /\ Len(nq) = Len(q) + 1
         /\ WorkOf(nq, npl, lg) = Append(WorkOf(q, pl, lg), Ops(lg[h]))
<1> DEFINE n == Len(q)
           W == WorkOf(q, pl, lg)
           U == Append(W, Ops(lg[h]))
<1>0. /\ Shape(q, pl, lg) /\ h \in Handles /\ pl[h] = 0
      /\ Linked(nq, q, "COMMIT", FALSE) /\ Updated(npl, pl, h, Len(nq))
  BY DEF Pushed
<1>1. /\ n \in Nat /\ Len(nq) = n + 1 /\ nq \in Seq(QueueJobs)
      /\ \A k \in 1 .. n : nq[k] = q[k]
      /\ nq[n + 1] = [type |-> "COMMIT", ops |-> <<>>, garbage |-> {}, ready |-> FALSE]
  BY <1>0, LinkShape
<1>2. /\ npl \in [Handles -> Nat] /\ npl[h] = n + 1
      /\ \A g \in Handles : g # h => npl[g] = pl[g]
  BY <1>0, <1>1 DEF Shape, Updated
<1>3. lg \in [Handles -> Seq(Items)] /\ \A g \in Handles : pl[g] # 0 => pl[g] \in 1 .. n
  BY <1>0 DEF Shape
<1>4. \A g \in Handles : npl[g] # 0 => npl[g] \in 1 .. Len(nq) /\ ~nq[npl[g]].ready
  <2>1. \A g \in Handles : pl[g] # 0 => ~q[pl[g]].ready
    BY <1>0 DEF Shape
  <2>2. ~nq[n + 1].ready
    BY <1>0, <1>1
  <2>3. ASSUME NEW g \in Handles, g # h, npl[g] # 0
        PROVE  npl[g] \in 1 .. Len(nq) /\ ~nq[npl[g]].ready
    <3>1. npl[g] = pl[g] /\ pl[g] \in 1 .. n /\ ~q[pl[g]].ready
      BY <1>0, <1>2, <1>3, <2>1, <2>3
    <3> QED
      BY <1>0, <1>1, <3>1
  <2>4. npl[h] \in 1 .. Len(nq) /\ ~nq[npl[h]].ready
    BY <1>0, <1>1, <1>2, <2>2
  <2> QED
    BY <1>0, <2>3, <2>4
<1>5. \A f, g \in Handles : npl[f] = npl[g] /\ f # g => npl[f] = 0
  BY <1>0, <1>1, <1>2, <1>3 DEF Shape
<1>6. ASSUME NEW k \in 1 .. n + 1
      PROVE  /\ ~nq[k].ready => nq[k].type = "COMMIT" /\ \E g \in Handles : npl[g] = k
             /\ ~nq[k].ready \/ nq[k].type = "START_DUMP" => nq[k].ops = <<>> /\ nq[k].garbage = {}
  <2>1. CASE k = n + 1
    BY <1>0, <1>1, <1>2, <2>1
  <2>2. CASE k \in 1 .. n
    <3>1. /\ ~q[k].ready => q[k].type = "COMMIT" /\ \E g \in Handles : pl[g] = k
          /\ ~q[k].ready \/ q[k].type = "START_DUMP" => q[k].ops = <<>> /\ q[k].garbage = {}
      BY <1>0, <2>2 DEF Shape
    <3>2. ASSUME NEW g \in Handles, pl[g] = k PROVE npl[g] = k
      BY <1>0, <1>1, <1>2, <2>2, <3>2
    <3> QED
      BY <1>0, <1>1, <2>2, <3>1, <3>2
  <2> QED
    BY <1>0, <1>1, <2>1, <2>2
<1>7. Shape(nq, npl, lg)
  BY <1>0, <1>1, <1>2, <1>3, <1>4, <1>5, <1>6 DEF Shape
<1>8. /\ W \in Seq(Seq(Operations)) /\ Len(W) = n
      /\ \A k \in 1 .. n : q[k].ready => W[k] = q[k].ops
      /\ \A g \in Handles : pl[g] # 0 => W[pl[g]] = Ops(lg[g])
  BY <1>0, WorkIs DEF Histories
<1>9. Ops(lg[h]) \in Seq(Operations)
  BY <1>0, <1>3, OpsIs
<1> HIDE DEF W
<1>10. /\ U \in Seq(Seq(Operations)) /\ Len(U) = n + 1 /\ U[n + 1] = Ops(lg[h])
       /\ \A k \in 1 .. n : U[k] = W[k]
  BY <1>0, <1>1, <1>8, <1>9
<1> HIDE DEF U
<1>11. \A k \in 1 .. Len(nq) : nq[k].ready => U[k] = nq[k].ops
  BY <1>0, <1>1, <1>8, <1>10
<1>12. ASSUME NEW g \in Handles, npl[g] # 0 PROVE U[npl[g]] = Ops(lg[g])
  <2>1. CASE g = h
    BY <1>0, <1>2, <1>10, <2>1
  <2>2. CASE g # h
    <3>1. npl[g] = pl[g] /\ pl[g] \in 1 .. n /\ W[pl[g]] = Ops(lg[g])
      BY <1>0, <1>2, <1>3, <1>8, <1>12, <2>2
    <3> QED
      BY <1>0, <1>10, <3>1
  <2> QED
    BY <1>0, <2>1, <2>2
<1> HIDE DEF n
<1>13. U \in Histories /\ Len(U) = Len(nq)
  BY <1>0, <1>1, <1>10 DEF Histories
<1>14. WorkOf(nq, npl, lg) = U
  BY <1>0, <1>7, <1>11, <1>12, <1>13, WorkIsOnly
<1> QED
  BY <1>0, <1>1, <1>7, <1>14 DEF U, W, n

(* The job is a request for a dump. *)
LEMMA AskShape ==
  ASSUME NEW q, NEW pl, NEW lg, Shape(q, pl, lg), NEW nq, Linked(nq, q, "START_DUMP", TRUE)
  PROVE  /\ Shape(nq, pl, lg) /\ Len(nq) = Len(q) + 1
         /\ WorkOf(nq, pl, lg) = Append(WorkOf(q, pl, lg), <<>>)
<1> DEFINE n == Len(q)
           W == WorkOf(q, pl, lg)
           U == Append(W, <<>>)
<1>1. /\ n \in Nat /\ Len(nq) = n + 1 /\ nq \in Seq(QueueJobs)
      /\ \A k \in 1 .. n : nq[k] = q[k]
      /\ nq[n + 1] = [type |-> "START_DUMP", ops |-> <<>>, garbage |-> {}, ready |-> TRUE]
  BY LinkShape
<1>2. \A g \in Handles : pl[g] # 0 => pl[g] \in 1 .. n
  BY DEF Shape
<1>3. ASSUME NEW k \in 1 .. n + 1
      PROVE  /\ ~nq[k].ready => nq[k].type = "COMMIT" /\ \E g \in Handles : pl[g] = k
             /\ ~nq[k].ready \/ nq[k].type = "START_DUMP" => nq[k].ops = <<>> /\ nq[k].garbage = {}
  <2>1. CASE k = n + 1
    BY <1>1, <2>1
  <2>2. CASE k \in 1 .. n
    BY <1>1, <2>2 DEF Shape
  <2> QED
    BY <1>1, <2>1, <2>2
<1>4. Shape(nq, pl, lg)
  <2>1. \A g \in Handles : pl[g] # 0 => pl[g] \in 1 .. Len(nq) /\ ~nq[pl[g]].ready
    BY <1>1, <1>2 DEF Shape
  <2>2. /\ lg \in [Handles -> Seq(Items)] /\ pl \in [Handles -> Nat]
        /\ \A f, g \in Handles : pl[f] = pl[g] /\ f # g => pl[f] = 0
    BY DEF Shape
  <2> QED
    BY <1>1, <1>3, <2>1, <2>2 DEF Shape
<1>5. /\ W \in Seq(Seq(Operations)) /\ Len(W) = n
      /\ \A k \in 1 .. n : q[k].ready => W[k] = q[k].ops
      /\ \A g \in Handles : pl[g] # 0 => W[pl[g]] = Ops(lg[g])
  BY WorkIs DEF Histories
<1>6. <<>> \in Seq(Operations)
  BY NoOps
<1> HIDE DEF W
<1>7. /\ U \in Seq(Seq(Operations)) /\ Len(U) = n + 1 /\ U[n + 1] = <<>>
      /\ \A k \in 1 .. n : U[k] = W[k]
  BY <1>1, <1>5, <1>6
<1> HIDE DEF U
<1>8. ASSUME NEW k \in 1 .. Len(nq), nq[k].ready PROVE U[k] = nq[k].ops
  <2>1. CASE k = n + 1
    <3>1. nq[n + 1].ops = <<>>
      BY <1>1
    <3> QED
      BY <1>7, <2>1, <3>1
  <2>2. CASE k \in 1 .. n
    BY <1>1, <1>5, <1>7, <1>8, <2>2
  <2>3. k = n + 1 \/ k \in 1 .. n
    BY <1>1
  <2> QED
    BY <2>1, <2>2, <2>3
<1>9. \A g \in Handles : pl[g] # 0 => U[pl[g]] = Ops(lg[g])
  BY <1>2, <1>5, <1>7
<1> HIDE DEF n
<1>10. U \in Histories /\ Len(U) = Len(nq)
  BY <1>1, <1>7 DEF Histories
<1>11. WorkOf(nq, pl, lg) = U
  BY <1>4, <1>8, <1>9, <1>10, WorkIsOnly
<1> QED
  BY <1>1, <1>4, <1>11 DEF U, W, n

(* A transaction fills its job, or leaves it empty. *)
Refilled(q, pl, lg, h, ops, S, nq, npl, nlg) ==
  /\ Shape(q, pl, lg) /\ h \in Handles /\ pl[h] # 0
  /\ ops \in Seq(Operations) /\ S \subseteq Slots /\ Filled(nq, q, pl[h], ops, S)
  /\ Updated(npl, pl, h, 0) /\ Updated(nlg, lg, h, <<>>)

LEMMA FillShape ==
  ASSUME NEW q, NEW pl, NEW lg, NEW h, NEW ops, NEW S, NEW nq, NEW npl, NEW nlg,
         Refilled(q, pl, lg, h, ops, S, nq, npl, nlg)
  PROVE  /\ Shape(nq, npl, nlg) /\ Len(nq) = Len(q) /\ pl[h] \in 1 .. Len(q)
         /\ nq[pl[h]].ready /\ nq[pl[h]].ops = ops /\ nq[pl[h]].garbage = S
         /\ \A k \in 1 .. Len(q) : k # pl[h] => nq[k] = q[k]
         /\ \A k \in 1 .. Len(q) :
              WorkOf(nq, npl, nlg)[k] = IF k = pl[h] THEN ops ELSE WorkOf(q, pl, lg)[k]
<1> DEFINE n == Len(q)
           p == pl[h]
           j == [type |-> "COMMIT", ops |-> ops, garbage |-> S, ready |-> TRUE]
           W == WorkOf(q, pl, lg)
           U == [W EXCEPT ![p] = ops]
<1>0. /\ Shape(q, pl, lg) /\ h \in Handles /\ pl[h] # 0
      /\ ops \in Seq(Operations) /\ S \subseteq Slots /\ Filled(nq, q, pl[h], ops, S)
      /\ Updated(npl, pl, h, 0) /\ Updated(nlg, lg, h, <<>>)
  BY DEF Refilled
<1>1. n \in Nat /\ p \in 1 .. n /\ q \in Seq(QueueJobs)
  BY <1>0 DEF Shape
<1>2. j \in QueueJobs
  BY <1>0 DEF QueueJobs
<1>3. nq = [q EXCEPT ![p] = j]
  BY <1>0 DEF Filled
<1> HIDE DEF j
<1>4. /\ Len(nq) = n /\ nq \in Seq(QueueJobs) /\ nq[p] = j
      /\ \A k \in 1 .. n : k # p => nq[k] = q[k]
  BY <1>0, <1>1, <1>2, <1>3
<1>5. j.type = "COMMIT" /\ j.ready = TRUE /\ j.ops = ops /\ j.garbage = S
  BY <1>0 DEF j
<1>6. /\ npl \in [Handles -> Nat] /\ npl[h] = 0
      /\ \A g \in Handles : g # h => npl[g] = pl[g]
  BY <1>0 DEF Shape, Updated
<1>7. /\ nlg \in [Handles -> Seq(Items)] /\ nlg[h] = <<>>
      /\ \A g \in Handles : g # h => nlg[g] = lg[g]
  BY <1>0, NoItems DEF Shape, Updated
<1>8. \A g \in Handles : g # h => pl[g] # p
  BY <1>0, <1>1 DEF Shape
<1>9. Shape(nq, npl, nlg)
  <2>1. ASSUME NEW g \in Handles, npl[g] # 0
        PROVE  npl[g] \in 1 .. Len(nq) /\ ~nq[npl[g]].ready
    <3>1. npl[g] = pl[g] /\ pl[g] # p
      BY <1>0, <1>6, <1>8, <2>1
    <3>2. pl[g] \in 1 .. n /\ ~q[pl[g]].ready
      BY <1>0, <2>1, <3>1 DEF Shape
    <3> QED
      BY <1>0, <1>4, <3>1, <3>2
  <2>2. \A f, g \in Handles : npl[f] = npl[g] /\ f # g => npl[f] = 0
    BY <1>0, <1>6 DEF Shape
  <2>3. ASSUME NEW k \in 1 .. n
        PROVE  /\ ~nq[k].ready => nq[k].type = "COMMIT" /\ \E g \in Handles : npl[g] = k
               /\ ~nq[k].ready \/ nq[k].type = "START_DUMP" => nq[k].ops = <<>> /\ nq[k].garbage = {}
    <3>1. CASE k = p
      BY <1>0, <1>4, <1>5, <3>1
    <3>2. CASE k # p
      <4>1. /\ ~q[k].ready => q[k].type = "COMMIT" /\ \E g \in Handles : pl[g] = k
            /\ ~q[k].ready \/ q[k].type = "START_DUMP" => q[k].ops = <<>> /\ q[k].garbage = {}
        BY <1>0 DEF Shape
      <4>2. ASSUME NEW g \in Handles, pl[g] = k PROVE npl[g] = k
        BY <1>0, <1>6, <3>2, <4>2
      <4> QED
        BY <1>0, <1>4, <3>2, <4>1, <4>2
    <3> QED
      BY <1>0, <3>1, <3>2
  <2> QED
    BY <1>0, <1>4, <1>6, <1>7, <2>1, <2>2, <2>3 DEF Shape
<1>10. /\ W \in Seq(Seq(Operations)) /\ Len(W) = n
       /\ \A k \in 1 .. n : q[k].ready => W[k] = q[k].ops
       /\ \A g \in Handles : pl[g] # 0 => pl[g] \in 1 .. n /\ W[pl[g]] = Ops(lg[g])
  BY <1>0, WorkIs DEF Histories
<1> HIDE DEF W
<1>11. /\ U \in Seq(Seq(Operations)) /\ Len(U) = n /\ U[p] = ops
       /\ \A k \in 1 .. n : k # p => U[k] = W[k]
  BY <1>0, <1>1, <1>10
<1> HIDE DEF U
<1>12. \A k \in 1 .. Len(nq) : nq[k].ready => U[k] = nq[k].ops
  BY <1>0, <1>4, <1>5, <1>10, <1>11
<1>13. ASSUME NEW g \in Handles, npl[g] # 0 PROVE U[npl[g]] = Ops(nlg[g])
  <2>1. g # h /\ npl[g] = pl[g] /\ pl[g] # p /\ nlg[g] = lg[g]
    BY <1>0, <1>6, <1>7, <1>8, <1>13
  <2>2. pl[g] \in 1 .. n /\ W[pl[g]] = Ops(lg[g])
    BY <1>0, <1>10, <1>13, <2>1
  <2> QED
    BY <1>0, <1>11, <2>1, <2>2
<1>14. U \in Histories /\ Len(U) = Len(nq)
  BY <1>0, <1>4, <1>11 DEF Histories
<1> HIDE DEF n, p
<1>15. WorkOf(nq, npl, nlg) = U
  BY <1>0, <1>9, <1>12, <1>13, <1>14, WorkIsOnly
<1> QED
  BY <1>0, <1>1, <1>4, <1>5, <1>9, <1>11, <1>15 DEF U, W, n, p

(* What it fills it with. *)
LEMMA FillIs ==
  ASSUME NEW q, NEW pl, NEW lg, Shape(q, pl, lg), NEW h \in Handles, pl[h] # 0
  PROVE  /\ Filled([q EXCEPT ![pl[h]] = [@ EXCEPT !.ops = Ops(lg[h]),
                      !.garbage = SlotsOf(lg[h], "DELETED"), !.ready = TRUE]],
                   q, pl[h], Ops(lg[h]), SlotsOf(lg[h], "DELETED"))
         /\ Filled([q EXCEPT ![pl[h]].ready = TRUE], q, pl[h], <<>>, {})
         /\ SlotsOf(lg[h], "DELETED") \subseteq Slots /\ Ops(lg[h]) \in Seq(Operations)
<1> DEFINE p == pl[h]
<1>1. p \in 1 .. Len(q) /\ ~q[p].ready /\ q \in Seq(QueueJobs) /\ lg[h] \in Seq(Items)
  BY DEF Shape
<1>2. q[p].type = "COMMIT" /\ q[p].ops = <<>> /\ q[p].garbage = {}
  BY <1>1 DEF Shape
<1>3. q[p] \in QueueJobs
  BY <1>1
<1> HIDE DEF p
<1>4. q[p] = [type |-> "COMMIT", ops |-> <<>>, garbage |-> {}, ready |-> FALSE]
  BY <1>1, <1>2, <1>3 DEF QueueJobs
<1> DEFINE Is(r, ops, S, b) == r = [type |-> "COMMIT", ops |-> ops, garbage |-> S, ready |-> b]
<1>5. PICK r : r = q[p]
  OBVIOUS
<1>7. /\ Is([q[p] EXCEPT !.ops = Ops(lg[h]), !.garbage = SlotsOf(lg[h], "DELETED"), !.ready = TRUE],
            Ops(lg[h]), SlotsOf(lg[h], "DELETED"), TRUE)
      /\ Is([q[p] EXCEPT !.ready = TRUE], <<>>, {}, TRUE)
  <2>1. Is(r, <<>>, {}, FALSE)
    BY <1>4, <1>5
  <2>2. PICK o, G : o = Ops(lg[h]) /\ G = SlotsOf(lg[h], "DELETED")
    OBVIOUS
  <2>3. PICK a : a = [r EXCEPT !.ready = TRUE]
    OBVIOUS
  <2>4. Is(a, <<>>, {}, TRUE)
    BY ONLY <2>1, <2>3
  <2>5. PICK b : b = [r EXCEPT !.ops = o]
    OBVIOUS
  <2>6. Is(b, o, {}, FALSE)
    BY ONLY <2>1, <2>5
  <2>7. PICK c : c = [b EXCEPT !.garbage = G]
    OBVIOUS
  <2>8. Is(c, o, G, FALSE)
    BY ONLY <2>6, <2>7
  <2>9. PICK d : d = [c EXCEPT !.ready = TRUE]
    OBVIOUS
  <2>10. Is(d, o, G, TRUE)
    BY ONLY <2>8, <2>9
  <2> HIDE DEF Is
  <2>11. d = [r EXCEPT !.ops = o, !.garbage = G, !.ready = TRUE]
    BY <2>5, <2>7, <2>9
  <2>12. Is([r EXCEPT !.ops = o, !.garbage = G, !.ready = TRUE], o, G, TRUE)
    BY <2>10, <2>11
  <2> QED
    BY <1>5, <2>2, <2>3, <2>4, <2>12
<1>6. SlotsOf(lg[h], "DELETED") \subseteq Slots /\ Ops(lg[h]) \in Seq(Operations)
  BY <1>1, OpsIs DEF SlotsOf
<1> QED
  BY <1>1, <1>6, <1>7 DEF Filled, p

-----------------------------------------------------------------------------
(* The invariant.  What the state is made of: *)

Types ==
  /\ id \in [Slots -> Nat] /\ value \in [Slots -> Values]
  /\ owner \in [Slots -> Handles \cup {NoOwner}]
  /\ counter \in StartNodes .. MaxId /\ \A s \in Slots : id[s] <= counter
  /\ Shape(queue, place, log)
  /\ taken \in 0 .. Len(queue) /\ svc \in {"wait", "job", "dump"} /\ dumping \in BOOLEAN
  /\ (svc = "wait" => ~dumping) /\ (svc = "dump" => dumping) /\ (svc = "job" => taken # 0)
  /\ cursor \in Nat /\ (cursor # 0 => dumping /\ cursor \in Slots /\ id[cursor] # 0)
  /\ \A k \in 1 .. Written : queue[k].ready
  /\ file \in Seq(Records) /\ began \in 0 .. Written /\ overtaken \in 0 .. Len(queue)

(* Nobody does more than MaxOps operations, or works on a node that has no id
   yet. *)
Bounded(ops) == Len(ops) <= MaxOps /\ \A i \in Nat : Touched(ops, i) => i <= counter
WorkBounded ==
  /\ \A h \in Handles : Bounded(Ops(log[h]))
  /\ \A k \in 1 .. Len(queue) : Bounded(Work[k])

(* A transaction that may still fail, and the jobs before its own. *)
Undecided(h) == place[h] = 0 \/ Owns(h) # {}
Before(h) == IF place[h] = 0 THEN Len(queue) ELSE place[h] - 1

(* Node i is changed by transaction h. *)
By(h, i) == Touched(Ops(log[h]), i)

(* Each node has one place.  What is logged is about the node that is there,
   and its lock is held while the transaction may fail, by which no transaction
   of a later place has changed the node. *)
IdsUnique == \A s, t \in Slots : id[s] = id[t] /\ id[s] # 0 => s = t
ItemsOnNodes ==
  \A h \in Handles : \A x \in DOMAIN log[h] : id[log[h][x].slot] = log[h][x].op.id
ItemsLocked ==
  \A h \in Handles : Undecided(h) => \A x \in DOMAIN log[h] : owner[log[h][x].slot] = h
LocksUsed ==
  \A s \in Slots : owner[s] \in Handles => \E x \in DOMAIN log[owner[s]] : log[owner[s]][x].slot = s
NobodyAfter ==
  \A h \in Handles : Queued(h) /\ Owns(h) # {} =>
    \A k \in place[h] + 1 .. Len(queue) : \A i \in Ids : By(h, i) => ~Touched(Work[k], i)
LockInv == IdsUnique /\ ItemsOnNodes /\ ItemsLocked /\ LocksUsed /\ NobodyAfter

(* The jobs make a history, and each transaction that may fail goes on with it. *)
LogsFit == \A h \in Handles : Fits(Work, Before(h), Ops(log[h]))

(* A node in memory has not been deleted by a job that was written; it has the
   value that its owner, or else the last job, gave it. *)
LiveNotGone == \A s \in Slots : Live(s) => Last(Work, Written, id[s]).op # "DELETED"
Shows(o, v) == o.op # "NONE" /\ (o.op = "DELETED" \/ ValueIn(o) = v)
ValuesShown ==
  \A s \in Slots : Live(s) =>
    /\ owner[s] \in Handles => Shows(LastOp(Ops(log[owner[s]]), id[s]), value[s])
    /\ owner[s] = NoOwner => Shows(Last(Work, Len(queue), id[s]), value[s])

(* A node that was created is in memory until the job that deletes it is
   written. *)
NodesThere ==
  \A i \in Ids : Last(Work, Len(queue), i).op # "NONE" /\ Last(Work, Written, i).op # "DELETED"
    => \E s \in Slots : id[s] = i
GarbageIs ==
  \A k \in Written + 1 .. Len(queue) : queue[k].ready =>
    \A s \in Slots : s \in queue[k].garbage <=> Deletes(Work[k], id[s])

(* The value that is put back is the one of the jobs before. *)
OldShown ==
  \A s \in Slots : owner[s] \in Handles /\ ~Creates(Ops(log[owner[s]]), id[s]) =>
    LET o == Last(Work, Before(owner[s]), id[s])
    IN  Exists(o) /\ ValueIn(o) = OldIn(log[owner[s]], s)

MemInv ==
  /\ Valid(Work) /\ LogsFit /\ LiveNotGone /\ ValuesShown /\ NodesThere /\ GarbageIs /\ OldShown

(* What node i is after k jobs, if it is there: its value. *)
Now(V, k, i) ==
  IF i \in Ids /\ Exists(Last(V, k, i)) THEN {ValueIn(Last(V, k, i))} ELSE {}
StateOf(V, k) == [i \in {i \in Ids : Exists(Last(V, k, i))} |-> ValueIn(Last(V, k, i))]

(* The present file, read after the older ones, gives what the jobs written
   leave. *)
AfterOlder(V) == ReadAll([L!Nothing EXCEPT !.nodes = StateOf(V, began)], file, FALSE)
Reached(d, V, k, on) ==
  /\ IsLoaded(d) /\ d.ghosts = {} /\ d.magic = 0 /\ d.dumpOn = on /\ d.status = "READING"
  /\ \A i : Holds(d, i) = Now(V, k, i)
LastInv == Reached(AfterOlder(Work), Work, Written, dumping)

(* Where the file creates node i, and where it dumps it. *)
CreatedAt(f, i) == {k \in DOMAIN f : f[k].kind = "transaction" /\ Creates(f[k].ops, i)}
DumpedAt(f, i) == {k \in DOMAIN f : f[k].kind = "dumped" /\ f[k].id = i}
EarlyIn(f) == \E i \in Ids : \E k \in CreatedAt(f, i), l \in DumpedAt(f, i) : k < l

(* The present file on its own.  A node it holds has the value that some job
   gives it, one that is written or was linked when the dump ended: *)
HasDump == dumping \/ overtaken > 0
Horizon ==
  IF dumping THEN Len(queue) ELSE IF overtaken > Written THEN overtaken ELSE Written
Firm(n, i) == \A h \in Handles : Queued(h) /\ Owns(h) # {} /\ By(h, i) => n < place[h]
Settled(V, n, i, v) ==
  Firm(n, i) /\ Shows(Last(V, n, i), v)
Right(V, f, i, x) ==
  \A v \in x :
    /\ i \in Ids /\ Last(V, Written, i).op # "DELETED"
    /\ CreatedAt(f, i) # {} \/ DumpedAt(f, i) # {}
    /\ \E n \in Written .. Horizon : Settled(V, n, i, v)

(* and a node it does not hold is still to be dumped, and was not created since
   the dump began. *)
Ahead(f, i) == CreatedAt(f, i) = {} /\ cursor # 0 /\ \E s \in Slots : s >= cursor /\ id[s] = i
Whole(V, f, i, x) == i \in Ids /\ Exists(Last(V, Written, i)) /\ x = {} => Ahead(f, i)

OnItsOwn == ReadAll(L!Nothing, file, TRUE)
Alone(d, V, f) ==
  IF EarlyIn(f) THEN d.status = "CORRUPTED"
  ELSE /\ IsLoaded(d) /\ d.status = "READING" /\ d.dumpOn = dumping
       /\ \A i : Right(V, f, i, Holds(d, i)) /\ Whole(V, f, i, Holds(d, i))

BeginsWithMark == file # <<>> /\ file[1] = L!DumpBegin
DumpsGivenOut == \A i \in Ids : DumpedAt(file, i) # {} => i <= counter
CreationsShown == \A i \in Ids : CreatedAt(file, i) # {} => Last(Work, Written, i).op # "NONE"
WalkedPast ==
  \A s \in Slots : Live(s) /\ DumpedAt(file, id[s]) # {} => cursor = 0 \/ s < cursor
FirstInv ==
  HasDump =>
    BeginsWithMark /\ DumpsGivenOut /\ CreationsShown /\ WalkedPast /\ Alone(OnItsOwn, Work, file)

-----------------------------------------------------------------------------
(* Steps *)

(* The next node of the walk. *)
LEMMA NextNodeIs ==
  ASSUME NEW ids \in [Slots -> Nat], NEW c \in Nat, NEW n, n = NextNode(ids, c)
  PROVE  /\ n \in Nat /\ (n # 0 => n \in Slots /\ ids[n] # 0 /\ n > c)
         /\ \A t \in Slots : t > c /\ ids[t] # 0 => n # 0 /\ n <= t
<1> DEFINE S == {t \in Slots : t > c /\ ids[t] # 0}
<1>1. n = IF S = {} THEN 0 ELSE SmallestOf(S)
  BY DEF NextNode
<1>2. Slots \subseteq Nat \ {0}
  BY DumpAssumption, FS_CardinalityType
<1>3. CASE S = {}
  BY <1>1, <1>3
<1>4. CASE S # {}
  <2>1. S \subseteq Nat
    BY <1>2
  <2>2. SmallestOf(S) \in S /\ \A m \in S : SmallestOf(S) <= m
    BY ONLY <1>4, <2>1, SmallestExists
  <2>3. n \in S /\ \A m \in S : n <= m
    BY <1>1, <1>4, <2>2
  <2> QED
    BY <1>2, <2>3
<1> QED
  BY <1>3, <1>4

(* An operation on the node at s, by a transaction that is not in the queue. *)
Does(h, s, o) ==
  /\ h \in Handles /\ s \in Slots /\ o \in Operations
  /\ place[h] = 0 /\ owner[s] \in {h, NoOwner} /\ Len(log[h]) < MaxOps
  /\ IF o.op = "CREATED"
       THEN id[s] = 0 /\ owner[s] = NoOwner /\ o.id = counter + 1 /\ counter' = counter + 1
       ELSE id[s] = o.id /\ ~Doomed(s) /\ counter' = counter
  /\ counter' <= MaxId
  /\ Updated(id', id, s, o.id) /\ Updated(owner', owner, s, h)
  /\ Updated(value', value, s, IF o.op = "DELETED" THEN value[s] ELSE ValueIn(o))
  /\ Updated(log', log, h, Append(log[h], [slot |-> s, op |-> o, old |-> value[s]]))
  /\ UNCHANGED <<place, queue, service, disk>>

LEMMA DoesSomething ==
  ASSUME Types, NEW h \in Handles, NEW s \in Slots,
         NodeCreate(h, s) \/ NodeDelete(h, s) \/ \E v \in Values : NodeModify(h, s, v)
  PROVE  \E o \in Operations : Does(h, s, o)
<1>1. /\ id \in [Slots -> Nat] /\ value \in [Slots -> Values] /\ counter \in Nat
      /\ counter <= MaxId /\ MaxId \in Nat /\ \A t \in Slots : id[t] <= counter
      /\ owner \in [Slots -> Handles \cup {NoOwner}]
  BY DumpAssumption DEF Types
<1>2. CASE NodeCreate(h, s)
  <2>1. counter + 1 \in Ids
    BY <1>1, <1>2 DEF NodeCreate, Ids
  <2>2. PICK o : o = L!Created(counter + 1)
    OBVIOUS
  <2>3. o \in Operations /\ o.op = "CREATED" /\ o.id = counter + 1
    BY <2>1, <2>2, OpFields DEF Operations
  <2>4. ValueIn(o) = InitValue
    BY <2>3 DEF ValueIn
  <2>5. counter' = counter + 1 /\ counter' <= MaxId
    BY <1>1, <1>2 DEF NodeCreate
  <2>6. Updated(value', value, s, IF o.op = "DELETED" THEN value[s] ELSE ValueIn(o))
    BY <1>2, <2>3, <2>4 DEF NodeCreate, Updated
  <2>7. Updated(id', id, s, o.id) /\ id[s] = 0 /\ owner[s] = NoOwner
    BY <1>2, <2>3 DEF NodeCreate, Updated, Live
  <2>8. /\ Updated(owner', owner, s, h) /\ place[h] = 0 /\ Len(log[h]) < MaxOps
        /\ Updated(log', log, h, Append(log[h], [slot |-> s, op |-> o, old |-> value[s]]))
        /\ UNCHANGED <<place, queue, service, disk>>
    BY <1>2, <2>2 DEF NodeCreate, Updated, Logged
  <2>9. Does(h, s, o)
    BY <2>3, <2>5, <2>6, <2>7, <2>8 DEF Does
  <2> QED
    BY <2>3, <2>9
<1>3. CASE NodeDelete(h, s)
  <2>1. id[s] \in Ids
    BY <1>1, <1>3 DEF NodeDelete, Ids, Live
  <2>2. PICK o : o = L!Deleted(id[s])
    OBVIOUS
  <2>3. o \in Operations /\ o.op = "DELETED" /\ o.id = id[s]
    BY <2>1, <2>2, OpFields DEF Operations
  <2>4. Does(h, s, o)
    BY <1>1, <1>3, <2>2, <2>3 DEF NodeDelete, Logged, Does, Updated, Lockable
  <2> QED
    BY <2>3, <2>4
<1>4. ASSUME NEW v \in Values, NodeModify(h, s, v) PROVE \E o \in Operations : Does(h, s, o)
  <2>1. id[s] \in Ids
    BY <1>1, <1>4 DEF NodeModify, Ids, Live
  <2>2. PICK o : o = L!Modified(id[s], v)
    OBVIOUS
  <2>3. o \in Operations /\ o.op = "MODIFIED" /\ o.id = id[s] /\ o.value = v
    BY <2>1, <2>2, OpFields DEF Operations
  <2>4. ValueIn(o) = v
    BY <2>3 DEF ValueIn
  <2>5. Does(h, s, o)
    BY <1>1, <1>4, <2>2, <2>3, <2>4 DEF NodeModify, Logged, Does, Updated, Lockable
  <2> QED
    BY <2>3, <2>5
<1> QED
  BY <1>2, <1>3, <1>4

(* A transaction is given up. *)
GiveUp(h) ==
  /\ h \in Handles /\ (place[h] = 0 \/ Owns(h) # {})
  /\ place[h] = 0 => queue' = queue
  /\ place[h] # 0 => Filled(queue', queue, place[h], <<>>, {})
  /\ Updated(place', place, h, 0) /\ Updated(log', log, h, <<>>)
  /\ owner' = Released(h)
  /\ value' = [s \in Slots |-> IF owner[s] = h THEN OldIn(log[h], s) ELSE value[s]]
  /\ Free(SlotsOf(log[h], "CREATED"))
  /\ UNCHANGED <<counter, taken, svc, tries, dumping, disk>>

LEMMA GivesUp ==
  ASSUME Types, NEW h \in Handles, Abort(h) \/ Invalid(h)
  PROVE  GiveUp(h)
<1>1. \A s : OldValue(h, s) = OldIn(log[h], s)
  BY DEF OldValue, OldIn
<1>2. Shape(queue, place, log)
  BY DEF Types
<1>3. CASE Abort(h)
  BY <1>1, <1>3 DEF Abort, Rollback, Running, GiveUp, Updated
<1>4. CASE Invalid(h)
  <2>1. place[h] # 0 /\ Owns(h) # {}
    BY <1>4 DEF Invalid, Queued
  <2>2. Filled(queue', queue, place[h], <<>>, {})
    BY <1>2, <1>4, <2>1, FillIs DEF Invalid
  <2> QED
    BY <1>1, <1>4, <2>1, <2>2 DEF Invalid, Rollback, GiveUp, Updated
<1> QED
  BY <1>3, <1>4

(* What happens to the history when it is. *)
LEMMA GiveUpShape ==
  ASSUME Types, NEW h, GiveUp(h)
  PROVE  /\ Shape(queue, place, log)' /\ Len(queue') = Len(queue) /\ Len(queue) \in Nat
         /\ place[h] # 0 => /\ place[h] \in 1 .. Len(queue) /\ ~queue[place[h]].ready
                            /\ queue'[place[h]].ready /\ queue'[place[h]].garbage = {}
         /\ \A k \in 1 .. Len(queue) : k # place[h] => queue'[k] = queue[k]
         /\ \A k \in 1 .. Len(queue) : Work'[k] = IF k = place[h] THEN <<>> ELSE Work[k]
<1>1. /\ Shape(queue, place, log) /\ h \in Handles /\ Len(queue) \in Nat
      /\ Updated(place', place, h, 0) /\ Updated(log', log, h, <<>>)
  BY DEF GiveUp, Types, Shape
<1>2. CASE place[h] = 0
  <2>1. PICK e \in Seq(Items) : e = <<>>
    BY NoItems
  <2> DEFINE q == queue
             new == log'
  <2>3. Shape(q, place, log) /\ h \in Handles /\ place[h] = 0 /\ Updated(new, log, h, e)
    BY <1>1, <1>2, <2>1
  <2> HIDE DEF q, new
  <2>2. Shape(q, place, new) /\ WorkOf(q, place, new) = WorkOf(q, place, log)
    BY ONLY <2>3, LogShape
  <2> USE DEF q, new
  <2>4. place' = place /\ queue' = queue
    BY <1>1, <1>2 DEF Updated, GiveUp, Shape
  <2>5. Work' = Work /\ Shape(queue, place, log)'
    BY <2>2, <2>4 DEF Work
  <2>6. \A k \in 1 .. Len(queue) : k # place[h]
    BY <1>2
  <2> QED
    BY <1>1, <1>2, <2>4, <2>5, <2>6
<1>3. CASE place[h] # 0
  <2>1. Filled(queue', queue, place[h], <<>>, {})
    BY <1>3 DEF GiveUp
  <2>2. <<>> \in Seq(Operations) /\ {} \subseteq Slots
    BY NoOps
  <2>3. Refilled(queue, place, log, h, <<>>, {}, queue', place', log')
    BY <1>1, <1>3, <2>1, <2>2 DEF Refilled
  <2>4. /\ Shape(queue', place', log') /\ Len(queue') = Len(queue) /\ place[h] \in 1 .. Len(queue)
        /\ queue'[place[h]].ready /\ queue'[place[h]].garbage = {}
        /\ \A k \in 1 .. Len(queue) : k # place[h] => queue'[k] = queue[k]
        /\ \A k \in 1 .. Len(queue) :
             WorkOf(queue', place', log')[k]
               = IF k = place[h] THEN <<>> ELSE WorkOf(queue, place, log)[k]
    BY ONLY <2>3, FillShape
  <2>5. ~queue[place[h]].ready
    BY <1>1, <1>3 DEF Shape
  <2> QED
    BY <1>1, <2>4, <2>5 DEF Work
<1> QED
  BY <1>2, <1>3

-----------------------------------------------------------------------------
(* What the state is made of. *)

LEMMA Constants ==
  /\ Slots \subseteq Nat /\ 0 \notin Slots /\ NoOwner \notin Handles /\ InitValue \in Values
  /\ StartNodes \in Nat /\ MaxId \in Nat /\ StartNodes <= MaxId /\ MaxOps \in Nat
BY DumpAssumption, FS_CardinalityType

(* The service has written all it took, but for the job it holds. *)
LEMMA WrittenIs ==
  ASSUME Types
  PROVE  /\ Len(queue) \in Nat /\ Written \in 0 .. Len(queue) /\ taken \in Nat
         /\ svc = "job" => Written + 1 = taken /\ taken \in 1 .. Len(queue)
         /\ svc # "job" => Written = taken
<1>1. Len(queue) \in Nat /\ taken \in 0 .. Len(queue) /\ (svc = "job" => taken # 0)
  BY DEF Types, Shape
<1>2. CASE svc = "job"
  <2>1. Written = taken - 1
    BY <1>2 DEF Written
  <2> QED
    BY <1>1, <1>2, <2>1
<1>3. CASE svc # "job"
  <2>1. Written = taken
    BY <1>3 DEF Written
  <2> QED
    BY <1>1, <1>3, <2>1
<1> QED
  BY <1>2, <1>3

(* The first state: nothing is logged, queued or written. *)
LEMMA TypesInit == Init => Types /\ Work = <<>> /\ Written = 0
<1> SUFFICES ASSUME Init PROVE Types /\ Work = <<>> /\ Written = 0
  OBVIOUS
<1>1. /\ id \in [Slots -> Nat] /\ value \in [Slots -> Values]
      /\ owner \in [Slots -> Handles \cup {NoOwner}]
  BY Constants DEF Init
<1>2. counter \in StartNodes .. MaxId /\ \A s \in Slots : id[s] <= counter
  BY Constants DEF Init
<1>3. Shape(queue, place, log)
  <2>1. <<>> \in Seq(QueueJobs) /\ <<>> \in Seq(Items) /\ Len(<<>>) = 0
    OBVIOUS
  <2> QED
    BY <2>1 DEF Init, Shape
<1>4. Written = 0
  BY DEF Init, Written
<1>5. Work = <<>>
  <2>1. Len(queue) = 0
    BY DEF Init
  <2>2. Work \in Seq(Seq(Operations)) /\ Len(Work) = 0
    BY <1>3, <2>1, WorkIs DEF Work, Histories
  <2> QED
    BY <2>2
<1>6. file \in Seq(Records)
  BY DEF Init
<1>7. Len(queue) = 0 /\ taken = 0 /\ began = 0 /\ overtaken = 0
  BY DEF Init
<1>8. (\A k \in 1 .. Written : queue[k].ready) /\ began \in 0 .. Written /\ overtaken \in 0 .. Len(queue)
  BY <1>4, <1>7
<1> QED
  BY <1>1, <1>2, <1>3, <1>4, <1>5, <1>6, <1>7, <1>8 DEF Init, Types

(* An operation more. *)
LEMMA TypesDoes ==
  ASSUME Types, NEW h, NEW s, NEW o, Does(h, s, o)
  PROVE  /\ Types' /\ Work' = Work /\ Written' = Written
         /\ h \in Handles /\ s \in Slots /\ o \in Operations
         /\ id'[s] = o.id /\ owner'[s] = h
         /\ value'[s] = IF o.op = "DELETED" THEN value[s] ELSE ValueIn(o)
         /\ \A t \in Slots : t # s => id'[t] = id[t] /\ value'[t] = value[t] /\ owner'[t] = owner[t]
         /\ \A g \in Handles : log[g] \in Seq(Items) /\ (g # h => log'[g] = log[g])
<1> DEFINE e == [slot |-> s, op |-> o, old |-> value[s]]
<1>1. /\ h \in Handles /\ s \in Slots /\ o \in Operations /\ place[h] = 0
      /\ Updated(log', log, h, Append(log[h], e))
      /\ UNCHANGED <<place, queue, service, disk>>
  BY DEF Does
<1>2. /\ id \in [Slots -> Nat] /\ value \in [Slots -> Values]
      /\ owner \in [Slots -> Handles \cup {NoOwner}]
      /\ Shape(queue, place, log)
  BY DEF Types
<1>3. log \in [Handles -> Seq(Items)]
  BY <1>2 DEF Shape
<1>4. e \in Items /\ e.slot = s /\ e.op = o /\ e.old = value[s]
  BY <1>1, <1>2 DEF Items
<1> HIDE DEF e
<1>5. Append(log[h], e) \in Seq(Items)
  BY <1>1, <1>3, <1>4
<1>6. Shape(queue, place, log') /\ WorkOf(queue, place, log') = WorkOf(queue, place, log)
  <2>1. PICK items : items = Append(log[h], e)
    OBVIOUS
  <2>2. items \in Seq(Items) /\ Updated(log', log, h, items)
    BY <1>1, <1>5, <2>1
  <2> QED
    BY ONLY <1>1, <1>2, <2>2, LogShape
<1>7. /\ log'[h] = Append(log[h], e)
      /\ \A g \in Handles : log[g] \in Seq(Items) /\ (g # h => log'[g] = log[g])
  BY <1>1, <1>3 DEF Updated
<1>8. o.id \in Nat \ {0} /\ (o.op # "DELETED" => ValueIn(o) \in Values)
  BY <1>1, OpIs, Constants DEF ValueIn
<1>9. /\ id' \in [Slots -> Nat] /\ id'[s] = o.id
      /\ \A t \in Slots : t # s => id'[t] = id[t]
  BY <1>1, <1>2, <1>8 DEF Does, Updated
<1>10. /\ value' \in [Slots -> Values]
       /\ value'[s] = IF o.op = "DELETED" THEN value[s] ELSE ValueIn(o)
       /\ \A t \in Slots : t # s => value'[t] = value[t]
  BY <1>1, <1>2, <1>8 DEF Does, Updated
<1>11. /\ owner' \in [Slots -> Handles \cup {NoOwner}] /\ owner'[s] = h
       /\ \A t \in Slots : t # s => owner'[t] = owner[t]
  BY <1>1, <1>2 DEF Does, Updated
<1>12. /\ counter \in Nat /\ counter >= StartNodes /\ \A t \in Slots : id[t] <= counter
       /\ counter <= counter' /\ o.id <= counter' /\ counter' \in StartNodes .. MaxId
  <2>1. counter \in StartNodes .. MaxId /\ \A t \in Slots : id[t] <= counter
    BY DEF Types
  <2>2. counter' <= MaxId
    BY DEF Does
  <2>3. \/ o.id = counter + 1 /\ counter' = counter + 1
        \/ o.id = id[s] /\ counter' = counter
    BY DEF Does
  <2> QED
    BY <1>1, <1>2, <2>1, <2>2, <2>3, Constants
<1>13. \A t \in Slots : id'[t] <= counter'
  BY <1>2, <1>8, <1>9, <1>12
<1>14. cursor \in Nat /\ (cursor # 0 => dumping /\ cursor \in Slots /\ id[cursor] # 0)
  BY DEF Types
<1>15. cursor # 0 => id'[cursor] # 0
  BY <1>8, <1>9, <1>14
<1>16. Written' = Written
  BY <1>1 DEF Written, service
<1>17. Shape(queue, place, log)'
  BY <1>1, <1>6
<1>18. Types'
  BY <1>1, <1>9, <1>10, <1>11, <1>12, <1>13, <1>14, <1>15, <1>16, <1>17 DEF Types, service, disk
<1>19. Work' = Work
  BY <1>1, <1>6 DEF Work
<1> QED
  BY <1>1, <1>7, <1>9, <1>10, <1>11, <1>16, <1>18, <1>19

(* and its entry in the log. *)
Entry(s, o, v) == [slot |-> s, op |-> o, old |-> v]

LEMMA EntryIs ==
  ASSUME Types, NEW h, NEW s, NEW o, Does(h, s, o)
  PROVE  /\ Entry(s, o, value[s]) \in Items /\ Entry(s, o, value[s]).slot = s
         /\ Entry(s, o, value[s]).op = o /\ Entry(s, o, value[s]).old = value[s]
         /\ log[h] \in Seq(Items) /\ log'[h] = Append(log[h], Entry(s, o, value[s]))
<1>1. /\ h \in Handles /\ s \in Slots /\ o \in Operations /\ value \in [Slots -> Values]
      /\ Updated(log', log, h, Append(log[h], [slot |-> s, op |-> o, old |-> value[s]]))
      /\ log \in [Handles -> Seq(Items)]
  BY DEF Does, Types, Shape
<1>2. /\ Entry(s, o, value[s]) \in Items /\ Entry(s, o, value[s]).slot = s
      /\ Entry(s, o, value[s]).op = o /\ Entry(s, o, value[s]).old = value[s]
  BY <1>1 DEF Items, Entry
<1>3. log'[h] = Append(log[h], Entry(s, o, value[s]))
  BY <1>1 DEF Updated, Entry
<1> QED
  BY <1>1, <1>2, <1>3

(* A transaction enters the queue. *)
LEMMA TypesPush ==
  ASSUME Types, NEW h \in Handles, Push(h)
  PROVE  /\ Types' /\ Written' = Written /\ Len(queue') = Len(queue) + 1
         /\ Work' = Append(Work, Ops(log[h])) /\ place[h] = 0 /\ place'[h] = Len(queue) + 1
         /\ Len(queue) \in Nat /\ place \in [Handles -> Nat]
         /\ \A g \in Handles : g # h => place'[g] = place[g]
         /\ \A k \in 1 .. Len(queue) : queue'[k] = queue[k]
         /\ ~queue'[Len(queue) + 1].ready
<1>1. Shape(queue, place, log) /\ place[h] = 0 /\ FALSE \in BOOLEAN
  BY DEF Types, Push, Running
<1>2. Linked(queue', queue, "COMMIT", FALSE) /\ Updated(place', place, h, Len(queue'))
  BY DEF Push, Job, Linked, Updated
<1>3. /\ Shape(queue', place', log) /\ Len(queue') = Len(queue) + 1
      /\ WorkOf(queue', place', log) = Append(WorkOf(queue, place, log), Ops(log[h]))
  <2>1. Pushed(queue, place, log, h, queue', place')
    BY <1>1, <1>2 DEF Pushed
  <2> QED
    BY ONLY <2>1, PushShape
<1>4. UNCHANGED <<memory, log, service, disk>>
  BY DEF Push
<1>5. /\ \A k \in 1 .. Len(queue) : queue'[k] = queue[k]
      /\ queue'[Len(queue) + 1] = [type |-> "COMMIT", ops |-> <<>>, garbage |-> {}, ready |-> FALSE]
      /\ Len(queue) \in Nat
  BY ONLY <1>1, <1>2, LinkShape
<1>6. /\ place'[h] = Len(queue) + 1 /\ place \in [Handles -> Nat]
      /\ \A g \in Handles : g # h => place'[g] = place[g]
  BY <1>1, <1>2, <1>3 DEF Shape, Updated
<1>7. Written' = Written /\ Written \in 0 .. Len(queue)
  BY <1>4, WrittenIs DEF Written, service
<1>8. \A k \in 1 .. Written' : queue'[k].ready
  <2>1. \A k \in 1 .. Written : queue[k].ready
    BY DEF Types
  <2> QED
    BY <1>5, <1>7, <2>1
<1>9. taken \in 0 .. Len(queue') /\ overtaken \in 0 .. Len(queue')
  <2>1. taken \in 0 .. Len(queue) /\ overtaken \in 0 .. Len(queue)
    BY DEF Types
  <2> QED
    BY <1>3, <1>5, <2>1
<1>10. Shape(queue, place, log)'
  BY <1>3, <1>4
<1>11. Types'
  BY <1>4, <1>7, <1>8, <1>9, <1>10 DEF Types, memory, service, disk
<1>12. Work' = Append(Work, Ops(log[h]))
  BY <1>3, <1>4 DEF Work
<1> QED
  BY <1>1, <1>3, <1>5, <1>6, <1>7, <1>11, <1>12

(* A dump is asked for. *)
LEMMA TypesAsk ==
  ASSUME Types, AskForDump
  PROVE  /\ Types' /\ Written' = Written /\ Len(queue') = Len(queue) + 1 /\ Len(queue) \in Nat
         /\ Work' = Append(Work, <<>>)
         /\ \A k \in 1 .. Len(queue) : queue'[k] = queue[k]
         /\ queue'[Len(queue) + 1].garbage = {}
<1>1. Shape(queue, place, log) /\ TRUE \in BOOLEAN
  BY DEF Types
<1>2. Linked(queue', queue, "START_DUMP", TRUE)
  <2>1. PICK j : j = Job("START_DUMP")
    OBVIOUS
  <2>2. PICK e : e = [j EXCEPT !.ready = TRUE]
    OBVIOUS
  <2>3. e = [type |-> "START_DUMP", ops |-> <<>>, garbage |-> {}, ready |-> TRUE]
    BY <2>1, <2>2 DEF Job
  <2>4. queue' = Append(queue, e)
    BY <2>1, <2>2 DEF AskForDump
  <2> QED
    BY <2>3, <2>4 DEF Linked
<1>3. /\ Shape(queue', place, log) /\ Len(queue') = Len(queue) + 1
      /\ WorkOf(queue', place, log) = Append(WorkOf(queue, place, log), <<>>)
  BY ONLY <1>1, <1>2, AskShape
<1>4. UNCHANGED <<memory, place, log, service, disk>>
  BY DEF AskForDump
<1>5. /\ \A k \in 1 .. Len(queue) : queue'[k] = queue[k]
      /\ queue'[Len(queue) + 1] = [type |-> "START_DUMP", ops |-> <<>>, garbage |-> {}, ready |-> TRUE]
      /\ Len(queue) \in Nat
  BY ONLY <1>1, <1>2, LinkShape
<1>6. Written' = Written /\ Written \in 0 .. Len(queue)
  BY <1>4, WrittenIs DEF Written, service
<1>7. \A k \in 1 .. Written' : queue'[k].ready
  <2>1. \A k \in 1 .. Written : queue[k].ready
    BY DEF Types
  <2> QED
    BY <1>5, <1>6, <2>1
<1>8. taken \in 0 .. Len(queue') /\ overtaken \in 0 .. Len(queue')
  <2>1. taken \in 0 .. Len(queue) /\ overtaken \in 0 .. Len(queue)
    BY DEF Types
  <2> QED
    BY <1>3, <1>5, <2>1
<1>9. Shape(queue, place, log)'
  BY <1>3, <1>4
<1>10. Types'
  BY <1>4, <1>6, <1>7, <1>8, <1>9 DEF Types, memory, service, disk
<1>11. Work' = Append(Work, <<>>)
  BY <1>3, <1>4 DEF Work
<1> QED
  BY <1>3, <1>5, <1>6, <1>10, <1>11

(* Locks are given back. *)
LEMMA TypesUnlock ==
  ASSUME Types, NEW h \in Handles, Unlock(h)
  PROVE  /\ Types' /\ Work' = Work /\ Written' = Written
         /\ UNCHANGED <<id, value, counter, place, log, queue, service, disk>>
         /\ place[h] # 0 /\ Owns(h) # {}
         /\ \A s \in Slots : owner'[s] = IF owner[s] = h THEN NoOwner ELSE owner[s]
<1>1. /\ UNCHANGED <<id, value, counter, place, log, queue, service, disk>>
      /\ owner' = [s \in Slots |-> IF owner[s] = h THEN NoOwner ELSE owner[s]]
      /\ place[h] # 0 /\ Owns(h) # {}
  BY DEF Unlock, Released, Queued
<1>2. owner \in [Slots -> Handles \cup {NoOwner}]
  BY DEF Types
<1>3. /\ owner' \in [Slots -> Handles \cup {NoOwner}]
      /\ \A s \in Slots : owner'[s] = IF owner[s] = h THEN NoOwner ELSE owner[s]
  BY <1>1, <1>2
<1>4. Written' = Written /\ Work' = Work
  BY <1>1 DEF Written, Work, service
<1>5. Types'
  BY <1>1, <1>3, <1>4 DEF Types, Shape, service, disk
<1> QED
  BY <1>1, <1>3, <1>4, <1>5

(* A job is filled. *)
LEMMA TypesFill ==
  ASSUME Types, NEW h \in Handles, Fill(h)
  PROVE  /\ Types' /\ Work' = Work /\ Written' = Written /\ Len(queue') = Len(queue)
         /\ UNCHANGED <<memory, service, disk>>
         /\ place[h] \in Written + 1 .. Len(queue) /\ Owns(h) = {}
         /\ queue'[place[h]].ready /\ queue'[place[h]].garbage = SlotsOf(log[h], "DELETED")
         /\ Work[place[h]] = Ops(log[h])
         /\ \A k \in 1 .. Len(queue) : k # place[h] => queue'[k] = queue[k]
         /\ log'[h] = <<>> /\ place'[h] = 0
         /\ \A g \in Handles : g # h => log'[g] = log[g] /\ place'[g] = place[g]
<1>1. Shape(queue, place, log) /\ place[h] # 0 /\ Owns(h) = {}
  BY DEF Types, Fill, Queued
<1>2. /\ Updated(place', place, h, 0) /\ Updated(log', log, h, <<>>)
      /\ UNCHANGED <<memory, service, disk>>
  BY DEF Fill, Updated
<1>3. /\ Filled(queue', queue, place[h], Ops(log[h]), SlotsOf(log[h], "DELETED"))
      /\ SlotsOf(log[h], "DELETED") \subseteq Slots /\ Ops(log[h]) \in Seq(Operations)
  BY <1>1, FillIs DEF Fill
<1>4. Refilled(queue, place, log, h, Ops(log[h]), SlotsOf(log[h], "DELETED"), queue', place', log')
  BY <1>1, <1>2, <1>3 DEF Refilled
<1>5. /\ Shape(queue', place', log') /\ Len(queue') = Len(queue) /\ place[h] \in 1 .. Len(queue)
      /\ queue'[place[h]].ready /\ queue'[place[h]].garbage = SlotsOf(log[h], "DELETED")
      /\ \A k \in 1 .. Len(queue) : k # place[h] => queue'[k] = queue[k]
      /\ \A k \in 1 .. Len(queue) :
           WorkOf(queue', place', log')[k]
             = IF k = place[h] THEN Ops(log[h]) ELSE WorkOf(queue, place, log)[k]
  BY ONLY <1>4, FillShape
<1>6. /\ Work \in Histories /\ Len(Work) = Len(queue) /\ Work[place[h]] = Ops(log[h])
      /\ Work' \in Histories /\ Len(Work') = Len(queue') /\ Len(queue) \in Nat
  BY <1>1, <1>5, WorkIs DEF Work
<1>7. Work' = Work
  <2>1. \A k \in 1 .. Len(queue) : Work'[k] = Work[k]
    BY <1>5, <1>6 DEF Work
  <2>2. Work' \in Seq(Seq(Operations)) /\ Work \in Seq(Seq(Operations)) /\ Len(Work') = Len(Work)
    BY <1>5, <1>6 DEF Histories
  <2> QED
    BY <1>6, <2>1, <2>2, SeqEqual
<1>8. Written' = Written /\ Written \in 0 .. Len(queue)
  BY <1>2, WrittenIs DEF Written, service
<1>9. place[h] \in Written + 1 .. Len(queue)
  <2>1. ~queue[place[h]].ready /\ \A k \in 1 .. Written : queue[k].ready
    BY <1>1 DEF Shape, Types
  <2> QED
    BY <1>5, <1>6, <1>8, <2>1
<1>10. \A k \in 1 .. Written' : queue'[k].ready
  <2>1. \A k \in 1 .. Written : queue[k].ready /\ k # place[h]
    BY <1>8, <1>9 DEF Types
  <2> QED
    BY <1>5, <1>6, <1>8, <2>1
<1>11. Shape(queue, place, log)'
  BY <1>5
<1>12. Types'
  BY <1>2, <1>5, <1>8, <1>10, <1>11 DEF Types, memory, service, disk
<1>13. /\ log'[h] = <<>> /\ place'[h] = 0
       /\ \A g \in Handles : g # h => log'[g] = log[g] /\ place'[g] = place[g]
  BY <1>1, <1>2 DEF Updated, Shape
<1> QED
  BY <1>1, <1>2, <1>5, <1>6, <1>7, <1>8, <1>9, <1>12, <1>13

(* Places in memory become free. *)
LEMMA FreeIs ==
  ASSUME Types, NEW S, S \subseteq Slots, Free(S)
  PROVE  /\ id' \in [Slots -> Nat] /\ \A s \in Slots : id'[s] = IF s \in S THEN 0 ELSE id[s]
         /\ cursor' \in Nat
         /\ cursor' # 0 => /\ dumping /\ cursor' \in Slots /\ id'[cursor'] # 0
                           /\ cursor # 0 /\ cursor <= cursor'
         /\ \A t \in Slots : cursor # 0 /\ t >= cursor /\ id'[t] # 0 => cursor' # 0 /\ cursor' <= t
<1>1. id \in [Slots -> Nat] /\ cursor \in Nat
      /\ (cursor # 0 => dumping /\ cursor \in Slots /\ id[cursor] # 0)
  BY DEF Types
<1>2. id' \in [Slots -> Nat] /\ \A s \in Slots : id'[s] = IF s \in S THEN 0 ELSE id[s]
  BY <1>1 DEF Free
<1>3. CASE cursor \in S /\ cursor # 0
  <2>1. cursor' = NextNode(id', cursor) /\ id'[cursor] = 0
    BY <1>1, <1>2, <1>3 DEF Free
  <2>2. /\ cursor' \in Nat /\ (cursor' # 0 => cursor' \in Slots /\ id'[cursor'] # 0 /\ cursor' > cursor)
        /\ \A t \in Slots : t > cursor /\ id'[t] # 0 => cursor' # 0 /\ cursor' <= t
    BY <1>1, <1>2, <2>1, NextNodeIs
  <2>3. \A t \in Slots : t >= cursor /\ id'[t] # 0 => t > cursor
    BY <1>1, <2>1, Constants
  <2> QED
    BY <1>1, <1>2, <1>3, <2>2, <2>3
<1>4. CASE cursor \notin S /\ cursor # 0
  <2>1. cursor' = cursor /\ id'[cursor] = id[cursor]
    BY <1>1, <1>2, <1>4 DEF Free
  <2> QED
    BY <1>1, <1>2, <1>4, <2>1
<1>5. CASE cursor = 0
  <2>1. 0 \notin S
    BY Constants
  <2> QED
    BY <1>1, <1>2, <1>5, <2>1 DEF Free
<1> QED
  BY <1>3, <1>4, <1>5

(* A transaction is given up. *)
LEMMA TypesGiveUp ==
  ASSUME Types, LocksUsed, NEW h, GiveUp(h)
  PROVE  /\ Types' /\ Written' = Written /\ h \in Handles
         /\ place[h] # 0 => place[h] \in Written + 1 .. Len(queue)
         /\ \A s \in Slots :
              /\ id'[s] = IF s \in SlotsOf(log[h], "CREATED") THEN 0 ELSE id[s]
              /\ value'[s] = IF owner[s] = h THEN OldIn(log[h], s) ELSE value[s]
              /\ owner'[s] = IF owner[s] = h THEN NoOwner ELSE owner[s]
         /\ \A t \in Slots : cursor # 0 /\ t >= cursor /\ id'[t] # 0 => cursor' # 0 /\ cursor' <= t
         /\ cursor' # 0 => cursor # 0 /\ cursor <= cursor'
         /\ log'[h] = <<>> /\ place'[h] = 0
         /\ \A g \in Handles : g # h => log'[g] = log[g] /\ place'[g] = place[g]
<1> DEFINE S == SlotsOf(log[h], "CREATED")
<1>1. /\ h \in Handles /\ Updated(place', place, h, 0) /\ Updated(log', log, h, <<>>)
      /\ owner' = [s \in Slots |-> IF owner[s] = h THEN NoOwner ELSE owner[s]]
      /\ value' = [s \in Slots |-> IF owner[s] = h THEN OldIn(log[h], s) ELSE value[s]]
      /\ Free(S) /\ UNCHANGED <<counter, taken, svc, tries, dumping, disk>>
  BY DEF GiveUp, Released
<1>2. /\ Shape(queue, place, log)' /\ Len(queue') = Len(queue) /\ Len(queue) \in Nat
      /\ place[h] # 0 => place[h] \in 1 .. Len(queue) /\ ~queue[place[h]].ready
      /\ \A k \in 1 .. Len(queue) : k # place[h] => queue'[k] = queue[k]
  BY GiveUpShape
<1>3. /\ Shape(queue, place, log) /\ log[h] \in Seq(Items)
      /\ owner \in [Slots -> Handles \cup {NoOwner}] /\ value \in [Slots -> Values]
  BY <1>1 DEF Types, Shape
<1>4. S \subseteq Slots
  BY <1>3, OpsIs DEF SlotsOf
<1> HIDE DEF S
<1>5. /\ id' \in [Slots -> Nat] /\ \A s \in Slots : id'[s] = IF s \in S THEN 0 ELSE id[s]
      /\ cursor' \in Nat
      /\ cursor' # 0 => /\ dumping /\ cursor' \in Slots /\ id'[cursor'] # 0
                        /\ cursor # 0 /\ cursor <= cursor'
      /\ \A t \in Slots : cursor # 0 /\ t >= cursor /\ id'[t] # 0 => cursor' # 0 /\ cursor' <= t
  BY <1>1, <1>4, FreeIs
<1>6. /\ owner' \in [Slots -> Handles \cup {NoOwner}]
      /\ \A s \in Slots : owner'[s] = IF owner[s] = h THEN NoOwner ELSE owner[s]
  BY <1>1, <1>3
<1>7. /\ \A s \in Slots : value'[s] = IF owner[s] = h THEN OldIn(log[h], s) ELSE value[s]
      /\ value' \in [Slots -> Values]
  <2>1. ASSUME NEW s \in Slots, owner[s] = h PROVE OldIn(log[h], s) \in Values
    <3>1. \E x \in DOMAIN log[h] : log[h][x].slot = s
      BY <1>1, <2>1 DEF LocksUsed
    <3> QED
      BY <1>3, <3>1, OldInIsValue
  <2> QED
    BY <1>1, <1>3, <2>1
<1>8. Written' = Written /\ Written \in 0 .. Len(queue)
  BY <1>1, WrittenIs DEF Written
<1>9. place[h] # 0 => place[h] \in Written + 1 .. Len(queue)
  <2>1. \A k \in 1 .. Written : queue[k].ready
    BY DEF Types
  <2> QED
    BY <1>2, <1>8, <2>1
<1>10. \A k \in 1 .. Written' : queue'[k].ready
  <2>1. \A k \in 1 .. Written : queue[k].ready
    BY DEF Types
  <2>2. ASSUME NEW k \in 1 .. Written PROVE k # place[h] /\ k \in 1 .. Len(queue)
    BY <1>2, <1>8, <1>9
  <2> QED
    BY <1>2, <1>8, <2>1, <2>2
<1>11. counter' \in StartNodes .. MaxId /\ \A s \in Slots : id'[s] <= counter'
  <2>1. counter \in StartNodes .. MaxId /\ \A s \in Slots : id[s] <= counter
    BY DEF Types
  <2> QED
    BY <1>1, <1>5, <2>1, Constants
<1>12. Types'
  BY <1>1, <1>2, <1>5, <1>6, <1>7, <1>8, <1>10, <1>11 DEF Types, disk
<1>13. /\ log'[h] = <<>> /\ place'[h] = 0
       /\ \A g \in Handles : g # h => log'[g] = log[g] /\ place'[g] = place[g]
  BY <1>1, <1>3 DEF Updated, Shape
<1> QED
  BY <1>1, <1>5, <1>6, <1>7, <1>8, <1>9, <1>12, <1>13 DEF S

(* The service thread takes a job, or goes on with its dump, or does nothing. *)
LEMMA TypesRest ==
  ASSUME Types, UNCHANGED <<memory, place, log, queue, cursor, dumping, disk>>,
         \/ SvcTake \/ UNCHANGED <<taken, svc>>
  PROVE  Types' /\ Written' = Written /\ Work' = Work
<1>1. UNCHANGED <<id, value, owner, counter, place, log, queue, cursor, dumping, file, began, overtaken>>
  BY DEF memory, disk
<1>2. Work' = Work /\ Shape(queue, place, log)'
  BY <1>1 DEF Work, Types, Shape
<1>3. CASE SvcTake
  <2>1. svc # "job" /\ svc' = "job" /\ taken' = taken + 1 /\ taken < Len(queue)
    BY <1>3 DEF SvcTake
  <2>2. Written = taken /\ taken \in Nat /\ Len(queue) \in Nat
    BY <2>1, WrittenIs
  <2>3. Written' = taken' - 1
    BY <2>1 DEF Written
  <2>4. Written' = Written /\ taken' \in 0 .. Len(queue) /\ taken' # 0
    BY <2>1, <2>2, <2>3
  <2> QED
    BY <1>1, <1>2, <2>1, <2>4 DEF Types
<1>4. CASE UNCHANGED <<taken, svc>>
  <2>1. Written' = Written
    BY <1>4 DEF Written
  <2> QED
    BY <1>1, <1>2, <1>4, <2>1 DEF Types
<1> QED
  BY <1>3, <1>4

(* It is done with a job. *)
JobDone ==
  /\ svc = "job" /\ queue[taken].ready /\ svc' = AfterJob
  /\ UNCHANGED <<value, owner, counter, place, log, queue, taken, overtaken>>

LEMMA JobDoneIs ==
  ASSUME Types, JobDone
  PROVE  /\ Written' = Written + 1 /\ Written \in Nat /\ Written' \in 1 .. Len(queue)
         /\ taken = Written' /\ queue[Written'].ready /\ Work' = Work
         /\ \A k \in 1 .. Written' : queue'[k].ready
         /\ Shape(queue, place, log)' /\ svc' \in {"wait", "dump"}
         /\ (svc' = "wait" => ~dumping') /\ (svc' = "dump" => dumping')
<1>1. /\ Written + 1 = taken /\ taken \in 1 .. Len(queue) /\ Len(queue) \in Nat
      /\ Written \in 0 .. Len(queue)
  BY WrittenIs DEF JobDone
<1>2. svc' # "job" /\ taken' = taken /\ svc' \in {"wait", "dump"}
  BY DEF JobDone, AfterJob
<1>3. Written' = taken
  BY <1>2 DEF Written
<1>4. \A k \in 1 .. Written' : queue'[k].ready
  <2>1. queue' = queue /\ queue[taken].ready /\ \A k \in 1 .. Written : queue[k].ready
    BY DEF JobDone, Types
  <2> QED
    BY <1>1, <1>3, <2>1
<1>5. Work' = Work /\ Shape(queue, place, log)'
  BY DEF JobDone, Work, Types, Shape
<1>6. (svc' = "wait" => ~dumping') /\ (svc' = "dump" => dumping')
  BY DEF JobDone, AfterJob
<1> QED
  BY <1>1, <1>2, <1>3, <1>4, <1>5, <1>6 DEF JobDone

(* A job of a transaction. *)
LEMMA TypesCommit ==
  ASSUME Types, SvcCommit
  PROVE  LET ops == Work[Written']
         IN  /\ Types' /\ JobDone /\ dumping' = dumping /\ began' = began /\ overtaken' = overtaken
             /\ ops \in Seq(Operations) /\ ops = queue[Written'].ops
             /\ file' = IF ops = <<>> THEN file ELSE Append(file, L!Transaction(ops))
             /\ \A s \in Slots : id'[s] = IF s \in queue[Written'].garbage THEN 0 ELSE id[s]
             /\ \A t \in Slots : cursor # 0 /\ t >= cursor /\ id'[t] # 0 => cursor' # 0 /\ cursor' <= t
             /\ cursor' # 0 => cursor # 0 /\ cursor <= cursor'
<1>1. JobDone
  BY DEF SvcCommit, JobDone
<1>2. /\ Written' = Written + 1 /\ Written \in Nat /\ Written' \in 1 .. Len(queue)
      /\ taken = Written' /\ queue[Written'].ready /\ Work' = Work
      /\ \A k \in 1 .. Written' : queue'[k].ready
      /\ Shape(queue, place, log)' /\ svc' \in {"wait", "dump"}
      /\ (svc' = "wait" => ~dumping') /\ (svc' = "dump" => dumping')
  BY <1>1, JobDoneIs
<1>3. Shape(queue, place, log)
  BY DEF Types
<1>4. /\ Work[Written'] \in Seq(Operations) /\ Work[Written'] = queue[Written'].ops
      /\ queue[Written'] \in QueueJobs
  <2>1. PICK k : k = Written'
    OBVIOUS
  <2>2. k \in 1 .. Len(queue) /\ queue[k].ready
    BY <1>2, <2>1
  <2>3. Work[k] \in Seq(Operations) /\ Work[k] = queue[k].ops
    BY <1>3, <2>2, WorkIs DEF Work
  <2>4. queue[k] \in QueueJobs
    BY <1>3, <2>2 DEF Shape
  <2> QED
    BY <2>1, <2>3, <2>4
<1>5. /\ queue[Written'].garbage \subseteq Slots /\ Free(queue[Written'].garbage)
      /\ dumping' = dumping /\ began' = began
      /\ file' = IF queue[Written'].ops = <<>> THEN file
                 ELSE Append(file, L!Transaction(queue[Written'].ops))
  BY <1>2, <1>4 DEF SvcCommit, QueueJobs
<1>6. /\ id' \in [Slots -> Nat]
      /\ \A s \in Slots : id'[s] = IF s \in queue[Written'].garbage THEN 0 ELSE id[s]
      /\ cursor' \in Nat
      /\ cursor' # 0 => /\ dumping /\ cursor' \in Slots /\ id'[cursor'] # 0
                        /\ cursor # 0 /\ cursor <= cursor'
      /\ \A t \in Slots : cursor # 0 /\ t >= cursor /\ id'[t] # 0 => cursor' # 0 /\ cursor' <= t
  BY <1>5, FreeIs
<1>7. file' \in Seq(Records)
  <2>1. file \in Seq(Records)
    BY DEF Types
  <2>2. Work[Written'] # <<>> => L!Transaction(Work[Written']) \in Records
    BY <1>4 DEF Records
  <2> QED
    BY <1>4, <1>5, <2>1, <2>2
<1>8. counter' \in StartNodes .. MaxId /\ \A s \in Slots : id'[s] <= counter'
  <2>1. counter \in StartNodes .. MaxId /\ counter' = counter /\ \A s \in Slots : id[s] <= counter
    BY <1>1 DEF Types, JobDone
  <2>2. counter \in Nat
    BY <2>1, Constants
  <2>3. ASSUME NEW s \in Slots PROVE id'[s] <= counter
    BY <1>6, <2>1, <2>2
  <2> QED
    BY <2>1, <2>3
<1>9. began' \in 0 .. Written'
  <2>1. began \in 0 .. Written
    BY DEF Types
  <2> QED
    BY <1>2, <1>5, <2>1
<1>10. Types'
  BY <1>1, <1>2, <1>5, <1>6, <1>7, <1>8, <1>9 DEF Types, JobDone
<1> QED
  BY <1>1, <1>4, <1>5, <1>6, <1>10 DEF JobDone

(* A request for a dump. *)
LEMMA TypesStartDump ==
  ASSUME Types, SvcStartDump
  PROVE  /\ Types' /\ JobDone /\ UNCHANGED <<memory, overtaken>> /\ Work[Written'] = <<>>
         /\ queue[Written'].garbage = {}
         /\ dumping => UNCHANGED <<cursor, dumping, file, began>>
         /\ ~dumping => /\ file' = <<L!DumpBegin>> /\ began' = Written /\ dumping' = TRUE
                        /\ \A t \in Slots : id'[t] # 0 => cursor' # 0 /\ cursor' <= t
<1>1. Shape(queue, place, log) /\ taken \in 1 .. Len(queue) /\ Written + 1 = taken
  BY WrittenIs DEF Types, SvcStartDump
<1>2. /\ queue[taken].type = "START_DUMP" /\ svc = "job" /\ svc' = AfterJob
      /\ UNCHANGED <<memory, place, log, queue, taken, overtaken>>
      /\ dumping => UNCHANGED <<cursor, dumping, file, began>>
      /\ ~dumping => file' = <<L!DumpBegin>> /\ began' = Written /\ cursor' = NextNode(id, 0) /\ dumping' = TRUE
  BY DEF SvcStartDump
<1>3. queue[taken].ready /\ queue[taken].ops = <<>> /\ queue[taken].garbage = {}
  BY <1>1, <1>2 DEF Shape
<1>4. JobDone
  BY <1>2, <1>3 DEF JobDone, memory
<1>5. /\ Written' = Written + 1 /\ Written \in Nat /\ Written' \in 1 .. Len(queue)
      /\ taken = Written' /\ queue[Written'].ready /\ Work' = Work
      /\ \A k \in 1 .. Written' : queue'[k].ready
      /\ Shape(queue, place, log)' /\ svc' \in {"wait", "dump"}
      /\ (svc' = "wait" => ~dumping') /\ (svc' = "dump" => dumping')
  BY <1>4, JobDoneIs
<1>6. Work[Written'] = <<>> /\ queue[Written'].garbage = {}
  <2>1. Work[taken] = queue[taken].ops
    BY <1>1, <1>3, WorkIs DEF Work
  <2> QED
    BY <1>3, <1>5, <2>1
<1>7. /\ id \in [Slots -> Nat] /\ value \in [Slots -> Values] /\ id' = id
      /\ file \in Seq(Records) /\ began \in 0 .. Written /\ dumping \in BOOLEAN
      /\ cursor \in Nat /\ (cursor # 0 => dumping /\ cursor \in Slots /\ id[cursor] # 0)
  BY <1>2 DEF Types, memory
<1>8. ~dumping => /\ \A t \in Slots : id'[t] # 0 => cursor' # 0 /\ cursor' <= t
                  /\ cursor' \in Nat /\ (cursor' # 0 => cursor' \in Slots /\ id[cursor'] # 0)
  <2> HAVE ~dumping
  <2>1. cursor' = NextNode(id, 0)
    BY <1>2
  <2>2. /\ cursor' \in Nat /\ (cursor' # 0 => cursor' \in Slots /\ id[cursor'] # 0)
        /\ \A t \in Slots : t > 0 /\ id[t] # 0 => cursor' # 0 /\ cursor' <= t
    BY <1>7, <2>1, NextNodeIs
  <2>3. \A t \in Slots : t > 0
    BY Constants
  <2> QED
    BY <1>7, <2>2, <2>3
<1>9. /\ cursor' \in Nat /\ (cursor' # 0 => dumping' /\ cursor' \in Slots /\ id'[cursor'] # 0)
      /\ dumping' \in BOOLEAN
  BY <1>2, <1>7, <1>8
<1>10. file' \in Seq(Records) /\ began' \in 0 .. Written'
  <2>1. L!DumpBegin \in Records
    BY DEF Records
  <2>2. PICK f : f = <<L!DumpBegin>>
    OBVIOUS
  <2>3. f \in Seq(Records)
    BY <2>1, <2>2
  <2>4. file' = file \/ file' = f
    BY <1>2, <2>2
  <2>5. file' \in Seq(Records)
    BY <1>7, <2>3, <2>4
  <2>6. began' = Written \/ began' = began
    BY <1>2
  <2>7. began' \in 0 .. Written'
    BY <1>5, <1>7, <2>6
  <2> QED
    BY <2>5, <2>7
<1>11. Types'
  BY <1>2, <1>5, <1>9, <1>10 DEF Types, memory
<1> QED
  BY <1>2, <1>4, <1>6, <1>8, <1>11

(* A node is written. *)
LEMMA TypesDumpNode ==
  ASSUME Types, SvcDumpNode, owner[cursor] = NoOwner
  PROVE  /\ Types' /\ Written' = Written /\ Work' = Work
         /\ UNCHANGED <<memory, place, log, queue, dumping, began, overtaken>>
         /\ dumping /\ cursor # 0 /\ cursor \in Slots /\ id[cursor] \in Ids /\ value[cursor] \in Values
         /\ file' = Append(file, L!Dumped(id[cursor], value[cursor]))
         /\ cursor' # 0 => cursor < cursor'
         /\ \A t \in Slots : t > cursor /\ id[t] # 0 => cursor' # 0 /\ cursor' <= t
<1>1. /\ UNCHANGED <<memory, place, log, queue, taken, svc, dumping, began, overtaken>>
      /\ cursor # 0 /\ file' = Append(file, L!Dumped(id[cursor], value[cursor]))
      /\ cursor' = NextNode(id, cursor)
  BY DEF SvcDumpNode
<1>2. /\ id \in [Slots -> Nat] /\ value \in [Slots -> Values] /\ cursor \in Slots /\ cursor \in Nat
      /\ dumping /\ id[cursor] # 0 /\ file \in Seq(Records) /\ counter \in StartNodes .. MaxId
      /\ \A s \in Slots : id[s] <= counter
  BY <1>1 DEF Types
<1>3. id[cursor] \in Ids /\ value[cursor] \in Values
  <2>1. id[cursor] \in Nat /\ id[cursor] <= counter
    BY <1>2
  <2> QED
    BY <1>2, <2>1, Constants DEF Ids
<1>4. /\ cursor' \in Nat /\ (cursor' # 0 => cursor' \in Slots /\ id[cursor'] # 0 /\ cursor' > cursor)
      /\ \A t \in Slots : t > cursor /\ id[t] # 0 => cursor' # 0 /\ cursor' <= t
  BY <1>1, <1>2, NextNodeIs
<1>5. Written' = Written /\ Work' = Work /\ Shape(queue, place, log)'
  BY <1>1 DEF Written, Work, Types, Shape
<1>6. file' \in Seq(Records)
  <2>1. L!Dumped(id[cursor], value[cursor]) \in Records
    BY <1>3 DEF Records
  <2> QED
    BY <1>1, <1>2, <2>1
<1>7. cursor' \in Nat /\ (cursor' # 0 => dumping' /\ cursor' \in Slots /\ id'[cursor'] # 0)
  BY <1>1, <1>2, <1>4 DEF memory
<1>8. /\ id' = id /\ value' = value /\ owner' = owner /\ counter' = counter /\ queue' = queue
      /\ taken' = taken /\ svc' = svc /\ dumping' = dumping /\ began' = began
      /\ overtaken' = overtaken
  BY <1>1 DEF memory
<1>9. Types'
  BY <1>5, <1>6, <1>7, <1>8 DEF Types
<1> QED
  BY <1>1, <1>2, <1>3, <1>4, <1>5, <1>9

(* The dump comes to its end. *)
LEMMA TypesDumpEnd ==
  ASSUME Types, SvcDumpEnd
  PROVE  /\ Types' /\ Written' = Written /\ Work' = Work
         /\ UNCHANGED <<memory, place, log, queue, cursor, began>>
         /\ dumping /\ ~dumping' /\ cursor = 0 /\ overtaken' = Len(queue)
         /\ file' = Append(file, L!DumpEnd)
<1>1. /\ UNCHANGED <<memory, place, log, queue, taken, cursor, began>>
      /\ svc = "dump" /\ svc' = "wait" /\ dumping' = FALSE /\ cursor = 0 /\ overtaken' = Len(queue)
      /\ file' = Append(file, L!DumpEnd)
  BY DEF SvcDumpEnd
<1>2. Written' = Written
  BY <1>1 DEF Written
<1>3. Work' = Work /\ Shape(queue, place, log)' /\ dumping /\ file \in Seq(Records)
  BY <1>1 DEF Work, Types, Shape
<1>4. file' \in Seq(Records)
  <2>1. L!DumpEnd \in Records
    BY DEF Records
  <2> QED
    BY <1>1, <1>3, <2>1
<1>5. overtaken' \in 0 .. Len(queue')
  BY <1>1, WrittenIs
<1>6. Types'
  BY <1>1, <1>2, <1>3, <1>4, <1>5 DEF Types, memory
<1> QED
  BY <1>1, <1>2, <1>3, <1>6

-----------------------------------------------------------------------------
(* Memory, locks and the history. *)

Sound == Types /\ WorkBounded /\ LockInv /\ MemInv

(* The history of a sound state. *)
LEMMA WorkNow ==
  ASSUME Types
  PROVE  /\ Work \in Histories /\ Len(Work) = Len(queue) /\ Len(queue) \in Nat
         /\ Written \in 0 .. Len(queue)
         /\ \A k \in 1 .. Len(queue) : Work[k] \in Seq(Operations)
         /\ \A h \in Handles :
              /\ log[h] \in Seq(Items) /\ Ops(log[h]) \in Seq(Operations)
              /\ Before(h) \in 0 .. Len(queue) /\ place[h] \in 0 .. Len(queue)
              /\ place[h] # 0 => /\ Work[place[h]] = Ops(log[h]) /\ place[h] \in Written + 1 .. Len(queue)
                                 /\ Before(h) = place[h] - 1 /\ ~queue[place[h]].ready
              /\ place[h] = 0 => Before(h) = Len(queue)
         /\ \A g, h \in Handles : place[g] = place[h] /\ g # h => place[g] = 0
         /\ \A k \in Written + 1 .. Len(queue) : ~queue[k].ready => \E h \in Handles : place[h] = k
<1>1. Shape(queue, place, log) /\ \A k \in 1 .. Written : queue[k].ready
  BY DEF Types
<1>2. /\ Work \in Histories /\ Len(Work) = Len(queue) /\ Len(queue) \in Nat
      /\ \A k \in 1 .. Len(queue) : Work[k] \in Seq(Operations)
      /\ \A h \in Handles : place[h] # 0 => place[h] \in 1 .. Len(queue) /\ Work[place[h]] = Ops(log[h])
  BY <1>1, WorkIs DEF Work
<1>3. Written \in 0 .. Len(queue)
  BY WrittenIs
<1>4. ASSUME NEW h \in Handles
      PROVE  /\ log[h] \in Seq(Items) /\ Ops(log[h]) \in Seq(Operations)
             /\ Before(h) \in 0 .. Len(queue) /\ place[h] \in 0 .. Len(queue)
             /\ place[h] # 0 => /\ Work[place[h]] = Ops(log[h]) /\ place[h] \in Written + 1 .. Len(queue)
                                /\ Before(h) = place[h] - 1 /\ ~queue[place[h]].ready
             /\ place[h] = 0 => Before(h) = Len(queue)
  <2>1. log[h] \in Seq(Items) /\ place[h] \in Nat
    BY <1>1 DEF Shape
  <2>2. Ops(log[h]) \in Seq(Operations)
    BY <2>1, OpsIs
  <2>3. place[h] # 0 => place[h] \in 1 .. Len(queue) /\ ~queue[place[h]].ready
    BY <1>1 DEF Shape
  <2>4. place[h] # 0 => place[h] \in Written + 1 .. Len(queue)
    BY <1>1, <1>2, <1>3, <2>3
  <2>5. Before(h) = IF place[h] = 0 THEN Len(queue) ELSE place[h] - 1
    BY DEF Before
  <2> QED
    BY <1>2, <1>3, <2>1, <2>2, <2>3, <2>4, <2>5
<1>5. \A k \in Written + 1 .. Len(queue) : ~queue[k].ready => \E h \in Handles : place[h] = k
  <2>1. \A k \in 1 .. Len(queue) : ~queue[k].ready => \E h \in Handles : place[h] = k
    BY <1>1 DEF Shape
  <2> QED
    BY <1>2, <1>3, <2>1
<1>6. \A g, h \in Handles : place[g] = place[h] /\ g # h => place[g] = 0
  BY <1>1 DEF Shape
<1> QED
  BY <1>2, <1>3, <1>4, <1>5, <1>6

(* Ids in memory. *)
LEMMA LiveIds ==
  ASSUME Types, NEW s \in Slots
  PROVE  id[s] \in Nat /\ id[s] <= counter /\ counter \in Nat /\ (id[s] # 0 => id[s] \in Ids)
<1>1. id[s] \in Nat /\ id[s] <= counter /\ counter \in StartNodes .. MaxId
  BY DEF Types
<1> QED
  BY <1>1, Constants DEF Ids

(* What nobody has touched. *)
LEMMA Untouched ==
  ASSUME Types, WorkBounded, NEW i \in Nat, i = 0 \/ i > counter
  PROVE  /\ \A h \in Handles : ~By(h, i)
         /\ \A k \in 1 .. Len(queue) : ~Touched(Work[k], i)
         /\ i # 0 => \A k \in 0 .. Len(queue) : Last(Work, k, i).op = "NONE"
<1>1. /\ Work \in Histories /\ Len(Work) = Len(queue) /\ Len(queue) \in Nat
      /\ \A k \in 1 .. Len(queue) : Work[k] \in Seq(Operations)
      /\ \A h \in Handles : Ops(log[h]) \in Seq(Operations)
      /\ counter \in StartNodes .. MaxId
  BY WorkNow DEF Types
<1>2. 0 \notin Ids
  BY DEF Ids
<1>3. ASSUME NEW ops \in Seq(Operations), Bounded(ops) PROVE ~Touched(ops, i)
  <2>1. Touched(ops, i) => i \in Ids
    BY LastOpIs
  <2>2. Touched(ops, i) => i <= counter
    BY <1>3 DEF Bounded
  <2> QED
    BY <1>1, <1>2, <2>1, <2>2, Constants
<1>4. (\A h \in Handles : ~By(h, i)) /\ \A k \in 1 .. Len(queue) : ~Touched(Work[k], i)
  BY <1>1, <1>3 DEF By, WorkBounded
<1>5. ASSUME i # 0, NEW k \in 0 .. Len(queue) PROVE Last(Work, k, i).op = "NONE"
  <2>1. Jobs(Work, k, i) = {}
    BY <1>1, <1>4 DEF Jobs
  <2>2. ~(i <= StartNodes)
    BY <1>1, <1>5, Constants
  <2>3. Last(Work, k, i) = [op |-> "NONE", id |-> i]
    BY <2>1, <2>2 DEF Last, Start
  <2> QED
    BY <2>3
<1> QED
  BY <1>4, <1>5

(* What a transaction has done is on nodes that are there, on which it has the
   locks as long as it may fail; and it has done something to all it has
   locked. *)
LEMMA ByIs ==
  ASSUME Types, LockInv, NEW h \in Handles, NEW i
  PROVE  /\ By(h, i) => /\ i \in Ids
                        /\ \E x \in DOMAIN log[h] : log[h][x].slot \in Slots
                              /\ id[log[h][x].slot] = i /\ log[h][x].op.id = i
                        /\ Undecided(h) => \E s \in Slots : id[s] = i /\ owner[s] = h
         /\ \A x \in DOMAIN log[h] : By(h, log[h][x].op.id) /\ Ops(log[h])[x] = log[h][x].op
         /\ DOMAIN Ops(log[h]) = DOMAIN log[h]
         /\ \A s \in Slots : owner[s] = h => By(h, id[s]) /\ id[s] \in Ids
                                             /\ \E x \in DOMAIN log[h] : log[h][x].slot = s
<1>1. log[h] \in Seq(Items) /\ Ops(log[h]) \in Seq(Operations)
  BY WorkNow
<1>2. /\ DOMAIN Ops(log[h]) = DOMAIN log[h]
      /\ \A x \in DOMAIN log[h] : Ops(log[h])[x] = log[h][x].op /\ log[h][x].slot \in Slots
  BY <1>1, OpsIs
<1>3. \A x \in DOMAIN log[h] : By(h, log[h][x].op.id)
  BY <1>2 DEF By, Touched, Touches
<1>4. ASSUME By(h, i)
      PROVE  /\ i \in Ids
             /\ \E x \in DOMAIN log[h] : log[h][x].slot \in Slots
                   /\ id[log[h][x].slot] = i /\ log[h][x].op.id = i
             /\ Undecided(h) => \E s \in Slots : id[s] = i /\ owner[s] = h
  <2>1. i \in Ids
    BY <1>1, <1>4, LastOpIs DEF By
  <2>2. PICK x \in DOMAIN log[h] : log[h][x].op.id = i
    BY <1>2, <1>4 DEF By, Touched, Touches
  <2>3. id[log[h][x].slot] = i /\ (Undecided(h) => owner[log[h][x].slot] = h)
    BY <2>2 DEF LockInv, ItemsOnNodes, ItemsLocked
  <2> QED
    BY <1>2, <2>1, <2>2, <2>3
<1>5. ASSUME NEW s \in Slots, owner[s] = h
      PROVE  By(h, id[s]) /\ id[s] \in Ids /\ \E x \in DOMAIN log[h] : log[h][x].slot = s
  <2>1. PICK x \in DOMAIN log[h] : log[h][x].slot = s
    BY <1>5 DEF LockInv, LocksUsed
  <2>2. id[s] = log[h][x].op.id
    BY <2>1 DEF LockInv, ItemsOnNodes
  <2>3. By(h, id[s])
    BY <1>3, <2>1, <2>2
  <2>4. id[s] \in Ids
    BY <1>1, <2>3, LastOpIs DEF By
  <2> QED
    BY <2>1, <2>3, <2>4
<1> QED
  BY <1>2, <1>3, <1>4, <1>5

(* No two transactions that may fail have changed the same node, *)
LEMMA NotBoth ==
  ASSUME Types, LockInv, NEW h \in Handles, NEW g \in Handles, g # h, Undecided(g), Undecided(h), NEW i,
         By(h, i)
  PROVE  ~By(g, i)
<1> SUFFICES ASSUME By(g, i) PROVE FALSE
  OBVIOUS
<1>1. PICK s \in Slots : id[s] = i /\ owner[s] = h
  BY ByIs
<1>2. PICK t \in Slots : id[t] = i /\ owner[t] = g
  BY ByIs
<1>3. i # 0
  BY ByIs DEF Ids
<1>4. s = t
  BY <1>1, <1>2, <1>3 DEF LockInv, IdsUnique
<1> QED
  BY <1>1, <1>2, <1>4

(* nor any job after theirs; and those before have not if the node is new. *)
LEMMA NoOther ==
  ASSUME Sound, NEW h \in Handles, Undecided(h), NEW i, By(h, i)
  PROVE  /\ \A k \in Before(h) + 1 .. Len(queue) : k = place[h] \/ ~Touched(Work[k], i)
         /\ Fits(Work, Before(h), Ops(log[h]))
         /\ Last(Work, Before(h), i).op # "DELETED"
         /\ Creates(Ops(log[h]), i) <=> Last(Work, Before(h), i).op = "NONE"
         /\ Creates(Ops(log[h]), i) =>
              \A k \in 1 .. Len(queue) : k = place[h] \/ ~Touched(Work[k], i)
<1>1. /\ Work \in Histories /\ Len(Work) = Len(queue) /\ Len(queue) \in Nat
      /\ Before(h) \in 0 .. Len(queue) /\ place[h] \in 0 .. Len(queue)
      /\ place[h] # 0 => Before(h) = place[h] - 1
      /\ place[h] = 0 => Before(h) = Len(queue)
  BY WorkNow DEF Sound
<1>2. i \in Ids
  BY ByIs DEF Sound
<1>3. Fits(Work, Before(h), Ops(log[h]))
  BY DEF Sound, MemInv, LogsFit
<1>4. /\ Last(Work, Before(h), i).op # "DELETED"
      /\ Creates(Ops(log[h]), i) <=> Last(Work, Before(h), i).op = "NONE"
  BY <1>2, <1>3 DEF Fits, By
<1>5. \A k \in Before(h) + 1 .. Len(queue) : k = place[h] \/ ~Touched(Work[k], i)
  <2>1. CASE place[h] = 0
    BY <1>1, <2>1
  <2>2. CASE place[h] # 0
    <3>1. Owns(h) # {}
      BY <2>2 DEF Undecided
    <3>2. \A k \in place[h] + 1 .. Len(queue) : ~Touched(Work[k], i)
      BY <1>2, <2>2, <3>1 DEF Sound, LockInv, NobodyAfter, Queued
    <3> QED
      BY <1>1, <2>2, <3>2
  <2> QED
    BY <2>1, <2>2
<1>6. ASSUME Creates(Ops(log[h]), i), NEW k \in 1 .. Len(queue), k # place[h]
      PROVE  ~Touched(Work[k], i)
  <2>1. Last(Work, Before(h), i).op = "NONE" /\ i \in Nat \ {0}
    BY <1>2, <1>4, <1>6 DEF Ids
  <2>2. Jobs(Work, Before(h), i) = {}
    BY <1>1, <2>1, LastIs
  <2>3. k \in 1 .. Before(h) => ~Touched(Work[k], i)
    BY <2>2 DEF Jobs
  <2> QED
    BY <1>1, <1>5, <1>6, <2>3
<1> QED
  BY <1>3, <1>4, <1>5, <1>6

(* A node that is not doomed has not been deleted. *)
LEMMA NotGone ==
  ASSUME Sound, NEW s \in Slots, id[s] # 0, ~Doomed(s)
  PROVE  Last(Work, Len(queue), id[s]).op # "DELETED"
<1> DEFINE i == id[s]
<1> SUFFICES ASSUME Last(Work, Len(queue), i).op = "DELETED" PROVE FALSE
  OBVIOUS
<1>1. /\ Work \in Histories /\ Len(Work) = Len(queue) /\ Len(queue) \in Nat
      /\ Written \in 0 .. Len(queue)
      /\ \A k \in 1 .. Len(queue) : Work[k] \in Seq(Operations)
      /\ \A k \in Written + 1 .. Len(queue) : ~queue[k].ready => \E h \in Handles : place[h] = k
      /\ \A h \in Handles : place[h] # 0 => Work[place[h]] = Ops(log[h])
  BY WorkNow DEF Sound
<1>2. i \in Ids
  BY LiveIds DEF Sound
<1>3. Last(Work, Written, i).op # "DELETED"
  BY DEF Sound, MemInv, LiveNotGone, Live
<1>4. Last(Work, Len(queue), i) # Last(Work, Written, i)
  BY <1>3
<1>5. PICK j \in Written + 1 .. Len(queue) : Touched(Work[j], i)
  <2>1. SUFFICES ASSUME \A j \in Written + 1 .. Len(queue) : ~Touched(Work[j], i)
                 PROVE  FALSE
    OBVIOUS
  <2>2. Written \in Nat /\ Len(queue) \in Nat /\ Written <= Len(queue)
    BY <1>1
  <2>3. Last(Work, Len(queue), i) = Last(Work, Written, i)
    BY ONLY <2>1, <2>2, LastStays
  <2> QED
    BY <1>4, <2>3
<1>6. Jobs(Work, Len(queue), i) # {}
  BY <1>1, <1>5 DEF Jobs
<1>7. PICK k \in 1 .. Len(queue) :
        /\ Touched(Work[k], i) /\ Last(Work, Len(queue), i) = LastOp(Work[k], i)
        /\ \A l \in k + 1 .. Len(queue) : ~Touched(Work[l], i)
  BY <1>1, <1>6, LastIn
<1>8. k \in Written + 1 .. Len(queue)
  BY <1>1, <1>5, <1>7
<1>9. Deletes(Work[k], i)
  BY <1>1, <1>7, LastOpIs
<1>10. CASE queue[k].ready
  <2>1. s \in queue[k].garbage
    BY <1>8, <1>9, <1>10 DEF Sound, MemInv, GarbageIs
  <2>2. k \in DOMAIN queue /\ k > Written
    BY <1>1, <1>8 DEF Sound, Types, Shape
  <2> QED
    BY <2>1, <2>2 DEF Doomed
<1>11. CASE ~queue[k].ready
  <2>1. PICK h \in Handles : place[h] = k
    BY <1>1, <1>8, <1>11
  <2>2. Deletes(Ops(log[h]), i)
    BY <1>1, <1>7, <1>9, <2>1
  <2>3. /\ DOMAIN Ops(log[h]) = DOMAIN log[h]
        /\ \A x \in DOMAIN log[h] : Ops(log[h])[x] = log[h][x].op
    BY ByIs DEF Sound
  <2>4. PICK x \in DOMAIN log[h] : log[h][x].op.id = i /\ log[h][x].op.op = "DELETED"
    BY <2>2, <2>3 DEF Deletes
  <2>5. id[log[h][x].slot] = i
    BY <2>4 DEF Sound, LockInv, ItemsOnNodes
  <2>6. log[h] \in Seq(Items)
    BY WorkNow DEF Sound
  <2>7. log[h][x].slot \in Slots
    BY <2>4, <2>6, OpsIs
  <2>8. log[h][x].slot = s
    BY <2>5, <2>7 DEF Sound, LockInv, IdsUnique
  <2> QED
    BY <2>4, <2>8 DEF Doomed
<1> QED
  BY <1>10, <1>11

(* One operation more keeps the bounds, *)
LEMMA BoundedDoes ==
  ASSUME Sound, NEW h, NEW s, NEW o, Does(h, s, o)
  PROVE  /\ WorkBounded' /\ More(Ops(log'[h]), Ops(log[h]), o) /\ Ops(log[h]) \in Seq(Operations)
         /\ counter' \in Nat /\ counter <= counter'
         /\ log'[h] = Append(log[h], Entry(s, o, value[s]))
         /\ DOMAIN log'[h] = 1 .. Len(log[h]) + 1 /\ DOMAIN log[h] = 1 .. Len(log[h])
         /\ log'[h][Len(log[h]) + 1] = Entry(s, o, value[s])
         /\ \A x \in DOMAIN log[h] : log'[h][x] = log[h][x]
<1> DEFINE e == Entry(s, o, value[s])
<1>1. /\ Work' = Work /\ h \in Handles /\ s \in Slots /\ o \in Operations
      /\ e \in Items /\ e.op = o /\ log'[h] = Append(log[h], e)
      /\ \A g \in Handles : log[g] \in Seq(Items) /\ (g # h => log'[g] = log[g])
  BY TypesDoes, EntryIs DEF Sound
<1> HIDE DEF e
<1>2. /\ More(Ops(Append(log[h], e)), Ops(log[h]), e.op)
      /\ Append(log[h], e) \in Seq(Items) /\ Len(Append(log[h], e)) = Len(log[h]) + 1
      /\ Append(log[h], e)[Len(log[h]) + 1] = e
      /\ \A x \in 1 .. Len(log[h]) : Append(log[h], e)[x] = log[h][x]
  BY <1>1, ItemsAppend
<1>3. /\ More(Ops(log'[h]), Ops(log[h]), o) /\ Len(log'[h]) = Len(log[h]) + 1
      /\ log'[h] \in Seq(Items) /\ log[h] \in Seq(Items) /\ log'[h][Len(log[h]) + 1] = e
      /\ \A x \in 1 .. Len(log[h]) : log'[h][x] = log[h][x]
  BY <1>1, <1>2
<1>4. Ops(log[h]) \in Seq(Operations) /\ Len(Ops(log[h])) = Len(log[h]) /\ Len(log[h]) \in Nat
  BY <1>3, OpsIs
<1>5. counter' \in Nat /\ counter <= counter' /\ counter \in Nat /\ o.id <= counter'
  <2>1. counter \in StartNodes .. MaxId
    BY DEF Sound, Types
  <2>2. \/ o.id = counter + 1 /\ counter' = counter + 1
        \/ o.id = id[s] /\ counter' = counter
    BY DEF Does
  <2>3. id[s] <= counter
    BY <1>1 DEF Sound, Types
  <2> QED
    BY <2>1, <2>2, <2>3, Constants
<1>6. ASSUME NEW ops, Bounded(ops) PROVE Len(ops) <= MaxOps /\ \A i \in Nat : Touched(ops, i) => i <= counter'
  BY <1>5, <1>6 DEF Bounded
<1>7. Len(Ops(log'[h])) <= MaxOps /\ \A i \in Nat : Touched(Ops(log'[h]), i) => i <= counter'
  <2>1. Len(log[h]) < MaxOps
    BY DEF Does
  <2>2. Len(Ops(log'[h])) = Len(log[h]) + 1
    BY <1>3, OpsIs
  <2>3. \A i : Touched(Ops(log'[h]), i) => Touched(Ops(log[h]), i) \/ o.id = i
    BY <1>1, <1>3, <1>4, OpsAppend DEF More
  <2>4. \A i \in Nat : Touched(Ops(log[h]), i) => i <= counter'
    BY <1>1, <1>6 DEF Sound, WorkBounded
  <2> QED
    BY <1>4, <1>5, <2>1, <2>2, <2>3, <2>4, Constants
<1>8. \A g \in Handles : Bounded(Ops(log[g]))
  BY DEF Sound, WorkBounded
<1>9. \A g \in Handles : Bounded(Ops(log[g]))'
  <2>1. ASSUME NEW g \in Handles
        PROVE  Len(Ops(log'[g])) <= MaxOps /\ \A i \in Nat : Touched(Ops(log'[g]), i) => i <= counter'
    <3>1. CASE g = h
      BY <1>7, <3>1
    <3>2. CASE g # h
      <4>1. log'[g] = log[g] /\ Bounded(Ops(log[g]))
        BY <1>1, <1>8, <3>2
      <4> QED
        BY <1>6, <4>1
    <3> QED
      BY <3>1, <3>2
  <2> QED
    BY <2>1 DEF Bounded
<1>10. \A k \in 1 .. Len(queue) : Bounded(Work[k])
  BY DEF Sound, WorkBounded
<1>11. \A k \in 1 .. Len(queue) : Len(Work[k]) <= MaxOps /\ \A i \in Nat : Touched(Work[k], i) => i <= counter'
  BY <1>6, <1>10
<1>12. queue' = queue
  BY DEF Does
<1>13. WorkBounded'
  BY <1>1, <1>9, <1>11, <1>12 DEF WorkBounded, Bounded
<1> QED
  BY <1>1, <1>3, <1>4, <1>5, <1>13 DEF e

(* and what holds of locks. *)
OnlyAt(s, i) == \A t \in Slots : t # s /\ id[t] # 0 => id[t] # i

LEMMA LockDoes ==
  ASSUME Sound, NEW h, NEW s, NEW o, Does(h, s, o)
  PROVE  /\ LockInv' /\ (o.op # "CREATED" => id' = id)
         /\ \A g \in Handles : Undecided(g)' => Undecided(g)
         /\ OnlyAt(s, o.id)
<1> DEFINE e == Entry(s, o, value[s])
           n == Len(log[h])
<1>0. e.slot = s /\ e.op = o
  BY EntryIs DEF Sound
<1> HIDE DEF e
<1>1. /\ Types' /\ Work' = Work /\ h \in Handles /\ s \in Slots /\ o \in Operations
      /\ id'[s] = o.id /\ owner'[s] = h
      /\ \A t \in Slots : t # s => id'[t] = id[t] /\ owner'[t] = owner[t]
      /\ \A g \in Handles : log[g] \in Seq(Items) /\ (g # h => log'[g] = log[g])
  BY TypesDoes DEF Sound
<1>2. /\ DOMAIN log'[h] = 1 .. n + 1 /\ DOMAIN log[h] = 1 .. n /\ log'[h][n + 1] = e
      /\ \A x \in DOMAIN log[h] : log'[h][x] = log[h][x]
      /\ n \in Nat
  BY <1>1, BoundedDoes DEF e
<1> HIDE DEF n
<1>3. /\ place[h] = 0 /\ owner[s] \in {h, NoOwner} /\ place' = place /\ queue' = queue
      /\ \/ o.op = "CREATED" /\ id[s] = 0 /\ o.id = counter + 1
         \/ o.op # "CREATED" /\ id[s] = o.id
  BY DEF Does
<1>4. /\ id \in [Slots -> Nat] /\ id' \in [Slots -> Nat] /\ counter \in Nat
      /\ \A t \in Slots : id[t] <= counter
  <2>1. Types
    BY DEF Sound
  <2>2. id \in [Slots -> Nat] /\ \A t \in Slots : id[t] <= counter
    BY <2>1 DEF Types
  <2>3. id' \in [Slots -> Nat]
    BY <1>1 DEF Types
  <2>4. counter \in Nat
    BY <2>1, Constants DEF Types
  <2> QED
    BY <2>2, <2>3, <2>4
<1>5. o.op # "CREATED" => id' = id
  BY <1>1, <1>3, <1>4
<1>6. o.id # 0
  BY <1>1, OpIs
<1>7. \A t \in Slots : t # s /\ id[t] # 0 => id[t] # o.id
  <2>1. CASE o.op = "CREATED"
    BY <1>3, <1>4, <2>1
  <2>2. CASE o.op # "CREATED"
    BY <1>1, <1>3, <1>6, <2>2 DEF Sound, LockInv, IdsUnique
  <2> QED
    BY <2>1, <2>2
<1>8. IdsUnique'
  <2>1. ASSUME NEW t \in Slots, NEW u \in Slots, id'[t] = id'[u], id'[t] # 0, t # u PROVE FALSE
    <3>1. t = s \/ u = s
      BY <1>1, <2>1 DEF Sound, LockInv, IdsUnique
    <3> QED
      BY <1>1, <1>7, <2>1, <3>1
  <2> QED
    BY <2>1 DEF IdsUnique
<1>9. ASSUME NEW g \in Handles, NEW x \in DOMAIN log[g]
      PROVE  id'[log[g][x].slot] = log[g][x].op.id /\ log[g][x].slot \in Slots
  <2>1. id[log[g][x].slot] = log[g][x].op.id
    BY DEF Sound, LockInv, ItemsOnNodes
  <2>2. log[g][x].slot \in Slots /\ log[g][x].op \in Operations
    BY <1>1, OpsIs
  <2>3. log[g][x].op.id # 0
    BY <2>2, OpIs
  <2> QED
    BY <1>1, <1>3, <1>5, <2>1, <2>2, <2>3
<1>10. ItemsOnNodes'
  <2>1. ASSUME NEW g \in Handles, NEW x \in DOMAIN log'[g]
        PROVE  id'[log'[g][x].slot] = log'[g][x].op.id
    <3>1. CASE g # h
      BY <1>1, <1>9, <2>1, <3>1
    <3>2. CASE g = h /\ x = n + 1
      BY <1>0, <1>1, <1>2, <3>2
    <3>3. CASE g = h /\ x # n + 1
      <4>1. x \in DOMAIN log[h]
        BY <1>2, <2>1, <3>3
      <4> QED
        BY <1>1, <1>2, <1>9, <3>3, <4>1
    <3> QED
      BY <3>1, <3>2, <3>3
  <2> QED
    BY <2>1 DEF ItemsOnNodes
<1>11. \A g \in Handles : Undecided(g)' => Undecided(g)
  <2>1. ASSUME NEW g \in Handles, place[g] # 0, Owns(g)' # {} PROVE Owns(g) # {}
    <3>1. PICK t \in Slots : owner'[t] = g
      BY <2>1 DEF Owns
    <3>2. g # h
      BY <1>3, <2>1
    <3>3. owner[t] = g
      BY <1>1, <3>1, <3>2
    <3> QED
      BY <3>3 DEF Owns
  <2> QED
    BY <1>3, <2>1 DEF Undecided
<1>12. ItemsLocked'
  <2>1. ASSUME NEW g \in Handles, Undecided(g)', NEW x \in DOMAIN log'[g]
        PROVE  owner'[log'[g][x].slot] = g
    <3>1. \A y \in DOMAIN log[g] : owner[log[g][y].slot] = g /\ log[g][y].slot \in Slots
      BY <1>9, <1>11, <2>1 DEF Sound, LockInv, ItemsLocked
    <3>2. CASE g # h
      <4>1. x \in DOMAIN log[g] /\ log'[g] = log[g]
        BY <1>1, <2>1, <3>2
      <4>2. log[g][x].slot # s
        BY <1>3, <3>1, <3>2, <4>1, Constants
      <4> QED
        BY <1>1, <3>1, <4>1, <4>2
    <3>3. CASE g = h /\ x = n + 1
      BY <1>0, <1>1, <1>2, <3>3
    <3>4. CASE g = h /\ x # n + 1
      <4>1. x \in DOMAIN log[h]
        BY <1>2, <2>1, <3>4
      <4> QED
        BY <1>1, <1>2, <3>1, <3>4, <4>1
    <3> QED
      BY <3>2, <3>3, <3>4
  <2> QED
    BY <2>1 DEF ItemsLocked
<1>13. LocksUsed'
  <2>1. ASSUME NEW t \in Slots, owner'[t] \in Handles
        PROVE  \E x \in DOMAIN log'[owner'[t]] : log'[owner'[t]][x].slot = t
    <3>1. CASE t = s
      <4>1. n + 1 \in DOMAIN log'[h] /\ log'[h][n + 1].slot = s
        BY <1>0, <1>1, <1>2
      <4> QED
        BY <1>1, <3>1, <4>1
    <3>2. CASE t # s
      <4>1. PICK g \in Handles : g = owner[t] /\ owner'[t] = g
        BY <1>1, <2>1, <3>2
      <4>2. PICK x \in DOMAIN log[g] : log[g][x].slot = t
        BY <4>1 DEF Sound, LockInv, LocksUsed
      <4>3. x \in DOMAIN log'[g] /\ log'[g][x].slot = t
        BY <1>1, <1>2, <4>2
      <4> QED
        BY <4>1, <4>3
    <3> QED
      BY <3>1, <3>2
  <2> QED
    BY <2>1 DEF LocksUsed
<1>14. NobodyAfter'
  <2>1. ASSUME NEW g \in Handles, place[g] # 0, Owns(g)' # {}
        PROVE  \A k \in place[g] + 1 .. Len(queue) : \A i \in Ids : By(g, i)' => ~Touched(Work[k], i)
    <3>1. Owns(g) # {} /\ g # h
      BY <1>3, <1>11, <2>1 DEF Undecided
    <3>2. \A i : By(g, i)' <=> By(g, i)
      BY <1>1, <3>1 DEF By
    <3> QED
      BY <2>1, <3>1, <3>2 DEF Sound, LockInv, NobodyAfter, Queued
  <2> QED
    BY <1>1, <1>3, <2>1 DEF NobodyAfter, Queued
<1> QED
  BY <1>5, <1>7, <1>8, <1>10, <1>11, <1>12, <1>13, <1>14 DEF LockInv, OnlyAt

(* The operation fits what was done before. *)
LEMMA FitDoes ==
  ASSUME Sound, NEW h, NEW s, NEW o, Does(h, s, o)
  PROVE  /\ Fits(Work, Len(queue), Ops(log'[h]))
         /\ o.op # "CREATED" => Last(Work, Len(queue), o.id).op \notin {"NONE", "DELETED"}
                                \/ By(h, o.id)
         /\ o.op = "CREATED" => /\ o.id = counter + 1 /\ id[s] = 0
                                /\ \A k \in 0 .. Len(queue) : Last(Work, k, o.id).op = "NONE"
<1> DEFINE ops == Ops(log[h])
           new == Ops(log'[h])
           n == Len(queue)
           j == o.id
<1>1. /\ h \in Handles /\ s \in Slots /\ o \in Operations /\ place[h] = 0 /\ owner[s] \in {h, NoOwner}
      /\ \/ o.op = "CREATED" /\ id[s] = 0 /\ o.id = counter + 1
         \/ o.op # "CREATED" /\ id[s] = o.id /\ ~Doomed(s)
  BY DEF Does
<1>2. j \in Ids /\ j \in Nat \ {0}
  BY <1>1, OpIs
<1>3. More(new, ops, o) /\ ops \in Seq(Operations)
  BY BoundedDoes
<1>4. Fits(Work, n, ops)
  <2>1. Before(h) = n
    BY <1>1, WorkNow DEF Sound
  <2> QED
    BY <1>1, <2>1 DEF Sound, MemInv, LogsFit
<1>5. \A i : Touched(ops, i) <=> By(h, i)
  BY DEF By
<1>6. o.op = "CREATED" => /\ ~Touched(ops, j)
                          /\ \A k \in 0 .. n : Last(Work, k, j).op = "NONE"
  <2> HAVE o.op = "CREATED"
  <2>1. j > counter /\ j \in Nat /\ j # 0
    <3>1. counter \in Nat
      BY <1>1, LiveIds DEF Sound
    <3> QED
      BY <1>1, <1>2, <3>1
  <2>2. /\ \A g \in Handles : ~By(g, j)
        /\ \A k \in 0 .. n : Last(Work, k, j).op = "NONE"
    BY <2>1, Untouched DEF Sound
  <2> QED
    BY <1>1, <1>5, <2>2
<1>7. o.op # "CREATED" => /\ Last(Work, n, j).op # "DELETED"
                          /\ Last(Work, n, j).op # "NONE" \/ By(h, j)
                          /\ ~Deletes(ops, j)
  <2> HAVE o.op # "CREATED"
  <2>1. id[s] = j /\ ~Doomed(s) /\ id[s] # 0
    BY <1>1, <1>2
  <2>2. Last(Work, n, j).op # "DELETED"
    BY <1>1, <2>1, NotGone
  <2>3. owner[s] = h => By(h, j)
    BY <1>1, <2>1, ByIs DEF Sound
  <2>4. owner[s] = NoOwner => Last(Work, n, j).op # "NONE"
    BY <1>1, <2>1 DEF Sound, MemInv, ValuesShown, Shows, Live
  <2>5. ASSUME Deletes(ops, j) PROVE FALSE
    <3>1. /\ DOMAIN ops = DOMAIN log[h]
          /\ \A x \in DOMAIN log[h] : ops[x] = log[h][x].op
      BY <1>1, ByIs DEF Sound
    <3>2. PICK x \in DOMAIN log[h] : log[h][x].op.id = j /\ log[h][x].op.op = "DELETED"
      BY <2>5, <3>1 DEF Deletes
    <3>3. id[log[h][x].slot] = j
      BY <1>1, <3>2 DEF Sound, LockInv, ItemsOnNodes
    <3>4. log[h][x].slot \in Slots
      <4>1. log[h] \in Seq(Items)
        BY <1>1, WorkNow DEF Sound
      <4> QED
        BY <3>2, <4>1, OpsIs
    <3>5. log[h][x].slot = s
      BY <1>1, <2>1, <3>3, <3>4 DEF Sound, LockInv, IdsUnique
    <3> QED
      BY <1>1, <2>1, <3>2, <3>5 DEF Doomed
  <2> QED
    BY <1>1, <2>2, <2>3, <2>4, <2>5
<1>8. /\ new \in Seq(Operations)
      /\ \A i : /\ Touched(new, i) <=> Touched(ops, i) \/ j = i
                /\ Creates(new, i) <=> Creates(ops, i) \/ (j = i /\ o.op = "CREATED")
  BY <1>1, <1>3, OpsAppend DEF More
<1>9. Orderly(new)
  <2>1. new = Append(ops, o) /\ DOMAIN ops = 1 .. Len(ops) /\ Len(ops) \in Nat
    BY <1>3 DEF More
  <2> HIDE DEF new, ops, j
  <2>2. /\ DOMAIN new = 1 .. Len(ops) + 1 /\ new[Len(ops) + 1] = o
        /\ \A x \in 1 .. Len(ops) : new[x] = ops[x]
    BY <1>1, <1>3, <2>1
  <2>3. ASSUME NEW x \in DOMAIN new, NEW y \in DOMAIN new, new[x].id = new[y].id, x < y
        PROVE  new[x].op # "DELETED" /\ new[y].op # "CREATED"
    <3>1. x \in DOMAIN ops /\ new[x] = ops[x]
      BY <2>1, <2>2, <2>3
    <3>2. CASE y \in DOMAIN ops
      <4>1. new[y] = ops[y]
        BY <2>1, <2>2, <3>2
      <4> QED
        BY <1>4, <2>3, <3>1, <3>2, <4>1 DEF Fits, Orderly
    <3>3. CASE y \notin DOMAIN ops
      <4>1. new[y] = o
        BY <2>1, <2>2, <2>3, <3>3
      <4>2. ops[x].id = j
        BY <2>3, <3>1, <4>1 DEF j
      <4>3. Touched(ops, j)
        BY <3>1, <4>2 DEF Touched, Touches
      <4>4. o.op # "CREATED" /\ ~Deletes(ops, j)
        BY <1>6, <1>7, <4>3
      <4> QED
        BY <3>1, <4>1, <4>2, <4>4 DEF Deletes
    <3> QED
      BY <3>2, <3>3
  <2> QED
    BY <2>3 DEF Orderly
<1>10. ASSUME NEW i \in Ids, Touched(new, i)
       PROVE  /\ Last(Work, n, i).op # "DELETED"
              /\ Creates(new, i) <=> Last(Work, n, i).op = "NONE"
  <2> HIDE DEF new, ops, j, n
  <2>1. Touched(ops, i) => /\ Last(Work, n, i).op # "DELETED"
                           /\ Creates(ops, i) <=> Last(Work, n, i).op = "NONE"
    BY <1>4 DEF Fits
  <2>2. CASE i # j
    BY <1>8, <1>10, <2>1, <2>2
  <2>3. CASE i = j /\ o.op = "CREATED"
    <3>1. Last(Work, n, j).op = "NONE"
      BY <1>6, <2>3, WorkNow DEF Sound, n
    <3> QED
      BY <1>8, <2>3, <3>1
  <2>4. CASE i = j /\ o.op # "CREATED" /\ Touched(ops, i)
    BY <1>8, <2>1, <2>4
  <2>5. CASE i = j /\ o.op # "CREATED" /\ ~Touched(ops, i)
    <3>1. Last(Work, n, i).op # "DELETED" /\ Last(Work, n, i).op # "NONE"
      BY <1>5, <1>7, <2>5
    <3>2. ~Creates(ops, i)
      BY <2>5 DEF Creates, Touched, Touches
    <3> QED
      BY <1>8, <2>5, <3>1, <3>2
  <2> QED
    BY <2>2, <2>3, <2>4, <2>5
<1>11. Fits(Work, n, new)
  BY <1>9, <1>10 DEF Fits
<1> QED
  BY <1>1, <1>6, <1>7, <1>11

(* What holds of memory. *)
LEMMA MemDoes ==
  ASSUME Sound, NEW h, NEW s, NEW o, Does(h, s, o)
  PROVE  Sound'
<1> DEFINE n == Len(queue)
<1>1. /\ Types' /\ Work' = Work /\ Written' = Written /\ h \in Handles /\ s \in Slots /\ o \in Operations
      /\ id'[s] = o.id /\ owner'[s] = h
      /\ value'[s] = IF o.op = "DELETED" THEN value[s] ELSE ValueIn(o)
      /\ \A t \in Slots : t # s => id'[t] = id[t] /\ value'[t] = value[t] /\ owner'[t] = owner[t]
      /\ \A g \in Handles : log[g] \in Seq(Items) /\ (g # h => log'[g] = log[g])
  BY TypesDoes DEF Sound
<1>2. /\ place' = place /\ queue' = queue /\ place[h] = 0 /\ owner[s] \in {h, NoOwner}
      /\ \/ o.op = "CREATED" /\ id[s] = 0 /\ o.id = counter + 1 /\ owner[s] = NoOwner
         \/ o.op # "CREATED" /\ id[s] = o.id /\ ~Doomed(s)
  BY DEF Does
<1>3. WorkBounded' /\ More(Ops(log'[h]), Ops(log[h]), o) /\ Ops(log[h]) \in Seq(Operations)
  BY BoundedDoes
<1>4. /\ LockInv' /\ (o.op # "CREATED" => id' = id)
      /\ \A t \in Slots : t # s /\ id[t] # 0 => id[t] # o.id
  <2>1. LockInv' /\ (o.op # "CREATED" => id' = id)
    BY LockDoes
  <2>2. OnlyAt(s, o.id)
    BY LockDoes
  <2>3. \A t \in Slots : t # s /\ id[t] # 0 => id[t] # o.id
    BY <2>2 DEF OnlyAt
  <2> QED
    BY <2>1, <2>3
<1>5. /\ Fits(Work, n, Ops(log'[h]))
      /\ o.op # "CREATED" => Last(Work, n, o.id).op \notin {"NONE", "DELETED"} \/ By(h, o.id)
      /\ o.op = "CREATED" => \A k \in 0 .. n : Last(Work, k, o.id).op = "NONE"
  BY FitDoes
<1>6. \A g \in Handles : Before(g)' = Before(g) /\ (g # h => Ops(log'[g]) = Ops(log[g]))
  BY <1>1, <1>2 DEF Before
<1>7. \A i : /\ Touched(Ops(log'[h]), i) <=> Touched(Ops(log[h]), i) \/ o.id = i
             /\ Creates(Ops(log'[h]), i) <=> Creates(Ops(log[h]), i) \/ (o.id = i /\ o.op = "CREATED")
             /\ Touched(Ops(log'[h]), i) =>
                  LastOp(Ops(log'[h]), i) = IF o.id = i THEN o ELSE LastOp(Ops(log[h]), i)
  BY <1>1, <1>3, OpsAppend DEF More
<1>8. o.id \in Nat \ {0} /\ o.id \in Ids /\ o.op # "NONE"
  BY <1>1, OpIs
<1>9. /\ Work \in Histories /\ Len(Work) = n /\ n \in Nat /\ Written \in 0 .. n
      /\ Before(h) = n
  BY <1>1, <1>2, WorkNow DEF Sound
<1> HIDE DEF n
<1>10. LogsFit'
  <2>1. ASSUME NEW g \in Handles PROVE Fits(Work, Before(g), Ops(log'[g]))
    <3>1. CASE g = h
      BY <1>5, <1>9, <3>1
    <3>2. CASE g # h
      BY <1>6, <3>2 DEF Sound, MemInv, LogsFit
    <3> QED
      BY <3>1, <3>2
  <2> QED
    BY <1>1, <1>6, <2>1 DEF LogsFit
<1>11. LiveNotGone'
  <2>1. ASSUME NEW t \in Slots, id'[t] # 0 PROVE Last(Work, Written, id'[t]).op # "DELETED"
    <3>1. CASE t = s /\ o.op = "CREATED"
      BY <1>1, <1>5, <1>9, <3>1
    <3>2. CASE t # s \/ o.op # "CREATED"
      <4>1. id'[t] = id[t]
        BY <1>1, <1>4, <3>2
      <4> QED
        BY <2>1, <4>1 DEF Sound, MemInv, LiveNotGone, Live
    <3> QED
      BY <3>1, <3>2
  <2> QED
    BY <1>1, <2>1 DEF LiveNotGone, Live
<1>12. ValuesShown'
  <2>1. ASSUME NEW t \in Slots, id'[t] # 0, NEW g \in Handles, owner'[t] = g
        PROVE  Shows(LastOp(Ops(log'[g]), id'[t]), value'[t])
    <3>1. CASE t = s
      <4>1. g = h /\ id'[t] = o.id /\ Touched(Ops(log'[h]), o.id)
        BY <1>1, <1>7, <2>1, <3>1
      <4>2. LastOp(Ops(log'[h]), o.id) = o
        BY <1>7, <4>1
      <4> QED
        BY <1>1, <1>8, <3>1, <4>1, <4>2 DEF Shows
    <3>2. CASE t # s
      <4>1. id'[t] = id[t] /\ value'[t] = value[t] /\ owner[t] = g /\ id[t] # 0
        BY <1>1, <2>1, <3>2
      <4>2. Shows(LastOp(Ops(log[g]), id[t]), value[t])
        BY <4>1 DEF Sound, MemInv, ValuesShown, Live
      <4>3. LastOp(Ops(log'[g]), id[t]) = LastOp(Ops(log[g]), id[t])
        <5>1. CASE g = h
          <6>1. Touched(Ops(log[h]), id[t])
            BY <4>1, <5>1, ByIs DEF Sound, By
          <6>2. o.id # id[t]
            BY <1>4, <3>2, <4>1
          <6> QED
            BY <1>7, <5>1, <6>1, <6>2
        <5>2. CASE g # h
          BY <1>6, <5>2
        <5> QED
          BY <5>1, <5>2
      <4> QED
        BY <4>1, <4>2, <4>3
    <3> QED
      BY <3>1, <3>2
  <2>2. ASSUME NEW t \in Slots, id'[t] # 0, owner'[t] = NoOwner
        PROVE  Shows(Last(Work, n, id'[t]), value'[t])
    <3>1. t # s
      BY <1>1, <2>2, Constants
    <3>2. id'[t] = id[t] /\ value'[t] = value[t] /\ owner[t] = NoOwner /\ id[t] # 0
      BY <1>1, <2>2, <3>1
    <3> QED
      BY <3>2 DEF Sound, MemInv, ValuesShown, Live, n
  <2> QED
    BY <1>1, <1>2, <2>1, <2>2 DEF ValuesShown, Live, n
<1>13. NodesThere'
  <2>1. ASSUME NEW i \in Ids, NEW t \in Slots, id[t] = i PROVE \E u \in Slots : id'[u] = i
    <3>1. i # 0
      BY DEF Ids
    <3> QED
      BY <1>1, <1>2, <1>4, <2>1, <3>1
  <2> QED
    BY <1>1, <1>2, <2>1 DEF Sound, MemInv, NodesThere
<1>14. GarbageIs'
  <2>1. ASSUME NEW k \in Written + 1 .. n, queue[k].ready, NEW t \in Slots
        PROVE  t \in queue[k].garbage <=> Deletes(Work[k], id'[t])
    <3>1. t \in queue[k].garbage <=> Deletes(Work[k], id[t])
      BY <2>1 DEF Sound, MemInv, GarbageIs, n
    <3>2. CASE t = s /\ o.op = "CREATED"
      <4>1. k \in 1 .. Len(queue)
        BY <1>9, <2>1 DEF n
      <4>2. counter \in Nat /\ o.id > counter
        BY <1>1, <1>2, <1>8, <3>2, LiveIds DEF Sound
      <4>3. ~Touched(Work[k], o.id) /\ ~Touched(Work[k], 0)
        BY <1>8, <4>1, <4>2, Untouched DEF Sound
      <4>4. ~Deletes(Work[k], o.id) /\ ~Deletes(Work[k], 0)
        BY <4>3 DEF Touched, Touches, Deletes
      <4> QED
        BY <1>1, <1>2, <3>1, <3>2, <4>4
    <3>3. CASE t # s \/ o.op # "CREATED"
      <4>1. id'[t] = id[t]
        BY <1>1, <1>4, <3>3
      <4> QED
        BY <3>1, <4>1
    <3> QED
      BY <3>2, <3>3
  <2> QED
    BY <1>1, <1>2, <2>1 DEF GarbageIs, n
<1>15. OldShown'
  <2>1. ASSUME NEW t \in Slots, NEW g \in Handles, owner'[t] = g, ~Creates(Ops(log'[g]), id'[t])
        PROVE  /\ Exists(Last(Work, Before(g), id'[t]))
               /\ ValueIn(Last(Work, Before(g), id'[t])) = OldIn(log'[g], t)
    <3>1. CASE owner[t] = g
      <4>1. id'[t] = id[t]
        BY <1>1, <1>2, <1>4, <3>1, Constants
      <4>2. ~Creates(Ops(log[g]), id[t])
        BY <1>6, <1>7, <2>1, <4>1
      <4>3. /\ Exists(Last(Work, Before(g), id[t]))
            /\ ValueIn(Last(Work, Before(g), id[t])) = OldIn(log[g], t)
        BY <3>1, <4>2 DEF Sound, MemInv, OldShown
      <4>4. OldIn(log'[g], t) = OldIn(log[g], t)
        <5>1. CASE g = h
          <6>1. \E x \in DOMAIN log[h] : log[h][x].slot = t
            BY <3>1, <5>1, ByIs DEF Sound
          <6>2. PICK e \in Items : log'[h] = Append(log[h], e)
            BY EntryIs DEF Sound
          <6> QED
            BY <1>1, <5>1, <6>1, <6>2, OldInAppend
        <5>2. CASE g # h
          BY <1>1, <5>2
        <5> QED
          BY <5>1, <5>2
      <4> QED
        BY <4>1, <4>3, <4>4
    <3>2. CASE owner[t] # g
      <4>1. t = s /\ g = h /\ owner[s] = NoOwner
        BY <1>1, <1>2, <2>1, <3>2
      <4>2. o.op # "CREATED" /\ id[s] = o.id
        BY <1>1, <1>2, <1>7, <2>1, <4>1
      <4>3. ~\E x \in DOMAIN log[h] : log[h][x].slot = s
        BY <1>1, <1>2, <4>1, Constants DEF Sound, LockInv, ItemsLocked, Undecided
      <4>4. OldIn(log'[h], s) = value[s]
        <5>1. PICK e \in Items : log'[h] = Append(log[h], e) /\ e.slot = s /\ e.old = value[s]
          BY EntryIs DEF Sound
        <5> QED
          BY <1>1, <4>3, <5>1, OldInAppend
      <4>5. Shows(Last(Work, n, o.id), value[s])
        BY <1>1, <1>8, <4>1, <4>2 DEF Sound, MemInv, ValuesShown, Live, n
      <4>6. Last(Work, n, o.id).op # "DELETED"
        BY <1>1, <1>2, <1>8, <4>2, NotGone DEF n
      <4>7. Last(Work, n, o.id) \in Operations \/ Last(Work, n, o.id).op = "NONE"
        BY <1>8, <1>9, LastIs
      <4>8. Exists(Last(Work, n, o.id)) /\ ValueIn(Last(Work, n, o.id)) = value[s]
        BY <4>5, <4>6, <4>7, OpIs DEF Shows, Exists
      <4> QED
        BY <1>1, <1>9, <4>1, <4>4, <4>8
    <3> QED
      BY <3>1, <3>2
  <2> QED
    BY <1>1, <1>6, <2>1 DEF OldShown
<1>16. Valid(Work)'
  BY <1>1 DEF Sound, MemInv
<1> QED
  BY <1>1, <1>3, <1>4, <1>10, <1>11, <1>12, <1>13, <1>14, <1>15, <1>16 DEF Sound, MemInv

-----------------------------------------------------------------------------
(* Transactions in the queue *)

(* Operations fit where a history has done the same to their nodes. *)
LEMMA FitsSame ==
  ASSUME NEW V, NEW k, NEW U, NEW l, NEW ops, Fits(V, k, ops),
         \A i \in Ids : Touched(ops, i) => Last(U, l, i) = Last(V, k, i)
  PROVE  Fits(U, l, ops)
BY DEF Fits

(* The log of g, and all it rests on, is as before. *)
KeepsLog(g) ==
  /\ log'[g] = log[g]
  /\ \A i \in Ids : By(g, i) => Last(Work', Before(g)', i) = Last(Work, Before(g), i)

(* So it still fits, and what it would put back is right. *)
LEMMA LogsKept ==
  ASSUME Sound, LocksUsed', \A g \in Handles : log'[g] = <<>> \/ KeepsLog(g),
         \A s \in Slots : owner'[s] \in Handles => owner'[s] = owner[s] /\ id'[s] = id[s]
  PROVE  LogsFit' /\ OldShown'
<1>1. ASSUME NEW g \in Handles PROVE Fits(Work', Before(g)', Ops(log'[g]))
  <2>1. CASE log'[g] = <<>>
    <3>1. Ops(log'[g]) = <<>>
      BY <2>1, NoItems
    <3>2. Fits(Work', Before(g)', <<>>)
      BY NoOps DEF Fits
    <3> QED
      BY <3>1, <3>2
  <2>2. CASE KeepsLog(g)
    <3>1. Fits(Work, Before(g), Ops(log[g]))
      BY DEF Sound, MemInv, LogsFit
    <3>2. \A i \in Ids : Touched(Ops(log[g]), i) => Last(Work', Before(g)', i) = Last(Work, Before(g), i)
      BY <2>2 DEF KeepsLog, By
    <3>3. Fits(Work', Before(g)', Ops(log[g]))
      BY <3>1, <3>2, FitsSame
    <3> QED
      BY <2>2, <3>3 DEF KeepsLog
  <2> QED
    BY <2>1, <2>2
<1>2. ASSUME NEW s \in Slots, NEW g \in Handles, owner'[s] = g, ~Creates(Ops(log'[g]), id'[s])
      PROVE  /\ Exists(Last(Work', Before(g)', id'[s]))
             /\ ValueIn(Last(Work', Before(g)', id'[s])) = OldIn(log'[g], s)
  <2>1. g = owner[s] /\ id'[s] = id[s]
    BY <1>2
  <2>2. log'[g] # <<>>
    BY <1>2, <2>1 DEF LocksUsed
  <2>3. KeepsLog(g)
    BY <2>2
  <2>4. By(g, id[s]) /\ id[s] \in Ids
    BY <2>1, ByIs DEF Sound
  <2>5. log'[g] = log[g] /\ Last(Work', Before(g)', id[s]) = Last(Work, Before(g), id[s])
    BY <2>3, <2>4 DEF KeepsLog
  <2>6. /\ Exists(Last(Work, Before(g), id[s]))
        /\ ValueIn(Last(Work, Before(g), id[s])) = OldIn(log[g], s)
    BY <1>2, <2>1, <2>5 DEF Sound, MemInv, OldShown
  <2> QED
    BY <2>1, <2>5, <2>6
<1>3. LogsFit'
  BY <1>1 DEF LogsFit
<1>4. OldShown'
  BY <1>2 DEF OldShown
<1> QED
  BY <1>3, <1>4

(* A transaction enters the queue. *)
LEMMA SoundPush ==
  ASSUME Sound, NEW h \in Handles, Push(h)
  PROVE  Sound'
<1> DEFINE n == Len(queue)
           ops == Ops(log[h])
<1>1. /\ Types' /\ Written' = Written /\ Len(queue') = n + 1 /\ Work' = Append(Work, ops)
      /\ place[h] = 0 /\ place'[h] = n + 1 /\ n \in Nat
      /\ \A g \in Handles : g # h => place'[g] = place[g]
      /\ \A k \in 1 .. n : queue'[k] = queue[k]
      /\ ~queue'[n + 1].ready
  BY TypesPush DEF Sound
<1>2. UNCHANGED <<id, value, owner, counter, log>> /\ log[h] # <<>>
  BY DEF Push, memory, Running
<1>3. /\ Work \in Histories /\ Len(Work) = n /\ Written \in 0 .. n /\ ops \in Seq(Operations)
      /\ Before(h) = n
      /\ \A g \in Handles : /\ Before(g) \in 0 .. n /\ (place[g] = 0 => Before(g) = n)
                            /\ (place[g] # 0 => Before(g) = place[g] - 1)
                            /\ place[g] \in 0 .. n
  BY <1>1, WorkNow DEF Sound
<1>4. Fits(Work, n, ops) /\ Valid(Work)
  BY <1>3 DEF Sound, MemInv, LogsFit
<1>5. /\ Valid(Work') /\ Work' \in Histories /\ Len(Work') = n + 1
      /\ \A k \in 0 .. n : \A i : Last(Work', k, i) = Last(Work, k, i)
  BY <1>1, <1>3, <1>4, ValidAppend
<1>6. Work'[n + 1] = ops /\ \A k \in 1 .. n : Work'[k] = Work[k]
  BY <1>1, <1>3 DEF Histories
<1>7. \A i : Last(Work', n + 1, i) = IF By(h, i) THEN LastOp(ops, i) ELSE Last(Work, n, i)
  <2>1. ASSUME NEW i PROVE Last(Work', n + 1, i) = IF By(h, i) THEN LastOp(ops, i) ELSE Last(Work, n, i)
    <3>1. Last(Work', n + 1, i)
            = IF Touched(Work'[n + 1], i) THEN LastOp(Work'[n + 1], i) ELSE Last(Work', n, i)
      BY <1>1, LastNext
    <3>2. Last(Work', n, i) = Last(Work, n, i)
      BY <1>1, <1>5
    <3> QED
      BY <1>6, <3>1, <3>2 DEF By
  <2> QED
    BY <2>1
<1>8. Owns(h) # {} /\ Undecided(h)
  <2>1. Undecided(h)
    BY <1>1 DEF Undecided
  <2>2. log[h] \in Seq(Items)
    BY WorkNow DEF Sound
  <2>3. 1 \in DOMAIN log[h] /\ log[h][1].slot \in Slots
    BY <1>2, <2>2, OpsIs
  <2>4. owner[log[h][1].slot] = h
    BY <2>1, <2>3 DEF Sound, LockInv, ItemsLocked
  <2> QED
    BY <2>1, <2>3, <2>4 DEF Owns
<1>9. \A g \in Handles : /\ Undecided(g)' => Undecided(g)
                         /\ Owns(g)' = Owns(g) /\ \A i : By(g, i)' <=> By(g, i)
  BY <1>1, <1>2, <1>8 DEF Undecided, Owns, By
<1>10. \A g \in Handles : g # h /\ Undecided(g) => \A i \in Ids : By(g, i) => ~By(h, i)
  BY <1>8, NotBoth DEF Sound
<1> HIDE DEF n, ops
<1>11. WorkBounded'
  <2>1. ASSUME NEW k \in 1 .. n + 1 
        PROVE  Len(Work'[k]) <= MaxOps /\ \A i \in Nat : Touched(Work'[k], i) => i <= counter'
    <3>1. CASE k = n + 1
      BY <1>1, <1>2, <1>6, <3>1 DEF Sound, WorkBounded, Bounded, ops
    <3>2. CASE k # n + 1
      <4>1. k \in 1 .. n
        BY <1>1, <2>1, <3>2
      <4> QED
        BY <1>2, <1>6, <4>1 DEF Sound, WorkBounded, Bounded, n
    <3> QED
      BY <3>1, <3>2
  <2>2. \A g \in Handles :
          Len(Ops(log'[g])) <= MaxOps /\ \A i \in Nat : Touched(Ops(log'[g]), i) => i <= counter'
    BY <1>2 DEF Sound, WorkBounded, Bounded
  <2> QED
    BY <1>1, <2>1, <2>2 DEF WorkBounded, Bounded
<1>12. LockInv'
  <2>1. IdsUnique' /\ ItemsOnNodes' /\ LocksUsed'
    BY <1>2 DEF Sound, LockInv, IdsUnique, ItemsOnNodes, LocksUsed
  <2>2. ItemsLocked'
    BY <1>2, <1>9 DEF Sound, LockInv, ItemsLocked
  <2>3. ASSUME NEW g \in Handles, place'[g] # 0, Owns(g)' # {}, NEW k \in place'[g] + 1 .. n + 1,
               NEW i \in Ids, By(g, i)'
        PROVE  ~Touched(Work'[k], i)
    <3>1. g # h
      BY <1>1, <2>3
    <3>2. place[g] # 0 /\ Owns(g) # {} /\ By(g, i) /\ place'[g] = place[g]
      BY <1>1, <1>9, <2>3, <3>1
    <3>3. CASE k = n + 1
      BY <1>6, <1>10, <3>1, <3>2, <3>3 DEF Undecided, By, ops
    <3>4. CASE k # n + 1
      <4>1. k \in place[g] + 1 .. n /\ k \in 1 .. n
        BY <1>1, <1>3, <2>3, <3>2, <3>4
      <4> QED
        BY <1>6, <3>2, <4>1 DEF Sound, LockInv, NobodyAfter, Queued, n
    <3> QED
      BY <3>3, <3>4
  <2>4. NobodyAfter'
    BY <1>1, <2>3 DEF NobodyAfter, Queued
  <2> QED
    BY <2>1, <2>2, <2>4 DEF LockInv
<1>13. LogsFit' /\ OldShown'
  <2>1. ASSUME NEW g \in Handles PROVE KeepsLog(g)
    <3>1. ASSUME NEW i \in Ids, By(g, i) PROVE Last(Work', Before(g)', i) = Last(Work, Before(g), i)
      <4>1. CASE g = h \/ place[g] # 0
        <5>1. Before(g)' = Before(g)
          BY <1>1, <1>3, <4>1 DEF Before
        <5> QED
          BY <1>3, <1>5, <5>1
      <4>2. CASE g # h /\ place[g] = 0
        <5>1. Before(g)' = n + 1 /\ Before(g) = n
          BY <1>1, <1>3, <4>2 DEF Before
        <5>2. ~By(h, i)
          BY <1>10, <3>1, <4>2 DEF Undecided
        <5> QED
          BY <1>7, <5>1, <5>2
      <4> QED
        BY <4>1, <4>2
    <3> QED
      BY <1>2, <3>1 DEF KeepsLog
  <2>2. LocksUsed'
    BY <1>12 DEF LockInv
  <2>3. \A s \in Slots : owner'[s] = owner[s] /\ id'[s] = id[s]
    BY <1>2
  <2> QED
    BY <2>1, <2>2, <2>3, LogsKept
<1>14. LiveNotGone'
  BY <1>1, <1>2, <1>3, <1>5 DEF Sound, MemInv, LiveNotGone, Live
<1>15. ValuesShown'
  <2>1. ASSUME NEW s \in Slots, id[s] # 0, owner[s] = NoOwner
        PROVE  Shows(Last(Work', n + 1, id[s]), value[s])
    <3>1. ~By(h, id[s])
      <4>1. SUFFICES ASSUME By(h, id[s]) PROVE FALSE
        OBVIOUS
      <4>2. PICK t \in Slots : id[t] = id[s] /\ owner[t] = h
        BY <1>8, <4>1, ByIs DEF Sound
      <4>3. t = s
        BY <2>1, <4>2 DEF Sound, LockInv, IdsUnique
      <4> QED
        BY <2>1, <4>2, <4>3, Constants
    <3>2. Last(Work', n + 1, id[s]) = Last(Work, n, id[s])
      BY <1>7, <3>1
    <3> QED
      BY <2>1, <3>2 DEF Sound, MemInv, ValuesShown, Live, n
  <2> QED
    BY <1>1, <1>2, <2>1 DEF Sound, MemInv, ValuesShown, Live
<1>16. NodesThere'
  <2>1. ASSUME NEW i \in Ids, Last(Work', n + 1, i).op # "NONE", Last(Work', Written, i).op # "DELETED"
        PROVE  \E s \in Slots : id[s] = i
    <3>1. CASE By(h, i)
      BY <3>1, ByIs DEF Sound
    <3>2. CASE ~By(h, i)
      BY <1>3, <1>5, <1>7, <2>1, <3>2 DEF Sound, MemInv, NodesThere, n
    <3> QED
      BY <3>1, <3>2
  <2> QED
    BY <1>1, <1>2, <2>1 DEF NodesThere
<1>17. GarbageIs'
  <2>1. ASSUME NEW k \in Written + 1 .. n + 1, queue'[k].ready, NEW s \in Slots
        PROVE  s \in queue'[k].garbage <=> Deletes(Work'[k], id[s])
    <3>1. k \in Written + 1 .. n /\ k \in 1 .. n
      BY <1>1, <1>3, <2>1
    <3> QED
      BY <1>1, <1>6, <2>1, <3>1 DEF Sound, MemInv, GarbageIs, n
  <2> QED
    BY <1>1, <1>2, <2>1 DEF GarbageIs
<1> QED
  BY <1>1, <1>5, <1>11, <1>12, <1>13, <1>14, <1>15, <1>16, <1>17 DEF Sound, MemInv

(* Only the service thread or the file changes. *)
LEMMA SoundSame ==
  ASSUME Sound, Types', Written' = Written, Work' = Work, UNCHANGED <<memory, place, log, queue>>
  PROVE  Sound'
<1>1. UNCHANGED <<id, value, owner, counter, place, log, queue>>
  BY DEF memory
<1>2. WorkBounded'
  BY <1>1 DEF Sound, WorkBounded, Bounded
<1>3. \A h \in Handles : /\ Owns(h)' = Owns(h) /\ Before(h)' = Before(h)
                         /\ \A i : By(h, i)' <=> By(h, i)
  BY <1>1 DEF Owns, Before, By
<1>4. ItemsLocked'
  BY <1>1, <1>3 DEF Sound, LockInv, ItemsLocked, Undecided
<1>5. NobodyAfter'
  <2>1. ASSUME NEW h \in Handles, place[h] # 0, Owns(h) # {},
               NEW k \in place[h] + 1 .. Len(queue), NEW i \in Ids, By(h, i)
        PROVE  ~Touched(Work[k], i)
    BY <2>1 DEF Sound, LockInv, NobodyAfter, Queued
  <2> QED
    BY <1>1, <1>3, <2>1 DEF NobodyAfter, Queued
<1>6. LockInv'
  BY <1>1, <1>4, <1>5 DEF Sound, LockInv, IdsUnique, ItemsOnNodes, LocksUsed
<1>7. LogsFit' /\ OldShown'
  <2>1. \A g \in Handles : KeepsLog(g)
    BY <1>1, <1>3 DEF KeepsLog
  <2> QED
    BY <1>1, <1>6, <2>1, LogsKept DEF LockInv
<1>8. Valid(Work)' /\ LiveNotGone' /\ ValuesShown' /\ NodesThere' /\ GarbageIs'
  <2>1. Valid(Work)'
    BY DEF Sound, MemInv
  <2>2. LiveNotGone'
    BY <1>1 DEF Sound, MemInv, LiveNotGone, Live
  <2>3. ValuesShown'
    BY <1>1 DEF Sound, MemInv, ValuesShown, Live
  <2>4. NodesThere'
    BY <1>1 DEF Sound, MemInv, NodesThere
  <2>5. GarbageIs'
    BY <1>1 DEF Sound, MemInv, GarbageIs
  <2> QED
    BY <2>1, <2>2, <2>3, <2>4, <2>5
<1> QED
  BY <1>2, <1>6, <1>7, <1>8 DEF Sound, MemInv

(* A dump is asked for. *)
LEMMA SoundAsk ==
  ASSUME Sound, AskForDump
  PROVE  Sound'
<1> DEFINE n == Len(queue)
<1>0. PICK ops \in Seq(Operations) : ops = <<>>
  BY NoOps
<1>1. /\ Types' /\ Written' = Written /\ Len(queue') = n + 1 /\ n \in Nat
      /\ Work' = Append(Work, ops)
      /\ \A k \in 1 .. n : queue'[k] = queue[k]
      /\ queue'[n + 1].garbage = {}
  BY <1>0, TypesAsk DEF Sound
<1>2. UNCHANGED <<id, value, owner, counter, place, log>>
  BY DEF AskForDump, memory
<1>3. /\ Work \in Histories /\ Len(Work) = n /\ Written \in 0 .. n
      /\ \A g \in Handles : /\ Before(g) \in 0 .. n /\ (place[g] = 0 => Before(g) = n)
                            /\ (place[g] # 0 => Before(g) = place[g] - 1)
                            /\ place[g] \in 0 .. n
  BY <1>1, WorkNow DEF Sound
<1>4. Fits(Work, n, ops) /\ Valid(Work) /\ \A i : ~Touched(ops, i)
  BY <1>0, NoOps DEF Fits, Sound, MemInv
<1>5. /\ Valid(Work') /\ Work' \in Histories /\ Len(Work') = n + 1
      /\ \A k \in 0 .. n : \A i : Last(Work', k, i) = Last(Work, k, i)
  BY <1>1, <1>3, <1>4, ValidAppend
<1>6. Work'[n + 1] = ops /\ \A k \in 1 .. n : Work'[k] = Work[k]
  BY <1>1, <1>3 DEF Histories
<1>7. \A i : Last(Work', n + 1, i) = Last(Work, n, i)
  <2>1. ASSUME NEW i PROVE Last(Work', n + 1, i) = Last(Work, n, i)
    <3>1. Last(Work', n + 1, i)
            = IF Touched(Work'[n + 1], i) THEN LastOp(Work'[n + 1], i) ELSE Last(Work', n, i)
      BY <1>1, LastNext
    <3>2. Last(Work', n, i) = Last(Work, n, i)
      BY <1>1, <1>5
    <3> QED
      BY <1>4, <1>6, <3>1, <3>2
  <2> QED
    BY <2>1
<1>9. \A g \in Handles : /\ Undecided(g)' <=> Undecided(g)
                         /\ Owns(g)' = Owns(g) /\ \A i : By(g, i)' <=> By(g, i)
  BY <1>1, <1>2 DEF Undecided, Owns, By
<1> HIDE DEF n
<1>11. WorkBounded'
  <2>1. ASSUME NEW k \in 1 .. n + 1
        PROVE  Len(Work'[k]) <= MaxOps /\ \A i \in Nat : Touched(Work'[k], i) => i <= counter'
    <3>1. CASE k = n + 1
      BY <1>0, <1>4, <1>6, <3>1, Constants
    <3>2. CASE k # n + 1
      <4>1. k \in 1 .. n
        BY <1>1, <2>1, <3>2
      <4> QED
        BY <1>2, <1>6, <4>1 DEF Sound, WorkBounded, Bounded, n
    <3> QED
      BY <3>1, <3>2
  <2>2. \A g \in Handles :
          Len(Ops(log'[g])) <= MaxOps /\ \A i \in Nat : Touched(Ops(log'[g]), i) => i <= counter'
    BY <1>2 DEF Sound, WorkBounded, Bounded
  <2> QED
    BY <1>1, <2>1, <2>2 DEF WorkBounded, Bounded
<1>12. LockInv'
  <2>1. IdsUnique' /\ ItemsOnNodes' /\ LocksUsed'
    BY <1>2 DEF Sound, LockInv, IdsUnique, ItemsOnNodes, LocksUsed
  <2>2. ItemsLocked'
    BY <1>2, <1>9 DEF Sound, LockInv, ItemsLocked
  <2>3. ASSUME NEW g \in Handles, place[g] # 0, Owns(g) # {}, NEW k \in place[g] + 1 .. n + 1,
               NEW i \in Ids, By(g, i)
        PROVE  ~Touched(Work'[k], i)
    <3>3. CASE k = n + 1
      BY <1>4, <1>6, <3>3
    <3>4. CASE k # n + 1
      <4>1. k \in place[g] + 1 .. n /\ k \in 1 .. n
        BY <1>1, <1>3, <2>3, <3>4
      <4> QED
        BY <1>6, <2>3, <4>1 DEF Sound, LockInv, NobodyAfter, Queued, n
    <3> QED
      BY <3>3, <3>4
  <2>4. NobodyAfter'
    BY <1>1, <1>2, <1>9, <2>3 DEF NobodyAfter, Queued
  <2> QED
    BY <2>1, <2>2, <2>4 DEF LockInv
<1>13. LogsFit' /\ OldShown'
  <2>1. ASSUME NEW g \in Handles PROVE KeepsLog(g)
    <3>1. ASSUME NEW i \in Ids PROVE Last(Work', Before(g)', i) = Last(Work, Before(g), i)
      <4>1. CASE place[g] # 0
        <5>1. Before(g)' = Before(g)
          BY <1>1, <1>2, <1>3, <4>1 DEF Before
        <5> QED
          BY <1>3, <1>5, <5>1
      <4>2. CASE place[g] = 0
        <5>1. Before(g)' = n + 1 /\ Before(g) = n
          BY <1>1, <1>2, <1>3, <4>2 DEF Before
        <5> QED
          BY <1>7, <5>1
      <4> QED
        BY <4>1, <4>2
    <3> QED
      BY <1>2, <3>1 DEF KeepsLog
  <2>2. LocksUsed'
    BY <1>12 DEF LockInv
  <2>3. \A s \in Slots : owner'[s] = owner[s] /\ id'[s] = id[s]
    BY <1>2
  <2> QED
    BY <2>1, <2>2, <2>3, LogsKept
<1>14. LiveNotGone'
  BY <1>1, <1>2, <1>3, <1>5 DEF Sound, MemInv, LiveNotGone, Live
<1>15. ValuesShown'
  <2>1. ASSUME NEW s \in Slots, id[s] # 0, owner[s] = NoOwner
        PROVE  Shows(Last(Work', n + 1, id[s]), value[s])
    BY <1>7, <2>1 DEF Sound, MemInv, ValuesShown, Live, n
  <2> QED
    BY <1>1, <1>2, <2>1 DEF Sound, MemInv, ValuesShown, Live
<1>16. NodesThere'
  BY <1>1, <1>2, <1>3, <1>5, <1>7 DEF Sound, MemInv, NodesThere, n
<1>17. GarbageIs'
  <2>1. ASSUME NEW k \in Written + 1 .. n + 1, queue'[k].ready, NEW s \in Slots
        PROVE  s \in queue'[k].garbage <=> Deletes(Work'[k], id[s])
    <3>1. CASE k = n + 1
      BY <1>0, <1>1, <1>6, <3>1, NoOps
    <3>2. CASE k # n + 1
      <4>1. k \in Written + 1 .. n /\ k \in 1 .. n
        BY <1>1, <1>3, <2>1, <3>2
      <4> QED
        BY <1>1, <1>6, <2>1, <4>1 DEF Sound, MemInv, GarbageIs, n
    <3> QED
      BY <3>1, <3>2
  <2> QED
    BY <1>1, <1>2, <2>1 DEF GarbageIs
<1> QED
  BY <1>1, <1>5, <1>11, <1>12, <1>13, <1>14, <1>15, <1>16, <1>17 DEF Sound, MemInv

(* Locks are given back. *)
LEMMA SoundUnlock ==
  ASSUME Sound, NEW h \in Handles, Unlock(h)
  PROVE  Sound'
<1> DEFINE n == Len(queue)
           p == place[h]
<1>1. /\ Types' /\ Work' = Work /\ Written' = Written
      /\ UNCHANGED <<id, value, counter, place, log, queue, service, disk>>
      /\ p # 0 /\ Owns(h) # {}
      /\ \A s \in Slots : owner'[s] = IF owner[s] = h THEN NoOwner ELSE owner[s]
  BY TypesUnlock DEF Sound
<1>2. UNCHANGED <<id, value, counter, place, log, queue>>
  BY <1>1
<1>3. /\ n \in Nat /\ p \in 1 .. n /\ Work[p] = Ops(log[h])
      /\ \A k \in p + 1 .. n : \A i \in Ids : By(h, i) => ~Touched(Work[k], i)
  <2>1. n \in Nat /\ p \in Written + 1 .. n /\ Written \in Nat /\ Work[p] = Ops(log[h])
    BY <1>1, WorkNow DEF Sound
  <2>2. \A k \in p + 1 .. n : \A i \in Ids : By(h, i) => ~Touched(Work[k], i)
    BY <1>1 DEF Sound, LockInv, NobodyAfter, Queued
  <2> QED
    BY <2>1, <2>2
<1>4. ASSUME NEW g \in Handles
      PROVE  /\ Owns(g)' = IF g = h THEN {} ELSE Owns(g)
             /\ Before(g)' = Before(g) /\ \A i : By(g, i)' <=> By(g, i)
  BY <1>1, <1>2, Constants DEF Owns, Before, By
<1> HIDE DEF n, p
<1>5. WorkBounded'
  BY <1>1, <1>2 DEF Sound, WorkBounded, Bounded
<1>6. LockInv'
  <2>1. IdsUnique' /\ ItemsOnNodes'
    BY <1>2 DEF Sound, LockInv, IdsUnique, ItemsOnNodes
  <2>2. ItemsLocked'
    <3>1. ASSUME NEW g \in Handles, Undecided(g)', NEW x \in DOMAIN log[g]
          PROVE  owner'[log[g][x].slot] = g
      <4>1. g # h /\ Undecided(g)
        BY <1>1, <1>2, <1>4, <3>1 DEF Undecided, p
      <4>2. owner[log[g][x].slot] = g /\ log[g][x].slot \in Slots
        <5>1. log[g] \in Seq(Items)
          BY WorkNow DEF Sound
        <5> QED
          BY <3>1, <4>1, <5>1, OpsIs DEF Sound, LockInv, ItemsLocked
      <4> QED
        BY <1>1, <4>1, <4>2
    <3> QED
      BY <1>2, <3>1 DEF ItemsLocked
  <2>3. LocksUsed'
    <3>1. \A s \in Slots : owner'[s] \in Handles => owner'[s] = owner[s]
      BY <1>1, Constants
    <3> QED
      BY <1>2, <3>1 DEF Sound, LockInv, LocksUsed
  <2>4. NobodyAfter'
    <3>1. ASSUME NEW g \in Handles, place[g] # 0, Owns(g)' # {}, NEW k \in place[g] + 1 .. n,
                 NEW i \in Ids, By(g, i)
          PROVE  ~Touched(Work[k], i)
      <4>1. Owns(g) # {}
        BY <1>4, <3>1
      <4> QED
        BY <3>1, <4>1 DEF Sound, LockInv, NobodyAfter, Queued, n
    <3> QED
      BY <1>1, <1>2, <1>4, <3>1 DEF NobodyAfter, Queued, n
  <2> QED
    BY <2>1, <2>2, <2>3, <2>4 DEF LockInv
<1>7. LogsFit' /\ OldShown'
  <2>1. \A g \in Handles : KeepsLog(g)
    BY <1>1, <1>2, <1>4 DEF KeepsLog
  <2>2. \A s \in Slots : owner'[s] \in Handles => owner'[s] = owner[s] /\ id'[s] = id[s]
    BY <1>1, <1>2, Constants
  <2>3. LocksUsed'
    BY <1>6 DEF LockInv
  <2> QED
    BY <2>1, <2>2, <2>3, LogsKept
<1>8. ValuesShown'
  <2>1. ASSUME NEW s \in Slots, id[s] # 0, owner'[s] \in Handles
        PROVE  Shows(LastOp(Ops(log[owner'[s]]), id[s]), value[s])
    <3>1. owner'[s] = owner[s]
      BY <1>1, <2>1, Constants
    <3> QED
      BY <2>1, <3>1 DEF Sound, MemInv, ValuesShown, Live
  <2>2. ASSUME NEW s \in Slots, id[s] # 0, owner'[s] = NoOwner
        PROVE  Shows(Last(Work, n, id[s]), value[s])
    <3>1. CASE owner[s] = NoOwner
      BY <2>2, <3>1 DEF Sound, MemInv, ValuesShown, Live, n
    <3>2. CASE owner[s] = h
      <4>1. By(h, id[s]) /\ id[s] \in Ids
        BY <3>2, ByIs DEF Sound
      <4>2. Shows(LastOp(Ops(log[h]), id[s]), value[s])
        BY <2>2, <3>2 DEF Sound, MemInv, ValuesShown, Live
      <4>3. Last(Work, n, id[s]) = Last(Work, p, id[s])
        BY <1>3, <4>1, LastStays
      <4>4. Last(Work, p, id[s]) = LastOp(Work[p], id[s])
        <5>1. PICK m \in Nat : p = m + 1
          BY <1>3
        <5>2. Last(Work, m + 1, id[s])
                = IF Touched(Work[m + 1], id[s]) THEN LastOp(Work[m + 1], id[s])
                  ELSE Last(Work, m, id[s])
          BY <5>1, LastNext
        <5>3. Touched(Work[m + 1], id[s])
          BY <1>3, <4>1, <5>1 DEF By
        <5> QED
          BY <5>1, <5>2, <5>3
      <4> QED
        BY <1>3, <4>2, <4>3, <4>4
    <3>3. owner[s] \in {NoOwner, h}
      BY <1>1, <2>2
    <3> QED
      BY <3>1, <3>2, <3>3
  <2> QED
    BY <1>1, <1>2, <2>1, <2>2 DEF ValuesShown, Live, n
<1>9. Valid(Work)' /\ LiveNotGone' /\ NodesThere' /\ GarbageIs'
  <2>1. Valid(Work)' /\ LiveNotGone'
    BY <1>1, <1>2 DEF Sound, MemInv, LiveNotGone, Live
  <2>2. NodesThere'
    BY <1>1, <1>2 DEF Sound, MemInv, NodesThere
  <2>3. GarbageIs'
    BY <1>1, <1>2 DEF Sound, MemInv, GarbageIs
  <2> QED
    BY <2>1, <2>2, <2>3
<1> QED
  BY <1>1, <1>5, <1>6, <1>7, <1>8, <1>9 DEF Sound, MemInv

(* A job is filled. *)
LEMMA SoundFill ==
  ASSUME Sound, NEW h \in Handles, Fill(h)
  PROVE  Sound'
<1> DEFINE n == Len(queue)
           p == place[h]
<1>1. /\ Types' /\ Work' = Work /\ Written' = Written /\ Len(queue') = n
      /\ UNCHANGED <<memory, service, disk>>
      /\ p \in Written + 1 .. n /\ Owns(h) = {}
      /\ queue'[p].ready /\ queue'[p].garbage = SlotsOf(log[h], "DELETED")
      /\ Work[p] = Ops(log[h])
      /\ \A k \in 1 .. n : k # p => queue'[k] = queue[k]
      /\ log'[h] = <<>> /\ place'[h] = 0
      /\ \A g \in Handles : g # h => log'[g] = log[g] /\ place'[g] = place[g]
  BY TypesFill DEF Sound
<1>2. UNCHANGED <<id, value, owner, counter>>
  BY <1>1 DEF memory
<1>3. n \in Nat /\ Written \in 0 .. n
  BY WorkNow DEF Sound
<1>4. \A g \in Handles : g # h => /\ Owns(g)' = Owns(g) /\ Before(g)' = Before(g)
                                  /\ \A i : By(g, i)' <=> By(g, i)
  BY <1>1, <1>2 DEF Owns, Before, By
<1>5. \A s \in Slots : owner[s] # h
  BY <1>1 DEF Owns
<1> HIDE DEF n, p
<1>6. WorkBounded'
  <2>1. \A g \in Handles :
          Len(Ops(log'[g])) <= MaxOps /\ \A i \in Nat : Touched(Ops(log'[g]), i) => i <= counter'
    <3>1. ASSUME NEW g \in Handles
          PROVE  Len(Ops(log'[g])) <= MaxOps /\ \A i \in Nat : Touched(Ops(log'[g]), i) => i <= counter'
      <4>1. CASE g = h
        <5>1. Ops(log'[g]) = <<>> /\ Len(<<>>) = 0
          BY <1>1, <4>1, NoItems
        <5>2. \A i : ~Touched(Ops(log'[g]), i)
          BY <5>1, NoOps
        <5> QED
          BY <5>1, <5>2, Constants
      <4>2. CASE g # h
        BY <1>1, <1>2, <4>2 DEF Sound, WorkBounded, Bounded
      <4> QED
        BY <4>1, <4>2
    <3> QED
      BY <3>1
  <2>2. \A k \in 1 .. n : Len(Work[k]) <= MaxOps /\ \A i \in Nat : Touched(Work[k], i) => i <= counter'
    BY <1>2 DEF Sound, WorkBounded, Bounded, n
  <2> QED
    BY <1>1, <2>1, <2>2 DEF WorkBounded, Bounded
<1>7. LockInv'
  <2>1. IdsUnique'
    BY <1>2 DEF Sound, LockInv, IdsUnique
  <2>2. ItemsOnNodes'
    BY <1>1, <1>2 DEF Sound, LockInv, ItemsOnNodes
  <2>3. ItemsLocked'
    BY <1>1, <1>2, <1>4 DEF Sound, LockInv, ItemsLocked, Undecided
  <2>4. LocksUsed'
    BY <1>1, <1>2, <1>5 DEF Sound, LockInv, LocksUsed
  <2>5. NobodyAfter'
    <3>1. ASSUME NEW g \in Handles, place'[g] # 0, Owns(g)' # {}, NEW k \in place'[g] + 1 .. n,
                 NEW i \in Ids, By(g, i)'
          PROVE  ~Touched(Work[k], i)
      <4>1. g # h
        BY <1>1, <3>1
      <4>2. place[g] # 0 /\ Owns(g) # {} /\ k \in place[g] + 1 .. n /\ By(g, i)
        BY <1>1, <1>4, <3>1, <4>1
      <4> QED
        BY <3>1, <4>2 DEF Sound, LockInv, NobodyAfter, Queued, n
    <3> QED
      BY <1>1, <3>1 DEF NobodyAfter, Queued
  <2> QED
    BY <2>1, <2>2, <2>3, <2>4, <2>5 DEF LockInv
<1>8. LogsFit' /\ OldShown'
  <2>1. \A g \in Handles : log'[g] = <<>> \/ KeepsLog(g)
    BY <1>1, <1>4 DEF KeepsLog
  <2>2. \A s \in Slots : owner'[s] = owner[s] /\ id'[s] = id[s]
    BY <1>2
  <2>3. LocksUsed'
    BY <1>7 DEF LockInv
  <2> QED
    BY <2>1, <2>2, <2>3, LogsKept
<1>9. ValuesShown'
  <2>1. ASSUME NEW s \in Slots, id[s] # 0, owner[s] \in Handles
        PROVE  Shows(LastOp(Ops(log'[owner[s]]), id[s]), value[s])
    <3>1. log'[owner[s]] = log[owner[s]]
      BY <1>1, <1>5, <2>1
    <3> QED
      BY <2>1, <3>1 DEF Sound, MemInv, ValuesShown, Live
  <2> QED
    BY <1>1, <1>2, <2>1 DEF Sound, MemInv, ValuesShown, Live, n
<1>10. Valid(Work)' /\ LiveNotGone' /\ NodesThere'
  <2>1. Valid(Work)' /\ LiveNotGone'
    BY <1>1, <1>2 DEF Sound, MemInv, LiveNotGone, Live
  <2>2. NodesThere'
    BY <1>1, <1>2 DEF Sound, MemInv, NodesThere, n
  <2> QED
    BY <2>1, <2>2
<1>11. ASSUME NEW s \in Slots PROVE s \in SlotsOf(log[h], "DELETED") <=> Deletes(Work[p], id[s])
  <2> DEFINE items == log[h]
  <2>1. items \in Seq(Items)
    BY WorkNow DEF Sound
  <2>2. /\ DOMAIN Ops(items) = DOMAIN items
        /\ \A x \in DOMAIN items : Ops(items)[x] = items[x].op /\ items[x].slot \in Slots
                                   /\ items[x].op \in Operations
    BY <2>1, OpsIs
  <2>3. \A x \in DOMAIN items : id[items[x].slot] = items[x].op.id /\ items[x].op.id # 0
    BY <2>2, OpIs DEF Sound, LockInv, ItemsOnNodes
  <2>4. \A x \in DOMAIN items : items[x].slot = s <=> items[x].op.id = id[s]
    BY <2>2, <2>3 DEF Sound, LockInv, IdsUnique
  <2>5. s \in SlotsOf(items, "DELETED") <=>
          \E x \in DOMAIN items : items[x].op.op = "DELETED" /\ items[x].slot = s
    BY DEF SlotsOf
  <2>6. Deletes(Ops(items), id[s]) <=>
          \E x \in DOMAIN items : items[x].op.id = id[s] /\ items[x].op.op = "DELETED"
    BY <2>2 DEF Deletes
  <2> QED
    BY <1>1, <2>4, <2>5, <2>6
<1>12. GarbageIs'
  <2>1. ASSUME NEW k \in Written + 1 .. n, queue'[k].ready, NEW s \in Slots
        PROVE  s \in queue'[k].garbage <=> Deletes(Work[k], id[s])
    <3>1. CASE k = p
      BY <1>1, <1>11, <3>1
    <3>2. CASE k # p
      <4>1. k \in 1 .. n
        BY <1>3, <2>1
      <4>2. queue'[k] = queue[k]
        BY <1>1, <3>2, <4>1
      <4> QED
        BY <2>1, <4>2 DEF Sound, MemInv, GarbageIs, n
    <3> QED
      BY <3>1, <3>2
  <2> QED
    BY <1>1, <1>2, <2>1 DEF GarbageIs
<1> QED
  BY <1>1, <1>6, <1>7, <1>8, <1>9, <1>10, <1>12 DEF Sound, MemInv

-----------------------------------------------------------------------------
(* A transaction is given up *)

(* What the history then says of a node. *)
LEMMA GiveUpLast ==
  ASSUME Sound, NEW h, GiveUp(h)
  PROVE  /\ Work' \in Histories /\ Len(Work') = Len(queue) /\ Undecided(h) /\ h \in Handles
         /\ Before(h) \in Written .. Len(queue)
         /\ \A k \in 1 .. Len(queue) : Work'[k] = IF k = place[h] THEN <<>> ELSE Work[k]
         /\ \A k \in 0 .. Len(queue) : \A i :
              ~By(h, i) \/ k <= Before(h) => Last(Work', k, i) = Last(Work, k, i)
         /\ \A k \in Before(h) .. Len(queue) : \A i :
              By(h, i) => Last(Work', k, i) = Last(Work, Before(h), i)
<1> DEFINE n == Len(queue)
           p == place[h]
           b == Before(h)
<1>1. h \in Handles /\ Undecided(h)
  BY DEF GiveUp, Undecided
<1>2. /\ Shape(queue', place', log') /\ Len(queue') = n /\ n \in Nat
      /\ \A k \in 1 .. n : Work'[k] = IF k = p THEN <<>> ELSE Work[k]
  BY GiveUpShape DEF Sound
<1>3. Work' \in Histories /\ Len(Work') = n
  BY <1>2, WorkIs DEF Work
<1>4. /\ b \in 0 .. n /\ Written \in 0 .. n
      /\ p # 0 => Work[p] = Ops(log[h]) /\ p \in Written + 1 .. n /\ b = p - 1
      /\ p = 0 => b = n
  BY <1>1, WorkNow DEF Sound
<1>5. b \in Written .. n
  BY <1>4
<1> HIDE DEF n, p, b
<1>6. ASSUME NEW k \in 0 .. n, NEW i, ~By(h, i) \/ k <= b
      PROVE  Last(Work', k, i) = Last(Work, k, i)
  <2>1. ASSUME NEW j \in 1 .. k
        PROVE  Work'[j] = Work[j] \/ (~Touched(Work'[j], i) /\ ~Touched(Work[j], i))
    <3>1. j \in 1 .. n
      BY <1>2
    <3>2. CASE j # p
      BY <1>2, <3>1, <3>2
    <3>3. CASE j = p
      <4>1. p # 0 /\ k > b
        BY <1>4, <2>1, <3>3
      <4>2. ~Touched(Work[p], i)
        BY <1>4, <1>6, <4>1 DEF By
      <4>3. Work'[j] = <<>>
        BY <1>2, <3>1, <3>3
      <4> QED
        BY <3>3, <4>2, <4>3, NoOps
    <3> QED
      BY <3>2, <3>3
  <2>2. k \in Nat
    BY <1>2
  <2> QED
    BY <2>1, <2>2, LastSame
<1>7. ASSUME NEW k \in b .. n, NEW i, By(h, i)
      PROVE  Last(Work', k, i) = Last(Work, b, i)
  <2>1. ASSUME NEW j \in b + 1 .. k PROVE ~Touched(Work'[j], i)
    <3>1. j \in b + 1 .. n /\ j \in 1 .. n
      BY <1>2, <1>4
    <3>2. j = p \/ ~Touched(Work[j], i)
      BY <1>1, <1>7, <3>1, NoOther DEF n, b, p
    <3>3. CASE j = p
      <4>1. Work'[j] = <<>>
        BY <1>2, <3>1, <3>3
      <4> QED
        BY <4>1, NoOps
    <3>4. CASE j # p
      BY <1>2, <3>1, <3>2, <3>4
    <3> QED
      BY <3>3, <3>4
  <2>2. k \in Nat /\ b \in Nat /\ b <= k
    BY <1>2, <1>4
  <2>3. Last(Work', k, i) = Last(Work', b, i)
    BY <2>1, <2>2, LastStays
  <2>4. b \in 0 .. n /\ b <= b
    BY <1>4
  <2>5. Last(Work', b, i) = Last(Work, b, i)
    BY <1>6, <2>4
  <2> QED
    BY <2>3, <2>5
<1>8. \A k \in 0 .. n : \A i : ~By(h, i) \/ k <= b => Last(Work', k, i) = Last(Work, k, i)
  BY <1>6
<1>9. \A k \in b .. n : \A i : By(h, i) => Last(Work', k, i) = Last(Work, b, i)
  BY <1>7
<1> QED
  BY <1>1, <1>2, <1>3, <1>5, <1>8, <1>9 DEF n, p, b

(* Places of nodes a transaction has created. *)
LEMMA CreatedSlots ==
  ASSUME Sound, NEW h \in Handles, NEW s \in Slots
  PROVE  /\ s \in SlotsOf(log[h], "CREATED") <=> Creates(Ops(log[h]), id[s])
         /\ Creates(Ops(log[h]), id[s]) => By(h, id[s])
         /\ s \in SlotsOf(log[h], "CREATED") /\ Undecided(h) => owner[s] = h
<1> DEFINE items == log[h]
<1>1. items \in Seq(Items)
  BY WorkNow DEF Sound
<1>2. /\ DOMAIN Ops(items) = DOMAIN items
      /\ \A x \in DOMAIN items : Ops(items)[x] = items[x].op /\ items[x].slot \in Slots
                                 /\ items[x].op \in Operations
  BY <1>1, OpsIs
<1>3. \A x \in DOMAIN items : id[items[x].slot] = items[x].op.id /\ items[x].op.id # 0
  BY <1>2, OpIs DEF Sound, LockInv, ItemsOnNodes
<1>4. \A x \in DOMAIN items : items[x].slot = s <=> items[x].op.id = id[s]
  BY <1>2, <1>3 DEF Sound, LockInv, IdsUnique
<1>5. s \in SlotsOf(items, "CREATED") <=>
        \E x \in DOMAIN items : items[x].op.op = "CREATED" /\ items[x].slot = s
  BY DEF SlotsOf
<1>6. Creates(Ops(items), id[s]) <=>
        \E x \in DOMAIN items : items[x].op.id = id[s] /\ items[x].op.op = "CREATED"
  BY <1>2 DEF Creates
<1>7. s \in SlotsOf(items, "CREATED") /\ Undecided(h) => owner[s] = h
  BY <1>5 DEF Sound, LockInv, ItemsLocked
<1>8. Creates(Ops(items), id[s]) => By(h, id[s])
  BY DEF Creates, By, Touched, Touches
<1> QED
  BY <1>4, <1>5, <1>6, <1>7, <1>8

(* All is as if it had never been. *)
LEMMA SoundGiveUp ==
  ASSUME Sound, NEW h, GiveUp(h)
  PROVE  Sound'
<1> DEFINE n == Len(queue)
           p == place[h]
           b == Before(h)
           C == SlotsOf(log[h], "CREATED")
<1>1. /\ Types' /\ Written' = Written
      /\ \A s \in Slots :
           /\ id'[s] = IF s \in C THEN 0 ELSE id[s]
           /\ value'[s] = IF owner[s] = h THEN OldIn(log[h], s) ELSE value[s]
           /\ owner'[s] = IF owner[s] = h THEN NoOwner ELSE owner[s]
      /\ log'[h] = <<>> /\ place'[h] = 0
      /\ \A g \in Handles : g # h => log'[g] = log[g] /\ place'[g] = place[g]
  BY TypesGiveUp DEF Sound, LockInv
<1>2. /\ Len(queue') = n /\ n \in Nat
      /\ p # 0 => queue'[p].garbage = {}
      /\ \A k \in 1 .. n : k # p => queue'[k] = queue[k]
  BY GiveUpShape DEF Sound
<1>3. /\ Work' \in Histories /\ Len(Work') = n /\ Undecided(h) /\ h \in Handles
      /\ b \in Written .. n
      /\ \A k \in 1 .. n : Work'[k] = IF k = p THEN <<>> ELSE Work[k]
      /\ \A k \in 0 .. n : \A i : ~By(h, i) \/ k <= b => Last(Work', k, i) = Last(Work, k, i)
      /\ \A k \in b .. n : \A i : By(h, i) => Last(Work', k, i) = Last(Work, b, i)
  BY GiveUpLast
<1>4. /\ Written \in 0 .. n /\ b \in 0 .. n
      /\ p = 0 => b = n
      /\ p # 0 => b = p - 1 /\ p \in 1 .. n
  BY <1>3, WorkNow DEF Sound
<1>5. counter' = counter
  BY DEF GiveUp
<1>6. ASSUME NEW g \in Handles, g # h
      PROVE  /\ Owns(g)' = Owns(g) /\ Before(g)' = Before(g)
             /\ \A i : By(g, i)' <=> By(g, i)
             /\ Undecided(g)' <=> Undecided(g)
  <2>1. Owns(g)' = Owns(g)
    BY <1>1, <1>6, Constants DEF Owns
  <2>2. Before(g)' = Before(g)
    BY <1>1, <1>2, <1>6 DEF Before
  <2> QED
    BY <1>1, <1>6, <2>1, <2>2 DEF By, Undecided
<1>7. ASSUME NEW s \in Slots
      PROVE  /\ s \in C <=> Creates(Ops(log[h]), id[s])
             /\ s \in C => owner[s] = h /\ By(h, id[s])
  BY <1>3, CreatedSlots
<1>8. ASSUME NEW i, By(h, i)
      PROVE  /\ \A k \in b + 1 .. n : k = p \/ ~Touched(Work[k], i)
             /\ Creates(Ops(log[h]), i) <=> Last(Work, b, i).op = "NONE"
             /\ Creates(Ops(log[h]), i) => \A k \in 1 .. n : k = p \/ ~Touched(Work[k], i)
             /\ i \in Ids
  <2>1. i \in Ids
    BY <1>3, <1>8, ByIs DEF Sound
  <2> QED
    BY <1>3, <1>8, <2>1, NoOther
(* whose queued jobs touch what h has changed *)
<1>9. ASSUME NEW g \in Handles, g # h, NEW i, By(g, i), By(h, i)
      PROVE  Before(g) < b /\ ~Creates(Ops(log[h]), i) /\ Before(g) \in 0 .. n
  <2>1. ~Undecided(g)
    BY <1>3, <1>9, NotBoth DEF Sound
  <2>2. place[g] # 0
    BY <2>1 DEF Undecided
  <2>3. /\ Work[place[g]] = Ops(log[g]) /\ place[g] \in Written + 1 .. n /\ Before(g) = place[g] - 1
        /\ Before(g) \in 0 .. n
    BY <2>2, WorkNow DEF Sound
  <2>4. place[g] # p
    BY <1>3, <1>9, <2>2, WorkNow DEF Sound
  <2>5. Touched(Work[place[g]], i)
    BY <1>9, <2>3 DEF By
  <2>6. place[g] \notin b + 1 .. n
    BY <1>8, <1>9, <2>4, <2>5
  <2>7. place[g] \in 1 .. n
    BY <1>4, <2>3
  <2>8. ~Creates(Ops(log[h]), i)
    BY <1>8, <1>9, <2>4, <2>5, <2>7
  <2> QED
    BY <1>4, <2>3, <2>6, <2>7, <2>8
<1> HIDE DEF n, p, b, C
<1>10. WorkBounded'
  <2>1. \A ops : ops = <<>> => Len(ops) <= MaxOps /\ \A i \in Nat : Touched(ops, i) => i <= counter'
    BY NoOps, Constants
  <2>2. ASSUME NEW g \in Handles
        PROVE  Len(Ops(log'[g])) <= MaxOps /\ \A i \in Nat : Touched(Ops(log'[g]), i) => i <= counter'
    <3>1. CASE g = h
      <4>1. Ops(log'[g]) = <<>>
        BY <1>1, <3>1, NoItems
      <4> QED
        BY <2>1, <4>1
    <3>2. CASE g # h
      BY <1>1, <1>5, <3>2 DEF Sound, WorkBounded, Bounded
    <3> QED
      BY <3>1, <3>2
  <2>3. ASSUME NEW k \in 1 .. n
        PROVE  Len(Work'[k]) <= MaxOps /\ \A i \in Nat : Touched(Work'[k], i) => i <= counter'
    <3>1. CASE k = p
      BY <1>3, <2>1, <3>1
    <3>2. CASE k # p
      BY <1>3, <1>5, <3>2 DEF Sound, WorkBounded, Bounded, n
    <3> QED
      BY <3>1, <3>2
  <2> QED
    BY <1>2, <2>2, <2>3 DEF WorkBounded, Bounded
<1>11. LockInv'
  <2>1. IdsUnique'
    BY <1>1 DEF Sound, LockInv, IdsUnique
  <2>2. ItemsOnNodes'
    <3>1. ASSUME NEW g \in Handles, g # h, NEW x \in DOMAIN log[g]
          PROVE  id'[log[g][x].slot] = log[g][x].op.id
      <4>1. log[g] \in Seq(Items)
        BY WorkNow DEF Sound
      <4>2. PICK s \in Slots : s = log[g][x].slot
        BY <3>1, <4>1, OpsIs
      <4>3. id[s] = log[g][x].op.id
        BY <3>1, <4>2 DEF Sound, LockInv, ItemsOnNodes
      <4>4. By(g, id[s])
        BY <3>1, <4>3, ByIs DEF Sound
      <4>5. s \notin C
        BY <1>7, <1>9, <3>1, <4>4
      <4> QED
        BY <1>1, <4>2, <4>3, <4>5
    <3> QED
      BY <1>1, <3>1 DEF ItemsOnNodes
  <2>3. ItemsLocked'
    <3>1. ASSUME NEW g \in Handles, g # h, Undecided(g), NEW x \in DOMAIN log[g]
          PROVE  owner'[log[g][x].slot] = g
      <4>1. log[g] \in Seq(Items)
        BY WorkNow DEF Sound
      <4>2. PICK s \in Slots : s = log[g][x].slot
        BY <3>1, <4>1, OpsIs
      <4>3. owner[s] = g
        BY <3>1, <4>2 DEF Sound, LockInv, ItemsLocked
      <4> QED
        BY <1>1, <3>1, <4>2, <4>3
    <3> QED
      BY <1>1, <1>6, <3>1 DEF ItemsLocked
  <2>4. LocksUsed'
    <3>1. ASSUME NEW s \in Slots, owner'[s] \in Handles
          PROVE  \E x \in DOMAIN log'[owner'[s]] : log'[owner'[s]][x].slot = s
      <4>1. PICK g \in Handles : g = owner[s] /\ g = owner'[s] /\ g # h
        BY <1>1, <3>1, Constants
      <4>2. \E x \in DOMAIN log[g] : log[g][x].slot = s
        BY <4>1 DEF Sound, LockInv, LocksUsed
      <4> QED
        BY <1>1, <4>1, <4>2
    <3> QED
      BY <3>1 DEF LocksUsed
  <2>5. NobodyAfter'
    <3>1. ASSUME NEW g \in Handles, place'[g] # 0, Owns(g)' # {}, NEW k \in place'[g] + 1 .. n,
                 NEW i \in Ids, By(g, i)'
          PROVE  ~Touched(Work'[k], i)
      <4>1. g # h
        BY <1>1, <3>1
      <4>2. place[g] # 0 /\ Owns(g) # {} /\ k \in place[g] + 1 .. n /\ By(g, i)
        BY <1>1, <1>6, <3>1, <4>1
      <4>3. ~Touched(Work[k], i)
        BY <4>2 DEF Sound, LockInv, NobodyAfter, Queued, n
      <4>4. place[g] \in 0 .. n
        BY WorkNow DEF Sound, n
      <4>5. k \in 1 .. n
        BY <1>2, <4>2, <4>4
      <4> QED
        BY <1>3, <4>3, <4>5, NoOps
    <3> QED
      BY <1>2, <3>1 DEF NobodyAfter, Queued
  <2> QED
    BY <2>1, <2>2, <2>3, <2>4, <2>5 DEF LockInv
<1>12. LogsFit' /\ OldShown'
  <2>1. ASSUME NEW g \in Handles PROVE log'[g] = <<>> \/ KeepsLog(g)
    <3>1. CASE g = h
      BY <1>1, <3>1
    <3>2. CASE g # h
      <4>1. ASSUME NEW i \in Ids, By(g, i) PROVE Last(Work', Before(g), i) = Last(Work, Before(g), i)
        <5>1. Before(g) \in 0 .. n
          BY WorkNow DEF Sound, n
        <5>2. CASE ~By(h, i)
          BY <1>3, <5>1, <5>2
        <5>3. CASE By(h, i)
          <6>1. Before(g) <= b
            BY <1>4, <1>9, <3>2, <4>1, <5>1, <5>3
          <6> QED
            BY <1>3, <5>1, <6>1
        <5> QED
          BY <5>2, <5>3
      <4> QED
        BY <1>1, <1>6, <3>2, <4>1 DEF KeepsLog
    <3> QED
      BY <3>1, <3>2
  <2>2. \A s \in Slots : owner'[s] \in Handles => owner'[s] = owner[s] /\ id'[s] = id[s]
    BY <1>1, <1>7, Constants
  <2>3. LocksUsed'
    BY <1>11 DEF LockInv
  <2> QED
    BY <2>1, <2>2, <2>3, LogsKept
<1>13. Valid(Work)'
  <2>1. ASSUME NEW j \in 1 .. n PROVE Fits(Work', j - 1, Work'[j])
    <3>1. CASE j = p
      <4>1. Work'[j] = <<>>
        BY <1>3, <3>1
      <4>2. Fits(Work', j - 1, <<>>)
        BY NoOps DEF Fits
      <4> QED
        BY <4>1, <4>2
    <3>2. CASE j # p
      <4>1. Work'[j] = Work[j]
        BY <1>3, <3>2
      <4>2. Fits(Work, j - 1, Work[j])
        <5>1. Valid(Work) /\ Len(Work) = n
          BY WorkNow DEF Sound, MemInv, n
        <5> QED
          BY <5>1 DEF Valid
      <4>3. ASSUME NEW i \in Ids, Touched(Work[j], i)
            PROVE  Last(Work', j - 1, i) = Last(Work, j - 1, i)
        <5>1. j - 1 \in 0 .. n
          BY <1>2
        <5>2. CASE ~By(h, i)
          BY <1>3, <5>1, <5>2
        <5>3. CASE By(h, i)
          <6>1. j \notin b + 1 .. n
            BY <1>8, <3>2, <4>3, <5>3
          <6>2. j - 1 <= b
            BY <1>2, <1>4, <6>1
          <6> QED
            BY <1>3, <5>1, <6>2
        <5> QED
          BY <5>2, <5>3
      <4>4. Fits(Work', j - 1, Work[j])
        BY <4>2, <4>3, FitsSame
      <4> QED
        BY <4>1, <4>4
    <3> QED
      BY <3>1, <3>2
  <2> QED
    BY <1>3, <2>1 DEF Valid
<1>14. LiveNotGone'
  <2>1. ASSUME NEW s \in Slots, id'[s] # 0 PROVE Last(Work', Written, id'[s]).op # "DELETED"
    <3>1. id'[s] = id[s]
      BY <1>1, <2>1
    <3>2. Written <= b
      BY <1>3, <1>4
    <3>3. Last(Work', Written, id[s]) = Last(Work, Written, id[s])
      BY <1>3, <1>4, <3>2
    <3> QED
      BY <2>1, <3>1, <3>3 DEF Sound, MemInv, LiveNotGone, Live
  <2> QED
    BY <1>1, <2>1 DEF LiveNotGone, Live
<1>15. ValuesShown'
  <2>1. ASSUME NEW s \in Slots, id'[s] # 0, NEW g \in Handles, owner'[s] = g
        PROVE  Shows(LastOp(Ops(log'[g]), id'[s]), value'[s])
    <3>1. g = owner[s] /\ g # h /\ id'[s] = id[s] /\ value'[s] = value[s] /\ log'[g] = log[g]
      BY <1>1, <2>1, Constants
    <3> QED
      BY <2>1, <3>1 DEF Sound, MemInv, ValuesShown, Live
  <2>2. ASSUME NEW s \in Slots, id'[s] # 0, owner'[s] = NoOwner
        PROVE  Shows(Last(Work', n, id'[s]), value'[s])
    <3>1. id'[s] = id[s] /\ s \notin C
      BY <1>1, <2>2
    <3>2. n \in 0 .. n /\ n \in b .. n
      BY <1>2, <1>4
    <3>3. CASE owner[s] = h
      <4>1. By(h, id[s])
        BY <1>3, <3>3, ByIs DEF Sound
      <4>2. ~Creates(Ops(log[h]), id[s])
        BY <1>7, <3>1
      <4>3. /\ Exists(Last(Work, b, id[s]))
            /\ ValueIn(Last(Work, b, id[s])) = OldIn(log[h], s)
        BY <1>3, <3>3, <4>2 DEF Sound, MemInv, OldShown, b
      <4>4. Last(Work', n, id[s]) = Last(Work, b, id[s])
        BY <1>3, <3>2, <4>1
      <4>5. value'[s] = OldIn(log[h], s)
        BY <1>1, <3>3
      <4> QED
        BY <3>1, <4>3, <4>4, <4>5 DEF Shows, Exists
    <3>4. CASE owner[s] # h
      <4>1. owner[s] = NoOwner /\ value'[s] = value[s]
        BY <1>1, <2>2, <3>4
      <4>2. ~By(h, id[s])
        <5>1. SUFFICES ASSUME By(h, id[s]) PROVE FALSE
          OBVIOUS
        <5>2. PICK t \in Slots : id[t] = id[s] /\ owner[t] = h
          BY <1>3, <5>1, ByIs DEF Sound
        <5>3. t = s
          BY <2>2, <3>1, <5>2 DEF Sound, LockInv, IdsUnique
        <5> QED
          BY <3>4, <5>2, <5>3
      <4>3. Last(Work', n, id[s]) = Last(Work, n, id[s])
        BY <1>3, <3>2, <4>2
      <4> QED
        BY <2>2, <3>1, <4>1, <4>3 DEF Sound, MemInv, ValuesShown, Live, n
    <3> QED
      BY <3>3, <3>4
  <2> QED
    BY <1>2, <2>1, <2>2 DEF ValuesShown, Live
<1>16. NodesThere'
  <2>1. ASSUME NEW i \in Ids, Last(Work', n, i).op # "NONE", Last(Work', Written, i).op # "DELETED"
        PROVE  \E s \in Slots : id'[s] = i
    <3>1. n \in 0 .. n /\ n \in b .. n /\ Written <= b /\ i # 0 /\ i \in Nat \ {0}
      BY <1>2, <1>3, <1>4 DEF Ids
    <3>2. Last(Work, n, i).op # "NONE" /\ ~Creates(Ops(log[h]), i)
      <4>1. CASE By(h, i)
        <5>1. Last(Work, b, i).op # "NONE"
          BY <1>3, <2>1, <3>1, <4>1
        <5>2. Work \in Histories /\ Len(Work) = n
          BY WorkNow DEF Sound, n
        <5>3. b \in 0 .. Len(Work) /\ n \in b .. Len(Work)
          BY <1>4, <3>1, <5>2
        <5>4. Last(Work, n, i).op # "NONE"
          BY <3>1, <5>1, <5>2, <5>3, BeenStays
        <5> QED
          BY <1>8, <4>1, <5>1, <5>4
      <4>2. CASE ~By(h, i)
        <5>1. ~Creates(Ops(log[h]), i)
          BY <4>2 DEF By, Creates, Touched, Touches
        <5> QED
          BY <1>3, <2>1, <3>1, <4>2, <5>1
      <4> QED
        BY <4>1, <4>2
    <3>3. Last(Work, Written, i).op # "DELETED"
      BY <1>3, <1>4, <2>1, <3>1
    <3>4. PICK s \in Slots : id[s] = i
      BY <3>2, <3>3 DEF Sound, MemInv, NodesThere, n
    <3>5. s \notin C
      BY <1>7, <3>2, <3>4
    <3> QED
      BY <1>1, <3>4, <3>5
  <2> QED
    BY <1>1, <1>2, <2>1 DEF NodesThere
<1>17. GarbageIs'
  <2>1. ASSUME NEW k \in Written + 1 .. n, queue'[k].ready, NEW s \in Slots
        PROVE  s \in queue'[k].garbage <=> Deletes(Work'[k], id'[s])
    <3>1. k \in 1 .. n
      BY <1>4, <2>1
    <3>2. CASE k = p
      BY <1>2, <1>3, <3>1, <3>2, NoOps, Constants
    <3>3. CASE k # p
      <4>1. Work'[k] = Work[k] /\ queue'[k] = queue[k]
        BY <1>2, <1>3, <3>1, <3>3
      <4>2. s \in queue[k].garbage <=> Deletes(Work[k], id[s])
        BY <2>1, <4>1 DEF Sound, MemInv, GarbageIs, n
      <4>3. CASE s \in C
        <5>1. Creates(Ops(log[h]), id[s]) /\ By(h, id[s])
          BY <1>7, <4>3
        <5>2. ~Touched(Work[k], id[s])
          BY <1>8, <3>1, <3>3, <5>1
        <5>3. ~Touched(Work[k], 0)
          BY <3>1, Untouched DEF Sound, n
        <5>4. ~Deletes(Work[k], id[s]) /\ ~Deletes(Work[k], 0)
          BY <5>2, <5>3 DEF Deletes, Touched, Touches
        <5> QED
          BY <1>1, <4>1, <4>2, <4>3, <5>4
      <4>4. CASE s \notin C
        BY <1>1, <4>1, <4>2, <4>4
      <4> QED
        BY <4>3, <4>4
    <3> QED
      BY <3>2, <3>3
  <2> QED
    BY <1>1, <1>2, <2>1 DEF GarbageIs
<1> QED
  BY <1>1, <1>10, <1>11, <1>12, <1>13, <1>14, <1>15, <1>16, <1>17 DEF Sound, MemInv

-----------------------------------------------------------------------------
(* Jobs are written *)

(* The first job of those not written deletes the nodes of its garbage, which
   nobody has touched since or will. *)
LEMMA GarbageGone ==
  ASSUME Sound, NEW k, k = Written + 1, k <= Len(queue), queue[k].ready, NEW s \in Slots
  PROVE  /\ s \in queue[k].garbage <=> Last(Work, k, id[s]).op = "DELETED" /\ id[s] # 0
         /\ s \in queue[k].garbage =>
              /\ id[s] \in Ids
              /\ \A j \in k + 1 .. Len(queue) : ~Touched(Work[j], id[s])
              /\ \A g \in Handles : ~By(g, id[s]) /\ owner[s] # g
<1> DEFINE n == Len(queue)
           i == id[s]
<1>1. /\ Work \in Histories /\ Len(Work) = n /\ n \in Nat /\ Written \in 0 .. n
      /\ \A j \in 1 .. n : Work[j] \in Seq(Operations)
  BY WorkNow DEF Sound
<1>2. k \in Written + 1 .. n /\ k \in 1 .. n /\ k \in 0 .. n
  BY <1>1
<1>3. Valid(Work) /\ Fits(Work, k - 1, Work[k]) /\ Orderly(Work[k])
  BY <1>1, <1>2 DEF Sound, MemInv, Valid, Fits
<1>4. s \in queue[k].garbage <=> Deletes(Work[k], i)
  BY <1>2 DEF Sound, MemInv, GarbageIs
<1>5. Last(Work, k, i) = IF Touched(Work[k], i) THEN LastOp(Work[k], i) ELSE Last(Work, Written, i)
  <2>1. PICK m \in Nat : m = Written /\ k = m + 1
    BY <1>1
  <2>2. Last(Work, m + 1, i) = IF Touched(Work[m + 1], i) THEN LastOp(Work[m + 1], i) ELSE Last(Work, m, i)
    BY LastNext
  <2> QED
    BY <2>1, <2>2
<1>6. i \in Nat /\ (i # 0 => i \in Ids)
  BY LiveIds DEF Sound
<1>7. ASSUME Deletes(Work[k], i) PROVE Last(Work, k, i).op = "DELETED" /\ i # 0
  <2>1. Touched(Work[k], i)
    BY <1>7 DEF Deletes, Touched, Touches
  <2>2. LastOp(Work[k], i).op = "DELETED" /\ i \in Ids
    BY <1>1, <1>2, <1>3, <1>7, <2>1, LastOpIs
  <2> QED
    BY <1>5, <2>1, <2>2 DEF Ids
<1>8. ASSUME Last(Work, k, i).op = "DELETED", i # 0 PROVE Deletes(Work[k], i)
  <2>1. Last(Work, Written, i).op # "DELETED"
    BY <1>8 DEF Sound, MemInv, LiveNotGone, Live
  <2>2. Touched(Work[k], i) /\ LastOp(Work[k], i).op = "DELETED"
    BY <1>5, <1>8, <2>1
  <2> QED
    BY <1>1, <1>2, <2>2, LastOpIs
<1>9. ASSUME s \in queue[k].garbage
      PROVE  /\ i \in Ids /\ \A j \in k + 1 .. n : ~Touched(Work[j], i)
             /\ \A g \in Handles : ~By(g, i) /\ owner[s] # g
  <2>1. Last(Work, k, i).op = "DELETED" /\ i \in Ids
    BY <1>4, <1>6, <1>7, <1>9
  <2>2. \A l \in k .. n : Last(Work, l, i).op = "DELETED" /\ \A j \in k + 1 .. l : ~Touched(Work[j], i)
    BY <1>1, <1>2, <1>3, <2>1, DeletedStays
  <2>3. ASSUME NEW g \in Handles, By(g, i) PROVE FALSE
    <3>1. /\ Before(g) \in 0 .. n
          /\ place[g] # 0 => /\ place[g] \in Written + 1 .. n /\ Before(g) = place[g] - 1
                             /\ ~queue[place[g]].ready
          /\ place[g] = 0 => Before(g) = n
      BY WorkNow DEF Sound
    <3>2. Last(Work, Before(g), i).op # "DELETED"
      BY <2>1, <2>3 DEF Sound, MemInv, LogsFit, Fits, By
    <3>3. Before(g) \notin k .. n
      BY <2>2, <3>2
    <3>4. place[g] # 0 /\ place[g] <= k /\ place[g] >= k
      BY <1>1, <1>2, <3>1, <3>3
    <3>5. place[g] = k
      BY <1>1, <3>1, <3>4
    <3> QED
      BY <3>1, <3>4, <3>5
  <2>4. \A j \in k + 1 .. n : ~Touched(Work[j], i)
    BY <1>1, <1>2, <2>2
  <2>5. \A g \in Handles : owner[s] # g
    BY <2>3, ByIs DEF Sound
  <2> QED
    BY <2>1, <2>3, <2>4, <2>5
<1> QED
  BY <1>4, <1>7, <1>8, <1>9

(* A job is done, and its garbage is freed. *)
LEMMA SoundDone ==
  ASSUME Sound, JobDone, Types',
         \A s \in Slots : id'[s] = IF s \in queue[Written'].garbage THEN 0 ELSE id[s]
  PROVE  Sound'
<1> DEFINE n == Len(queue)
           w == Written
<1>1. PICK k : k = Written'
  OBVIOUS
<1> DEFINE G == queue[k].garbage
<1>2. k = w + 1 /\ w \in Nat /\ k \in 1 .. n /\ queue[k].ready /\ Work' = Work
  BY <1>1, JobDoneIs DEF Sound
<1>3. UNCHANGED <<value, owner, counter, place, log, queue>>
  BY DEF JobDone
<1>4. /\ Work \in Histories /\ Len(Work) = n /\ n \in Nat /\ w \in 0 .. n
      /\ \A j \in 1 .. n : Work[j] \in Seq(Operations)
  BY WorkNow DEF Sound
<1>5. ASSUME NEW s \in Slots
      PROVE  /\ s \in G <=> Last(Work, k, id[s]).op = "DELETED" /\ id[s] # 0
             /\ s \in G => /\ id[s] \in Ids /\ \A j \in k + 1 .. n : ~Touched(Work[j], id[s])
                           /\ \A g \in Handles : ~By(g, id[s]) /\ owner[s] # g
  <2>1. k = Written + 1 /\ k <= Len(queue) /\ queue[k].ready
    BY <1>2, <1>4
  <2> QED
    BY <2>1, GarbageGone
<1>6. \A s \in Slots : id'[s] = IF s \in G THEN 0 ELSE id[s]
  BY <1>1
<1>7. ASSUME NEW g \in Handles
      PROVE  Owns(g)' = Owns(g) /\ Before(g)' = Before(g) /\ \A i : By(g, i)' <=> By(g, i)
  BY <1>3 DEF Owns, Before, By
<1> HIDE DEF n, w, G
<1>8. WorkBounded'
  BY <1>2, <1>3 DEF Sound, WorkBounded, Bounded
<1>9. LockInv'
  <2>1. IdsUnique'
    BY <1>6 DEF Sound, LockInv, IdsUnique
  <2>2. ItemsOnNodes'
    <3>1. ASSUME NEW g \in Handles, NEW x \in DOMAIN log[g]
          PROVE  id'[log[g][x].slot] = log[g][x].op.id
      <4>1. log[g] \in Seq(Items)
        BY WorkNow DEF Sound
      <4>2. PICK s \in Slots : s = log[g][x].slot
        BY <3>1, <4>1, OpsIs
      <4>3. id[s] = log[g][x].op.id
        BY <3>1, <4>2 DEF Sound, LockInv, ItemsOnNodes
      <4>4. By(g, id[s])
        BY <3>1, <4>3, ByIs DEF Sound
      <4>5. s \notin G
        BY <1>5, <4>4
      <4> QED
        BY <1>6, <4>2, <4>3, <4>5
    <3> QED
      BY <1>3, <3>1 DEF ItemsOnNodes
  <2>3. ItemsLocked'
    BY <1>3, <1>7 DEF Sound, LockInv, ItemsLocked, Undecided
  <2>4. LocksUsed'
    BY <1>3 DEF Sound, LockInv, LocksUsed
  <2>5. NobodyAfter'
    <3>1. ASSUME NEW g \in Handles, place[g] # 0, Owns(g) # {}, NEW j \in place[g] + 1 .. n,
                 NEW i \in Ids, By(g, i)
          PROVE  ~Touched(Work[j], i)
      BY <3>1 DEF Sound, LockInv, NobodyAfter, Queued, n
    <3> QED
      BY <1>2, <1>3, <1>7, <3>1 DEF NobodyAfter, Queued, n
  <2> QED
    BY <2>1, <2>2, <2>3, <2>4, <2>5 DEF LockInv
<1>10. LogsFit' /\ OldShown'
  <2>1. \A g \in Handles : KeepsLog(g)
    BY <1>2, <1>3, <1>7 DEF KeepsLog
  <2>2. \A s \in Slots : owner'[s] \in Handles => owner'[s] = owner[s] /\ id'[s] = id[s]
    BY <1>3, <1>5, <1>6
  <2>3. LocksUsed'
    BY <1>9 DEF LockInv
  <2> QED
    BY <2>1, <2>2, <2>3, LogsKept
<1>11. Valid(Work)'
  BY <1>2 DEF Sound, MemInv
<1>12. LiveNotGone'
  <2>1. ASSUME NEW s \in Slots, id'[s] # 0 PROVE Last(Work, k, id'[s]).op # "DELETED"
    BY <1>5, <1>6, <2>1
  <2> QED
    BY <1>1, <1>2, <2>1 DEF LiveNotGone, Live
<1>13. ValuesShown'
  <2>1. ASSUME NEW s \in Slots, id'[s] # 0
        PROVE  id'[s] = id[s] /\ id[s] # 0
    BY <1>6, <2>1
  <2> QED
    BY <1>2, <1>3, <2>1 DEF Sound, MemInv, ValuesShown, Live
<1>14. NodesThere'
  <2>1. ASSUME NEW i \in Ids, Last(Work, n, i).op # "NONE", Last(Work, k, i).op # "DELETED"
        PROVE  \E s \in Slots : id'[s] = i
    <3>1. Last(Work, w, i).op # "DELETED"
      <4>1. SUFFICES ASSUME Last(Work, w, i).op = "DELETED" PROVE FALSE
        OBVIOUS
      <4>2. Valid(Work) /\ w \in 0 .. Len(Work) /\ k \in w .. Len(Work)
        BY <1>2, <1>4 DEF Sound, MemInv
      <4>3. Last(Work, k, i).op = "DELETED"
        BY <1>4, <4>1, <4>2, DeletedStays
      <4> QED
        BY <2>1, <4>3
    <3>2. PICK s \in Slots : id[s] = i
      BY <2>1, <3>1 DEF Sound, MemInv, NodesThere, n, w
    <3> QED
      BY <1>5, <1>6, <2>1, <3>2
  <2> QED
    BY <1>1, <1>2, <1>3, <2>1 DEF NodesThere, n
<1>15. GarbageIs'
  <2>1. ASSUME NEW j \in k + 1 .. n, queue[j].ready, NEW s \in Slots
        PROVE  s \in queue[j].garbage <=> Deletes(Work[j], id'[s])
    <3>1. j \in w + 1 .. n /\ j \in 1 .. n
      BY <1>2, <1>4
    <3>2. s \in queue[j].garbage <=> Deletes(Work[j], id[s])
      BY <2>1, <3>1 DEF Sound, MemInv, GarbageIs, w, n
    <3>3. CASE s \in G
      <4>1. ~Touched(Work[j], id[s])
        BY <1>5, <2>1, <3>3
      <4>2. ~Touched(Work[j], 0)
        BY <3>1, Untouched DEF Sound, n
      <4>3. ~Deletes(Work[j], id[s]) /\ ~Deletes(Work[j], 0)
        BY <4>1, <4>2 DEF Deletes, Touched, Touches
      <4> QED
        BY <1>6, <3>2, <3>3, <4>3
    <3>4. CASE s \notin G
      BY <1>6, <3>2, <3>4
    <3> QED
      BY <3>3, <3>4
  <2> QED
    BY <1>1, <1>2, <1>3, <2>1 DEF GarbageIs, n
<1> QED
  BY <1>8, <1>9, <1>10, <1>11, <1>12, <1>13, <1>14, <1>15 DEF Sound, MemInv

-----------------------------------------------------------------------------
(* All steps *)

(* The service thread takes a job, tries a locked node, begins another round,
   or does nothing. *)
Rests ==
  /\ UNCHANGED <<memory, place, log, queue, cursor, dumping, disk>>
  /\ SvcTake \/ UNCHANGED <<taken, svc>>

(* A node is dumped. *)
Dumps1 == SvcDumpNode /\ owner[cursor] = NoOwner

Steps ==
  \/ \E h \in Handles, s \in Slots, o \in Operations : Does(h, s, o)
  \/ \E h \in Handles : Push(h) \/ Unlock(h) \/ Fill(h) \/ GiveUp(h)
  \/ AskForDump \/ SvcCommit \/ SvcStartDump \/ Dumps1 \/ SvcDumpEnd \/ Rests

(* There are no other steps. *)
LEMMA StepIs ==
  ASSUME Types, [Next]_vars
  PROVE  Steps
<1>1. CASE UNCHANGED vars
  BY <1>1 DEF vars, memory, service, disk, Rests, Steps
<1>2. CASE AskForDump
  BY <1>2 DEF Steps
<1>3. CASE Serve
  <2>1. CASE SvcTake
    BY <2>1 DEF SvcTake, Rests, Steps
  <2>2. CASE SvcDumpOn
    BY <2>2 DEF SvcDumpOn, Rests, Steps
  <2>3. CASE SvcDumpNode
    <3>1. CASE owner[cursor] = NoOwner
      BY <2>3, <3>1 DEF Dumps1, Steps
    <3>2. CASE owner[cursor] # NoOwner
      BY <2>3, <3>2 DEF SvcDumpNode, Rests, Steps, disk
    <3> QED
      BY <3>1, <3>2
  <2> QED
    BY <1>3, <2>1, <2>2, <2>3 DEF Serve, Steps
<1>4. CASE Idle
  BY <1>4 DEF Idle, vars, memory, service, disk, Rests, Steps
<1>5. ASSUME NEW h \in Handles, Transact(h) PROVE Steps
  <2>1. ASSUME NEW s \in Slots,
               NodeCreate(h, s) \/ NodeDelete(h, s) \/ \E v \in Values : NodeModify(h, s, v)
        PROVE  Steps
    BY <2>1, DoesSomething DEF Steps
  <2>2. CASE Abort(h) \/ Invalid(h)
    BY <2>2, GivesUp DEF Steps
  <2> QED
    BY <1>5, <2>1, <2>2 DEF Transact, Steps
<1> QED
  BY <1>1, <1>2, <1>3, <1>4, <1>5 DEF Next

(* Memory at the beginning. *)
LEMMA SoundInit ==
  ASSUME Init
  PROVE  Sound
<1>1. Types /\ Work = <<>> /\ Written = 0
  BY TypesInit
<1>2. /\ queue = <<>> /\ counter = StartNodes /\ Len(queue) = 0
      /\ id = [s \in Slots |-> IF s <= StartNodes THEN s ELSE 0]
      /\ value = [s \in Slots |-> InitValue] /\ owner = [s \in Slots |-> NoOwner]
      /\ place = [h \in Handles |-> 0] /\ log = [h \in Handles |-> <<>>]
  BY DEF Init
<1>3. \A h \in Handles : log[h] = <<>> /\ place[h] = 0 /\ Ops(log[h]) = <<>> /\ \A i : ~By(h, i)
  BY <1>2, NoItems, NoOps DEF By
<1>4. \A s \in Slots : owner[s] = NoOwner /\ value[s] = InitValue
                       /\ id[s] = IF s <= StartNodes THEN s ELSE 0
  BY <1>2
<1>5. \A i : Jobs(Work, 0, i) = {} /\ Last(Work, 0, i) = Start(i)
  BY DEF Jobs, Last
<1>6. \A i : /\ i <= StartNodes => Start(i).op = "CREATED"
             /\ ~(i <= StartNodes) => Start(i).op = "NONE"
  BY OpFields DEF Start
<1>7. WorkBounded
  BY <1>2, <1>3, NoOps, Constants DEF WorkBounded, Bounded
<1>8. LockInv
  <2>1. IdsUnique
    BY <1>4 DEF IdsUnique
  <2>2. ItemsOnNodes /\ ItemsLocked
    BY <1>3 DEF ItemsOnNodes, ItemsLocked
  <2>3. LocksUsed /\ NobodyAfter
    BY <1>3, <1>4, Constants DEF LocksUsed, NobodyAfter, Queued
  <2> QED
    BY <2>1, <2>2, <2>3 DEF LockInv
<1>9. Valid(Work)
  BY <1>1 DEF Valid
<1>10. LogsFit
  BY <1>3, NoOps DEF LogsFit, Fits
<1>11. ASSUME NEW s \in Slots, id[s] # 0
       PROVE  Last(Work, 0, id[s]).op = "CREATED" /\ Shows(Last(Work, 0, id[s]), value[s])
  <2>1. id[s] <= StartNodes
    BY <1>4, <1>11
  <2>2. Last(Work, 0, id[s]).op = "CREATED"
    BY <1>5, <1>6, <2>1
  <2> QED
    BY <1>4, <2>2 DEF Shows, ValueIn
<1>12. LiveNotGone /\ ValuesShown
  BY <1>1, <1>2, <1>4, <1>11, Constants DEF LiveNotGone, ValuesShown, Live
<1>13. NodesThere
  <2>1. ASSUME NEW i \in Ids, Last(Work, 0, i).op # "NONE" PROVE \E s \in Slots : id[s] = i
    <3>1. i <= StartNodes /\ i \in Nat \ {0}
      BY <1>5, <1>6, <2>1 DEF Ids
    <3>2. i \in Slots
      BY <3>1, DumpAssumption, FS_CardinalityType
    <3> QED
      BY <1>4, <3>1, <3>2
  <2> QED
    BY <1>1, <1>2, <2>1 DEF NodesThere
<1>14. GarbageIs
  BY <1>1, <1>2 DEF GarbageIs
<1>15. OldShown
  BY <1>4, Constants DEF OldShown
<1> QED
  BY <1>1, <1>7, <1>8, <1>9, <1>10, <1>12, <1>13, <1>14, <1>15 DEF Sound, MemInv

(* Memory, locks and the history stay sound. *)
LEMMA SoundNext ==
  ASSUME Sound, Steps
  PROVE  Sound'
<1>1. ASSUME NEW h \in Handles, NEW s \in Slots, NEW o \in Operations, Does(h, s, o) PROVE Sound'
  BY <1>1, MemDoes
<1>2. ASSUME NEW h \in Handles, Push(h) PROVE Sound'
  BY <1>2, SoundPush
<1>3. ASSUME NEW h \in Handles, Unlock(h) PROVE Sound'
  BY <1>3, SoundUnlock
<1>4. ASSUME NEW h \in Handles, Fill(h) PROVE Sound'
  BY <1>4, SoundFill
<1>5. ASSUME NEW h \in Handles, GiveUp(h) PROVE Sound'
  BY <1>5, SoundGiveUp
<1>6. CASE AskForDump
  BY <1>6, SoundAsk
<1>7. CASE SvcCommit
  <2>1. /\ Types' /\ JobDone
        /\ \A s \in Slots : id'[s] = IF s \in queue[Written'].garbage THEN 0 ELSE id[s]
    BY <1>7, TypesCommit DEF Sound
  <2> QED
    BY <2>1, SoundDone
<1>8. CASE SvcStartDump
  <2>1. Types' /\ JobDone /\ id' = id /\ queue[Written'].garbage = {}
    BY <1>8, TypesStartDump DEF Sound, memory
  <2>2. \A s \in Slots : id'[s] = IF s \in queue[Written'].garbage THEN 0 ELSE id[s]
    BY <2>1
  <2> QED
    BY <2>1, <2>2, SoundDone
<1>9. CASE Dumps1
  <2>1. /\ Types' /\ Written' = Written /\ Work' = Work
        /\ UNCHANGED <<memory, place, log, queue>>
    BY <1>9, TypesDumpNode DEF Sound, Dumps1
  <2> QED
    BY <2>1, SoundSame
<1>10. CASE SvcDumpEnd
  <2>1. /\ Types' /\ Written' = Written /\ Work' = Work
        /\ UNCHANGED <<memory, place, log, queue>>
    BY <1>10, TypesDumpEnd DEF Sound
  <2> QED
    BY <2>1, SoundSame
<1>11. CASE Rests
  <2>1. /\ Types' /\ Written' = Written /\ Work' = Work
        /\ UNCHANGED <<memory, place, log, queue>>
    BY <1>11, TypesRest DEF Sound, Rests
  <2> QED
    BY <2>1, SoundSame
<1> QED
  BY <1>1, <1>2, <1>3, <1>4, <1>5, <1>6, <1>7, <1>8, <1>9, <1>10, <1>11 DEF Steps

-----------------------------------------------------------------------------
(* Reading after the older files *)

(* What a job makes of a node is what reading its record makes of it. *)
LEMMA NowNext ==
  ASSUME NEW V \in Histories, Valid(V), NEW k \in 1 .. Len(V), NEW i
  PROVE  /\ V[k] \in Seq(Operations) /\ Orderly(V[k])
         /\ After(Now(V, k - 1, i), V[k], i) = Now(V, k, i)
         /\ Creates(V[k], i) => Now(V, k - 1, i) = {}
         /\ ~Touched(V[k], i) => Now(V, k, i) = Now(V, k - 1, i)
<1> DEFINE ops == V[k]
           o == LastOp(ops, i)
           q == Last(V, k - 1, i)
<1>1. ops \in Seq(Operations) /\ Fits(V, k - 1, ops) /\ Orderly(ops) /\ k - 1 \in 0 .. Len(V)
  BY DEF Histories, Valid, Fits
<1>2. Last(V, k, i) = IF Touched(ops, i) THEN o ELSE q
  <2>1. PICK m \in Nat : m = k - 1 /\ k = m + 1
    BY <1>1
  <2>2. Last(V, m + 1, i) = IF Touched(V[m + 1], i) THEN LastOp(V[m + 1], i) ELSE Last(V, m, i)
    BY LastNext
  <2> QED
    BY <2>1, <2>2
<1> HIDE DEF q, o, ops
<1>3. CASE ~Touched(ops, i)
  <2>1. ~Creates(ops, i)
    BY <1>3 DEF Creates, Touched, Touches
  <2>2. Now(V, k, i) = Now(V, k - 1, i)
    BY <1>2, <1>3 DEF Now, q
  <2>3. After(Now(V, k - 1, i), ops, i) = Now(V, k - 1, i)
    BY <1>3 DEF After
  <2> QED
    BY <1>1, <1>3, <2>1, <2>2, <2>3 DEF ops
<1>4. CASE Touched(ops, i)
  <2>1. /\ o \in Operations /\ i \in Ids
        /\ o.op = "CREATED" => Creates(ops, i)
    BY <1>1, <1>4, LastOpIs DEF o
  <2>2. q.op # "DELETED" /\ (Creates(ops, i) <=> q.op = "NONE")
    BY <1>1, <1>4, <2>1 DEF Fits, q
  <2>3. q.op = "NONE" \/ q \in Operations
    BY <1>1, <2>1, LastIs DEF q, Ids
  <2>4. Now(V, k, i) = IF Exists(o) THEN {ValueIn(o)} ELSE {}
    BY <1>2, <1>4, <2>1 DEF Now
  <2>5. Now(V, k - 1, i) = IF Exists(q) THEN {ValueIn(q)} ELSE {}
    BY <2>1 DEF Now, q
  <2>6. o.op \in {"CREATED", "MODIFIED", "DELETED"}
    BY <2>1, OpIs
  <2>7. PICK x : x = Now(V, k - 1, i)
    OBVIOUS
  <2>8. After(x, ops, i)
          = IF o.op = "DELETED" \/ (x = {} /\ ~Creates(ops, i)) THEN {}
            ELSE IF o.op = "CREATED" /\ x # {} THEN x ELSE {ValueIn(o)}
    BY <1>4 DEF After, o
  <2>9. CASE Creates(ops, i)
    <3>1. x = {}
      BY <2>2, <2>5, <2>7, <2>9 DEF Exists
    <3>2. After(x, ops, i) = Now(V, k, i)
      BY <2>4, <2>6, <2>8, <2>9, <3>1 DEF Exists
    <3> QED
      BY <1>1, <1>4, <2>7, <3>1, <3>2 DEF ops
  <2>10. CASE ~Creates(ops, i)
    <3>1. Exists(q)
      BY <2>2, <2>3, <2>10, OpIs DEF Exists
    <3>2. x # {} /\ o.op # "CREATED"
      BY <2>1, <2>5, <2>7, <2>10, <3>1
    <3>3. After(x, ops, i) = Now(V, k, i)
      BY <2>4, <2>6, <2>8, <3>2 DEF Exists
    <3> QED
      BY <1>1, <1>4, <2>7, <2>10, <3>3 DEF ops
  <2> QED
    BY <2>9, <2>10
<1> QED
  BY <1>3, <1>4

(* The state that a number of jobs leave. *)
LEMMA StartReached ==
  ASSUME NEW V, NEW k, NEW d, d = [L!Nothing EXCEPT !.nodes = StateOf(V, k)]
  PROVE  Reached(d, V, k, FALSE)
<1>1. PICK N : N = StateOf(V, k)
  OBVIOUS
<1>2. d = [nodes |-> N, ghosts |-> {}, magic |-> 0, dumpOn |-> FALSE, status |-> "READING"]
  BY <1>1 DEF L!Nothing
<1>3. N = [i \in {i \in Ids : Exists(Last(V, k, i))} |-> ValueIn(Last(V, k, i))]
  BY <1>1 DEF StateOf
<1>4. N = [i \in DOMAIN N |-> N[i]] /\ DOMAIN N = {i \in Ids : Exists(Last(V, k, i))}
  BY <1>3
<1>5. d.nodes = N /\ d.ghosts = {} /\ d.magic = 0 /\ d.dumpOn = FALSE /\ d.status = "READING"
  BY <1>2
<1>6. IsLoaded(d)
  BY <1>2, <1>4, <1>5 DEF IsLoaded
<1>7. ASSUME NEW i PROVE Holds(d, i) = Now(V, k, i)
  BY <1>3, <1>4, <1>5 DEF Holds, Now
<1> QED
  BY <1>5, <1>6, <1>7 DEF Reached

(* The record of a job that has done something, *)
LEMMA ReachedMore ==
  ASSUME NEW V \in Histories, Valid(V), NEW k \in 1 .. Len(V), V[k] # <<>>,
         NEW d, NEW on, Reached(d, V, k - 1, on),
         NEW e, e = L!ReadRecord(d, L!Transaction(V[k]), FALSE)
  PROVE  Reached(e, V, k, on)
<1>1. V[k] \in Seq(Operations) /\ Orderly(V[k])
  BY NowNext
<1>2. /\ IsLoaded(d) /\ d.ghosts = {} /\ d.magic = 0 /\ d.dumpOn = on /\ d.status = "READING"
      /\ \A i : Holds(d, i) = Now(V, k - 1, i)
  BY DEF Reached
<1>3. Outcome(d, V[k], L!ReadRecord(d, L!Transaction(V[k]), FALSE))
  BY <1>1, <1>2, TransactionRecord
<1>4. Outcome(d, V[k], e)
  BY <1>3
<1>5. ASSUME NEW i, Creates(V[k], i) PROVE Holds(d, i) = {}
  <2>1. Creates(V[k], i) => Now(V, k - 1, i) = {}
    BY NowNext
  <2> QED
    BY <1>2, <1>5, <2>1
<1>6. e.ghosts = {} /\ IsLoaded(e) /\ e.magic = 0 /\ e.dumpOn = on /\ e.status = "READING"
  BY <1>2, <1>4, <1>5 DEF Outcome, SameReading
<1>7. ASSUME NEW i PROVE Holds(e, i) = Now(V, k, i)
  <2>1. Holds(e, i) = After(Holds(d, i), V[k], i)
    BY <1>4 DEF Outcome
  <2>2. After(Now(V, k - 1, i), V[k], i) = Now(V, k, i)
    BY NowNext
  <2> QED
    BY <1>2, <2>1, <2>2
<1> QED
  BY <1>6, <1>7 DEF Reached

(* a job that has not, *)
LEMMA ReachedSame ==
  ASSUME NEW V \in Histories, Valid(V), NEW k \in 1 .. Len(V), V[k] = <<>>,
         NEW d, NEW on, Reached(d, V, k - 1, on)
  PROVE  Reached(d, V, k, on)
<1>1. \A i : ~Touched(V[k], i)
  BY NoOps
<1>2. \A i : Now(V, k, i) = Now(V, k - 1, i)
  BY <1>1, NowNext
<1> QED
  BY <1>2 DEF Reached

(* and a mark. *)
LEMMA ReachedMark ==
  ASSUME NEW V, NEW k, NEW d, NEW on, Reached(d, V, k, on), NEW e, NEW then, Marked(d, e, then)
  PROVE  Reached(e, V, k, then)
<1>1. \A i : Holds(e, i) = Holds(d, i)
  BY DEF Marked, Holds
<1> QED
  BY <1>1 DEF Marked, Reached

(* The beginning is as before. *)
LEMMA LastSameState ==
  ASSUME Types, LastInv, Written' = Written, UNCHANGED <<file, began, dumping>>,
         \A k \in 0 .. Written : \A i : Last(Work', k, i) = Last(Work, k, i)
  PROVE  LastInv'
<1>1. began \in 0 .. Written /\ Written \in 0 .. Written
  BY WrittenIs DEF Types
<1>2. \A i : Last(Work', began, i) = Last(Work, began, i)
  BY <1>1
<1>3. StateOf(Work', began) = StateOf(Work, began)
  BY <1>2 DEF StateOf
<1>4. AfterOlder(Work)' = AfterOlder(Work)
  BY <1>3 DEF AfterOlder
<1>5. \A i : Now(Work', Written, i) = Now(Work, Written, i)
  BY <1>1 DEF Now
<1> QED
  BY <1>4, <1>5 DEF LastInv, Reached

(* At the beginning. *)
LEMMA LastInit ==
  ASSUME Init
  PROVE  LastInv
<1>1. Work = <<>> /\ Written = 0
  BY TypesInit
<1>2. file = <<>> /\ began = 0 /\ dumping = FALSE
  BY DEF Init
<1>3. PICK d : d = [L!Nothing EXCEPT !.nodes = StateOf(Work, began)]
  OBVIOUS
<1>4. Reached(d, Work, began, FALSE)
  BY <1>3, StartReached
<1>5. AfterOlder(Work) = d
  BY <1>2, <1>3, ReadNone DEF AfterOlder
<1> QED
  BY <1>1, <1>2, <1>4, <1>5 DEF LastInv

(* A job is written. *)
LEMMA LastCommit ==
  ASSUME Sound, Sound', LastInv, SvcCommit
  PROVE  LastInv'
<1>1. PICK k : k = Written'
  OBVIOUS
<1>2. /\ dumping' = dumping /\ began' = began /\ JobDone
      /\ file' = IF Work[k] = <<>> THEN file ELSE Append(file, L!Transaction(Work[k]))
  BY <1>1, TypesCommit DEF Sound
<1>3. k = Written + 1 /\ Written \in Nat /\ k \in 1 .. Len(queue) /\ Work' = Work
  BY <1>1, <1>2, JobDoneIs DEF Sound
<1>4. Work \in Histories /\ Valid(Work) /\ k \in 1 .. Len(Work) /\ file \in Seq(Records)
  BY <1>3, WorkNow DEF Sound, MemInv, Types
<1>5. PICK b : b = [L!Nothing EXCEPT !.nodes = StateOf(Work, began)]
  OBVIOUS
<1>6. PICK d : d = ReadAll(b, file, FALSE)
  OBVIOUS
<1>7. k - 1 = Written
  BY <1>3
<1>8. Reached(d, Work, k - 1, dumping)
  BY <1>5, <1>6, <1>7 DEF LastInv, AfterOlder
<1>9. AfterOlder(Work)' = ReadAll(b, file', FALSE)
  BY <1>2, <1>3, <1>5 DEF AfterOlder
<1>10. CASE Work[k] = <<>>
  <2>1. Reached(d, Work, k, dumping)
    BY <1>4, <1>8, <1>10, ReachedSame
  <2>2. AfterOlder(Work)' = d
    BY <1>2, <1>6, <1>9, <1>10
  <2> QED
    BY <1>1, <1>2, <1>3, <2>1, <2>2 DEF LastInv
<1>11. CASE Work[k] # <<>>
  <2>1. PICK r : r = L!Transaction(Work[k])
    OBVIOUS
  <2>2. file' = Append(file, r)
    BY <1>2, <1>11, <2>1
  <2>3. PICK g : g = Append(file, r)
    OBVIOUS
  <2>4. ReadAll(b, g, FALSE) = L!ReadRecord(ReadAll(b, file, FALSE), r, FALSE)
    <3>1. Longer(file, g, r, Records)
      BY <1>4, <2>3 DEF Longer
    <3>2. ASSUME NEW no PROVE ReadAll(b, g, no) = L!ReadRecord(ReadAll(b, file, no), r, no)
      BY ONLY <3>1, ReadMore
    <3> QED
      BY <3>2
  <2>5. AfterOlder(Work)' = L!ReadRecord(d, L!Transaction(Work[k]), FALSE)
    BY <1>6, <1>9, <2>1, <2>2, <2>3, <2>4
  <2>6. Reached(AfterOlder(Work)', Work, k, dumping)
    BY <1>4, <1>8, <1>11, <2>5, ReachedMore
  <2> QED
    BY <1>1, <1>2, <1>3, <2>6 DEF LastInv
<1> QED
  BY <1>10, <1>11

(* A dump is begun, unless there is one. *)
LEMMA LastStartDump ==
  ASSUME Sound, Sound', LastInv, SvcStartDump
  PROVE  LastInv'
<1>1. PICK k : k = Written'
  OBVIOUS
<1>2. /\ JobDone /\ Work[k] = <<>>
      /\ dumping => UNCHANGED <<cursor, dumping, file, began>>
      /\ ~dumping => file' = <<L!DumpBegin>> /\ began' = Written /\ dumping' = TRUE
  BY <1>1, TypesStartDump DEF Sound
<1>3. k = Written + 1 /\ Written \in Nat /\ k \in 1 .. Len(queue) /\ Work' = Work
  BY <1>1, <1>2, JobDoneIs DEF Sound
<1>4. Work \in Histories /\ Valid(Work) /\ k \in 1 .. Len(Work) /\ k - 1 = Written
  BY <1>3, WorkNow DEF Sound, MemInv
<1>5. CASE dumping
  <2>1. AfterOlder(Work)' = AfterOlder(Work) /\ dumping' = dumping
    BY <1>2, <1>3, <1>5 DEF AfterOlder
  <2>2. PICK d : d = AfterOlder(Work)
    OBVIOUS
  <2>3. Reached(d, Work, k - 1, dumping)
    BY <1>4, <2>2 DEF LastInv
  <2>4. Reached(d, Work, k, dumping)
    BY <1>2, <1>4, <2>3, ReachedSame
  <2> QED
    BY <1>1, <1>3, <2>1, <2>2, <2>4 DEF LastInv
<1>6. CASE ~dumping
  <2>1. PICK d : d = [L!Nothing EXCEPT !.nodes = StateOf(Work, Written)]
    OBVIOUS
  <2>2. Reached(d, Work, Written, FALSE)
    BY <2>1, StartReached
  <2>3. PICK r : r = L!DumpBegin
    OBVIOUS
  <2>4. PICK f \in Seq(Records) : f = <<>>
    <3>1. <<>> \in Seq(Records)
      OBVIOUS
    <3> QED
      BY <3>1
  <2>5. PICK g : g = Append(f, r)
    OBVIOUS
  <2>6. g = file'
    BY <1>2, <1>6, <2>3, <2>4, <2>5
  <2>7. ReadAll(d, g, FALSE) = L!ReadRecord(ReadAll(d, f, FALSE), r, FALSE)
    <3>1. Longer(f, g, r, Records)
      BY <2>4, <2>5 DEF Longer
    <3>2. ASSUME NEW no PROVE ReadAll(d, g, no) = L!ReadRecord(ReadAll(d, f, no), r, no)
      BY ONLY <3>1, ReadMore
    <3> QED
      BY <3>2
  <2>8. ReadAll(d, f, FALSE) = d
    BY <2>4, ReadNone
  <2>9. AfterOlder(Work)' = ReadAll(d, g, FALSE)
    BY <1>2, <1>3, <1>6, <2>1, <2>6 DEF AfterOlder
  <2>10. IsLoaded(d) /\ d.status = "READING" /\ d.dumpOn = FALSE
    BY <2>2 DEF Reached
  <2>11. Marked(d, L!ReadRecord(d, L!DumpBegin, FALSE), TRUE)
    BY <2>10, MarkRecord
  <2>12. PICK e : e = AfterOlder(Work)'
    OBVIOUS
  <2>13. Marked(d, e, TRUE)
    BY <2>3, <2>7, <2>8, <2>9, <2>11, <2>12
  <2>14. Reached(e, Work, k - 1, TRUE)
    BY <1>4, <2>2, <2>13, ReachedMark
  <2>15. Reached(e, Work, k, TRUE)
    BY <1>2, <1>4, <2>14, ReachedSame
  <2> QED
    BY <1>1, <1>2, <1>3, <1>6, <2>12, <2>15 DEF LastInv
<1> QED
  BY <1>5, <1>6

(* Dumped nodes are skipped, and the end mark ends the dump. *)
LEMMA LastDumps ==
  ASSUME Sound, Sound', LastInv, Dumps1 \/ SvcDumpEnd
  PROVE  LastInv'
<1>1. /\ Written' = Written /\ Work' = Work /\ began' = began /\ dumping
      /\ Dumps1 => dumping' = dumping /\ file' = Append(file, L!Dumped(id[cursor], value[cursor]))
      /\ ~Dumps1 => ~dumping' /\ file' = Append(file, L!DumpEnd)
  <2>1. CASE Dumps1
    BY <2>1, TypesDumpNode DEF Sound, Dumps1
  <2>2. CASE ~Dumps1 /\ SvcDumpEnd
    BY <2>2, TypesDumpEnd DEF Sound
  <2> QED
    BY <2>1, <2>2
<1>2. PICK b : b = [L!Nothing EXCEPT !.nodes = StateOf(Work, began)]
  OBVIOUS
<1>3. PICK d : d = ReadAll(b, file, FALSE)
  OBVIOUS
<1>4. Reached(d, Work, Written, TRUE)
  BY <1>1, <1>2, <1>3 DEF LastInv, AfterOlder, Sound, Types
<1>5. IsLoaded(d) /\ d.status = "READING" /\ d.dumpOn = TRUE
  BY <1>4 DEF Reached
<1>6. file \in Seq(Records)
  BY DEF Sound, Types
<1>7. ASSUME NEW r, file' = Append(file, r)
      PROVE  AfterOlder(Work)' = L!ReadRecord(d, r, FALSE)
  <2>1. PICK g : g = Append(file, r)
    OBVIOUS
  <2>2. ReadAll(b, g, FALSE) = L!ReadRecord(ReadAll(b, file, FALSE), r, FALSE)
    <3>1. Longer(file, g, r, Records)
      BY <1>6, <2>1 DEF Longer
    <3>2. ASSUME NEW no PROVE ReadAll(b, g, no) = L!ReadRecord(ReadAll(b, file, no), r, no)
      BY ONLY <3>1, ReadMore
    <3> QED
      BY <3>2
  <2>3. AfterOlder(Work)' = ReadAll(b, g, FALSE)
    BY <1>1, <1>2, <1>7, <2>1 DEF AfterOlder
  <2> QED
    BY <1>3, <2>2, <2>3
<1>8. CASE Dumps1
  <2>1. PICK e : e = L!ReadRecord(d, L!Dumped(id[cursor], value[cursor]), FALSE)
    OBVIOUS
  <2>2. e = d
    <3>1. PICK i, v : i = id[cursor] /\ v = value[cursor]
      OBVIOUS
    <3>2. ReadsDumped(d, i, v, FALSE, e)
      BY <1>5, <2>1, <3>1 DEF ReadsDumped
    <3> QED
      BY <3>2, DumpedRecord
  <2>3. AfterOlder(Work)' = d
    BY <1>1, <1>7, <1>8, <2>1, <2>2
  <2> QED
    BY <1>1, <1>4, <1>8, <2>3 DEF LastInv, Sound, Types
<1>9. CASE ~Dumps1
  <2>1. PICK e : e = L!ReadRecord(d, L!DumpEnd, FALSE)
    OBVIOUS
  <2>2. Marked(d, e, FALSE)
    BY <1>5, <2>1, MarkRecord
  <2>3. Reached(e, Work, Written, FALSE)
    BY <1>4, <2>2, ReachedMark
  <2>4. AfterOlder(Work)' = e /\ dumping' = FALSE
    BY <1>1, <1>7, <1>9, <2>1 DEF Sound, Types
  <2> QED
    BY <1>1, <2>3, <2>4 DEF LastInv
<1> QED
  BY <1>8, <1>9

(* Reading after the older files stays right. *)
LEMMA LastNextStep ==
  ASSUME Sound, Sound', LastInv, Steps
  PROVE  LastInv'
<1>0. Types /\ Work \in Histories /\ Len(Work) = Len(queue) /\ Len(queue) \in Nat
      /\ Written \in 0 .. Len(queue) /\ Valid(Work)
  BY WorkNow DEF Sound, MemInv
<1>1. ASSUME Written' = Written, UNCHANGED <<file, began, dumping>>, Work' = Work PROVE LastInv'
  BY <1>0, <1>1, LastSameState
<1>2. ASSUME Written' = Written, UNCHANGED <<file, began, dumping>>,
             NEW ops \in Seq(Operations), Fits(Work, Len(queue), ops), Work' = Append(Work, ops)
      PROVE  LastInv'
  <2>1. \A k \in 0 .. Len(queue) : \A i : Last(Work', k, i) = Last(Work, k, i)
    BY <1>0, <1>2, ValidAppend
  <2>2. \A k \in 0 .. Written : \A i : Last(Work', k, i) = Last(Work, k, i)
    BY <1>0, <2>1
  <2> QED
    BY <1>0, <1>2, <2>2, LastSameState
<1>3. ASSUME NEW h \in Handles, NEW s \in Slots, NEW o \in Operations, Does(h, s, o) PROVE LastInv'
  <2>1. Written' = Written /\ Work' = Work
    BY <1>0, <1>3, TypesDoes
  <2>2. UNCHANGED <<file, began, dumping>>
    BY <1>3 DEF Does, service, disk
  <2> QED
    BY <1>1, <2>1, <2>2
<1>4. ASSUME NEW h \in Handles, Push(h) PROVE LastInv'
  <2>1. Written' = Written /\ Work' = Append(Work, Ops(log[h])) /\ place[h] = 0
    BY <1>0, <1>4, TypesPush
  <2>2. UNCHANGED <<file, began, dumping>>
    BY <1>4 DEF Push, service, disk
  <2>3. Before(h) = Len(queue) /\ Ops(log[h]) \in Seq(Operations)
    BY <1>0, <2>1, WorkNow
  <2>4. Fits(Work, Len(queue), Ops(log[h]))
    BY <2>3 DEF Sound, MemInv, LogsFit
  <2> QED
    BY <1>2, <2>1, <2>2, <2>3, <2>4
<1>5. ASSUME NEW h \in Handles, Unlock(h) PROVE LastInv'
  <2>1. Written' = Written /\ Work' = Work /\ UNCHANGED <<file, began, dumping>>
    BY <1>0, <1>5, TypesUnlock DEF service, disk
  <2> QED
    BY <1>1, <2>1
<1>6. ASSUME NEW h \in Handles, Fill(h) PROVE LastInv'
  <2>1. Written' = Written /\ Work' = Work /\ UNCHANGED <<file, began, dumping>>
    BY <1>0, <1>6, TypesFill DEF service, disk
  <2> QED
    BY <1>1, <2>1
<1>7. ASSUME NEW h \in Handles, GiveUp(h) PROVE LastInv'
  <2>1. Written' = Written
    BY <1>0, <1>7, TypesGiveUp DEF Sound, LockInv
  <2>2. UNCHANGED <<file, began, dumping>>
    BY <1>7 DEF GiveUp, disk
  <2>3. /\ Before(h) \in Written .. Len(queue)
        /\ \A k \in 0 .. Len(queue) : \A i :
             ~By(h, i) \/ k <= Before(h) => Last(Work', k, i) = Last(Work, k, i)
    BY <1>7, GiveUpLast
  <2>4. \A k \in 0 .. Written : \A i : Last(Work', k, i) = Last(Work, k, i)
    BY <1>0, <2>3
  <2> QED
    BY <1>0, <2>1, <2>2, <2>4, LastSameState
<1>8. CASE AskForDump
  <2>0. PICK ops \in Seq(Operations) : ops = <<>>
    BY NoOps
  <2>1. Written' = Written /\ Work' = Append(Work, ops)
    BY <1>0, <1>8, <2>0, TypesAsk
  <2>2. UNCHANGED <<file, began, dumping>>
    BY <1>8 DEF AskForDump, service, disk
  <2>3. Fits(Work, Len(queue), ops)
    BY <2>0, NoOps DEF Fits
  <2> QED
    BY <1>2, <2>1, <2>2, <2>3
<1>9. CASE SvcCommit
  BY <1>9, LastCommit
<1>10. CASE SvcStartDump
  BY <1>10, LastStartDump
<1>11. CASE Dumps1 \/ SvcDumpEnd
  BY <1>11, LastDumps
<1>12. CASE Rests
  <2>1. /\ Written' = Written /\ Work' = Work /\ UNCHANGED <<file, began, dumping>>
    BY <1>0, <1>12, TypesRest DEF Rests, disk
  <2> QED
    BY <1>1, <2>1
<1> QED
  BY <1>3, <1>4, <1>5, <1>6, <1>7, <1>8, <1>9, <1>10, <1>11, <1>12 DEF Steps

(* The last operation on a node among the written jobs is the one with the
   latest place. *)
LEMMA LatestIs ==
  ASSUME Sound, NEW k \in 0 .. Written, NEW i \in Ids, NEW P, P = Touching(k, i)
  PROVE  /\ P = {} <=> Jobs(Work, k, i) = {}
         /\ P # {} => queue[Latest(P)[1]].ops[Latest(P)[2]] = Last(Work, k, i)
<1>1. Types /\ Work \in Histories /\ Written \in 0 .. Len(queue) /\ Len(queue) \in Nat
  BY WorkNow DEF Sound
<1>2. ASSUME NEW j \in 1 .. k
      PROVE  queue[j].ops = Work[j] /\ Work[j] \in Seq(Operations) /\ Len(Work[j]) <= MaxOps
  <2>1. j \in 1 .. Written /\ j \in 1 .. Len(queue)
    BY <1>1
  <2>2. queue[j].ready
    BY <1>1, <2>1 DEF Types
  <2>3. Shape(queue, place, log)
    BY <1>1 DEF Types
  <2>4. queue[j].ops = Work[j]
    BY <2>1, <2>2, <2>3, WorkIs DEF Work
  <2> QED
    BY <2>1, <2>4, WorkNow DEF Sound, WorkBounded, Bounded
<1>3. \A j \in 1 .. k : \A x : <<j, x>> \in P <=> x \in Touches(Work[j], i)
  <2>1. ASSUME NEW j \in 1 .. k, NEW x PROVE <<j, x>> \in P <=> x \in Touches(Work[j], i)
    <3>1. x \in DOMAIN Work[j] => x \in 1 .. MaxOps
      BY <1>2, Constants
    <3> QED
      BY <1>2, <2>1, <3>1 DEF Touching, Touches
  <2> QED
    BY <2>1
<1>4. \A p \in P : p[1] \in 1 .. k /\ p = <<p[1], p[2]>> /\ p[2] \in Touches(Work[p[1]], i)
  <2>1. ASSUME NEW p \in P PROVE p[1] \in 1 .. k /\ p = <<p[1], p[2]>> /\ p[2] \in Touches(Work[p[1]], i)
    <3>1. p \in (1 .. k) \X (1 .. MaxOps)
      BY DEF Touching
    <3>2. p[1] \in 1 .. k /\ p = <<p[1], p[2]>>
      BY <3>1
    <3> QED
      BY <1>3, <3>2
  <2> QED
    BY <2>1
<1>5. P = {} <=> Jobs(Work, k, i) = {}
  <2>1. ASSUME NEW p \in P PROVE Jobs(Work, k, i) # {}
    BY <1>4, <2>1 DEF Jobs, Touched
  <2>2. ASSUME NEW j \in Jobs(Work, k, i) PROVE P # {}
    <3>1. j \in 1 .. k /\ Touched(Work[j], i)
      BY <2>2 DEF Jobs
    <3>2. PICK x : x \in Touches(Work[j], i)
      BY <3>1 DEF Touched
    <3> QED
      BY <1>3, <3>1, <3>2
  <2> QED
    BY <2>1, <2>2
<1>6. ASSUME P # {} PROVE queue[Latest(P)[1]].ops[Latest(P)[2]] = Last(Work, k, i)
  <2> DEFINE J == Jobs(Work, k, i)
             m == LastOf(J)
             y == LastOf(Touches(Work[m], i))
  <2>1. J # {} /\ J \subseteq 1 .. k /\ k \in Nat
    BY <1>1, <1>5, <1>6 DEF Jobs
  <2>2. m \in J /\ \A j \in J : j <= m
    BY <2>1, LastOfExists
  <2>3. m \in 1 .. k /\ Touched(Work[m], i) /\ Work[m] \in Seq(Operations)
    BY <1>2, <2>2 DEF Jobs
  <2>4. y \in DOMAIN Work[m] /\ \A x \in DOMAIN Work[m] : Work[m][x].id = i => x <= y
    BY <2>3, LastOpIs
  <2>5. Last(Work, k, i) = Work[m][y] /\ Work[m][y].id = i
    BY <2>1, <2>3, LastOpIs DEF Last, LastOp
  <2> HIDE DEF J, m, y
  <2>6. <<m, y>> \in P
    BY <1>3, <2>3, <2>4, <2>5 DEF Touches
  <2>7. \A q \in P : q[1] < m \/ (q[1] = m /\ q[2] <= y)
    <3>1. ASSUME NEW q \in P PROVE q[1] < m \/ (q[1] = m /\ q[2] <= y)
      <4>1. q[1] \in 1 .. k /\ q[2] \in Touches(Work[q[1]], i)
        BY <1>4
      <4>2. q[1] \in J
        BY <4>1 DEF J, Jobs, Touched
      <4>3. q[1] <= m
        BY <2>2, <4>2
      <4>4. q[1] = m => q[2] <= y
        BY <2>4, <4>1 DEF Touches
      <4> QED
        BY <2>3, <4>1, <4>3, <4>4
    <3> QED
      BY <3>1
  <2>8. PICK p : p = Latest(P)
    OBVIOUS
  <2>9. \E r \in P : \A q \in P : q[1] < r[1] \/ (q[1] = r[1] /\ q[2] <= r[2])
    BY <2>6, <2>7
  <2>10. p \in P /\ \A q \in P : q[1] < p[1] \/ (q[1] = p[1] /\ q[2] <= p[2])
    BY <2>8, <2>9 DEF Latest
  <2>11. /\ p[1] < m \/ (p[1] = m /\ p[2] <= y)
         /\ m < p[1] \/ (m = p[1] /\ y <= p[2])
         /\ p[1] \in 1 .. k /\ p[2] \in Touches(Work[p[1]], i)
    BY <1>4, <2>6, <2>7, <2>10
  <2>12. p[1] = m
    BY <2>3, <2>11
  <2>13. p[2] \in DOMAIN Work[m]
    BY <2>11, <2>12 DEF Touches
  <2>14. p[2] \in Nat /\ y \in Nat
    BY <2>3, <2>4, <2>13
  <2>15. p[2] = y
    BY <2>3, <2>11, <2>12, <2>14
  <2> QED
    BY <1>2, <2>3, <2>5, <2>8, <2>12, <2>15
<1> QED
  BY <1>5, <1>6

(* What the jobs written so far, or the first of them, leave. *)
LEMMA CommittedIs ==
  ASSUME Sound, NEW k \in 0 .. Written
  PROVE  Committed(k) = StateOf(Work, k)
<1>1. Work \in Histories /\ k \in 0 .. Len(Work)
  BY WorkNow DEF Sound
<1>2. ASSUME NEW i \in Ids
      PROVE  /\ i \in Existing(k) <=> Exists(Last(Work, k, i))
             /\ Exists(Last(Work, k, i)) => ValueOf(k, i) = ValueIn(Last(Work, k, i))
  <2>1. PICK P : P = Touching(k, i)
    OBVIOUS
  <2>2. PICK o : o = queue[Latest(P)[1]].ops[Latest(P)[2]]
    OBVIOUS
  <2>3. i \in Existing(k) <=> IF P = {} THEN i <= StartNodes ELSE o.op # "DELETED"
    BY <2>1, <2>2 DEF Existing
  <2>4. ValueOf(k, i) = IF P = {} \/ o.op = "CREATED" THEN InitValue ELSE o.value
    BY <2>1, <2>2 DEF ValueOf
  <2>5. /\ P = {} <=> Jobs(Work, k, i) = {}
        /\ P # {} => o = Last(Work, k, i)
    BY <2>1, <2>2, LatestIs
  <2>6. CASE P = {}
    <3>1. Last(Work, k, i) = Start(i)
      BY <2>5, <2>6 DEF Last
    <3>2. Exists(Start(i)) <=> i <= StartNodes
      BY OpFields DEF Start, Exists
    <3>3. Exists(Start(i)) => ValueIn(Start(i)) = InitValue
      BY OpFields DEF Start, Exists, ValueIn
    <3> QED
      BY <2>3, <2>4, <2>6, <3>1, <3>2, <3>3
  <2>7. CASE P # {}
    <3>1. o = Last(Work, k, i) /\ o.op # "NONE"
      BY <1>1, <2>5, <2>7, LastIs DEF Ids
    <3>2. o \in Operations
      BY <1>1, <3>1, LastIs DEF Ids
    <3>3. Exists(o) <=> o.op # "DELETED"
      BY <3>2, OpIs DEF Exists
    <3> QED
      BY <2>3, <2>4, <2>7, <3>1, <3>3 DEF ValueIn
  <2> QED
    BY <2>6, <2>7
<1>3. Existing(k) \subseteq Ids
  BY DEF Existing
<1>4. Existing(k) = {i \in Ids : Exists(Last(Work, k, i))}
  BY <1>2, <1>3
<1>5. \A i \in Existing(k) : ValueOf(k, i) = ValueIn(Last(Work, k, i))
  BY <1>2, <1>4
<1> QED
  BY <1>4, <1>5 DEF Committed, StateOf

(* Nothing has been loaded. *)
LEMMA NothingIs ==
  ASSUME NEW d, d = L!Nothing
  PROVE  /\ IsLoaded(d) /\ d.status = "READING" /\ d.dumpOn = FALSE /\ d.magic = 0
         /\ d.ghosts = {} /\ \A i : Holds(d, i) = {}
<1>1. PICK N : N = <<>>
  OBVIOUS
<1>2. d = [nodes |-> N, ghosts |-> {}, magic |-> 0, dumpOn |-> FALSE, status |-> "READING"]
  BY <1>1 DEF L!Nothing
<1>3. d.nodes = N /\ d.ghosts = {} /\ d.magic = 0 /\ d.dumpOn = FALSE /\ d.status = "READING"
  BY <1>2
<1>4. DOMAIN N = {}
  BY <1>1
<1>5. N = [i \in DOMAIN N |-> N[i]]
  BY <1>1
<1>6. IsLoaded(d)
  BY <1>2, <1>3, <1>5 DEF IsLoaded
<1> QED
  BY <1>3, <1>4, <1>6 DEF Holds

(* The end of the file has been reached. *)
LEMMA UnfinishedIs ==
  ASSUME NEW d, IsLoaded(d), NEW e, e = [d EXCEPT !.status = "UNFINISHED"]
  PROVE  e.nodes = d.nodes /\ e.ghosts = d.ghosts /\ e.status = "UNFINISHED"
<1>1. d = [nodes |-> d.nodes, ghosts |-> d.ghosts, magic |-> d.magic,
           dumpOn |-> d.dumpOn, status |-> d.status]
  BY DEF IsLoaded
<1> QED
  BY <1>1

(* What loading the present file gives. *)
Loads(d, first, e) ==
  /\ IsLoaded(d) /\ d.status = "READING" /\ d.dumpOn = FALSE /\ d.magic = 0
  /\ first \in BOOLEAN /\ (first => BeginsWithMark)
  /\ e = L!LoadFile(d, OnDisk, first)

LEMMA LoadIs ==
  ASSUME NEW d, NEW first, NEW e, Loads(d, first, e), file \in Seq(Records),
         NEW end, end = ReadAll(d, file, first)
  PROVE  /\ IsLoaded(end) /\ end.status = "READING" =>
              e.nodes = end.nodes /\ e.ghosts = end.ghosts /\ e.status = "UNFINISHED"
         /\ end.status # "READING" => e = end
<1>1. /\ IsLoaded(d) /\ d.status = "READING" /\ d.dumpOn = FALSE /\ d.magic = 0
      /\ first \in BOOLEAN /\ (first => BeginsWithMark)
      /\ e = L!LoadFile(d, OnDisk, first)
  BY DEF Loads
<1>2. PICK disk0 : disk0 = OnDisk
  OBVIOUS
<1>3. disk0.header = TRUE /\ disk0.magic = 1 /\ disk0.records = file
  BY <1>2 DEF OnDisk
<1>4. PICK start : start = [d EXCEPT !.dumpOn = FALSE, !.status = "READING"]
  OBVIOUS
<1>5. start = d
  <2>1. d = [nodes |-> d.nodes, ghosts |-> d.ghosts, magic |-> d.magic,
             dumpOn |-> FALSE, status |-> "READING"]
    BY <1>1 DEF IsLoaded
  <2>2. PICK N, G, m : N = d.nodes /\ G = d.ghosts /\ m = d.magic
    OBVIOUS
  <2>3. d = [nodes |-> N, ghosts |-> G, magic |-> m, dumpOn |-> FALSE, status |-> "READING"]
    BY <2>1, <2>2
  <2>4. PICK c : c = [d EXCEPT !.dumpOn = FALSE]
    OBVIOUS
  <2>5. c = [nodes |-> N, ghosts |-> G, magic |-> m, dumpOn |-> FALSE, status |-> "READING"]
    BY ONLY <2>3, <2>4
  <2>6. start = [c EXCEPT !.status = "READING"]
    BY ONLY <1>4, <2>3, <2>4
  <2>7. start = [nodes |-> N, ghosts |-> G, magic |-> m, dumpOn |-> FALSE, status |-> "READING"]
    BY ONLY <2>5, <2>6
  <2> QED
    BY <2>3, <2>7
<1>6. L!HeaderFits(d, disk0)
  BY <1>1, <1>3 DEF L!HeaderFits
<1>7. first => L!BeginsWithDump(disk0)
  BY <1>1, <1>3 DEF L!BeginsWithDump, BeginsWithMark
<1>8. end = L!ReadRecords(d, file, Len(file), first)
  BY DEF ReadAll
<1>9. e = IF end.status = "READING" THEN [end EXCEPT !.status = "UNFINISHED"] ELSE end
  <2>1. e = L!LoadFile(d, disk0, first)
    BY <1>1, <1>2
  <2>2. ~(~L!HeaderFits(d, disk0) \/ (first /\ ~L!BeginsWithDump(disk0)))
    BY <1>1, <1>6, <1>7
  <2> QED
    BY <1>3, <1>4, <1>5, <1>8, <2>1, <2>2 DEF L!LoadFile
<1>10. ASSUME IsLoaded(end), end.status = "READING"
       PROVE  e.nodes = end.nodes /\ e.ghosts = end.ghosts /\ e.status = "UNFINISHED"
  <2>1. e = [end EXCEPT !.status = "UNFINISHED"]
    BY <1>9, <1>10
  <2> QED
    BY <1>10, <2>1, UnfinishedIs
<1>11. ASSUME end.status # "READING" PROVE e = end
  BY <1>9, <1>11
<1> QED
  BY <1>10, <1>11

(* Nodes that are those of a state. *)
LEMMA NodesAre ==
  ASSUME NEW d, IsLoaded(d), NEW V, NEW k, \A i : Holds(d, i) = Now(V, k, i)
  PROVE  d.nodes = StateOf(V, k)
<1>1. PICK N : N = d.nodes /\ N = [i \in DOMAIN N |-> N[i]]
  BY DEF IsLoaded
<1>2. PICK S : S = {i \in Ids : Exists(Last(V, k, i))}
  OBVIOUS
<1>3. StateOf(V, k) = [i \in S |-> ValueIn(Last(V, k, i))]
  BY <1>2 DEF StateOf
<1>4. ASSUME NEW i
      PROVE  (i \in DOMAIN N <=> i \in S) /\ (i \in S => N[i] = ValueIn(Last(V, k, i)))
  <2>1. Holds(d, i) = IF i \in DOMAIN N THEN {N[i]} ELSE {}
    BY <1>1 DEF Holds
  <2>2. Holds(d, i) = IF i \in S THEN {ValueIn(Last(V, k, i))} ELSE {}
    BY <1>2 DEF Now
  <2> QED
    BY <2>1, <2>2
<1>5. DOMAIN N = S
  BY <1>4
<1>6. \A i \in S : N[i] = ValueIn(Last(V, k, i))
  BY <1>4
<1> QED
  BY <1>1, <1>3, <1>5, <1>6

(* Read after the older files, the present one gives what was committed. *)
LEMMA ChainIs ==
  ASSUME Sound, LastInv
  PROVE  ChainLoads
<1>1. Types /\ file \in Seq(Records) /\ began \in 0 .. Written /\ Written \in 0 .. Written
  BY WrittenIs DEF Sound, Types
<1>2. Committed(began) = StateOf(Work, began) /\ Committed(Written) = StateOf(Work, Written)
  BY <1>1, CommittedIs
<1>3. PICK d : d = [L!Nothing EXCEPT !.nodes = StateOf(Work, began)]
  OBVIOUS
<1>4. Reached(d, Work, began, FALSE)
  BY <1>3, StartReached
<1>5. PICK e : e = AsLast
  OBVIOUS
<1>6. PICK no \in BOOLEAN : no = FALSE
  OBVIOUS
<1>7. Loads(d, no, e)
  <2>1. e = L!LoadFile(d, OnDisk, no)
    BY <1>2, <1>3, <1>5, <1>6 DEF AsLast
  <2> QED
    BY <1>4, <1>6, <2>1 DEF Loads, Reached
<1>8. PICK end : end = ReadAll(d, file, no)
  OBVIOUS
<1>9. Reached(end, Work, Written, dumping)
  BY <1>3, <1>6, <1>8 DEF LastInv, AfterOlder
<1>10. /\ IsLoaded(end) /\ end.status = "READING" =>
            e.nodes = end.nodes /\ e.ghosts = end.ghosts /\ e.status = "UNFINISHED"
  BY <1>1, <1>7, <1>8, LoadIs
<1>11. e.nodes = end.nodes /\ e.ghosts = {} /\ e.status = "UNFINISHED"
  BY <1>9, <1>10 DEF Reached
<1>12. end.nodes = StateOf(Work, Written)
  BY <1>9, NodesAre DEF Reached
<1> QED
  BY <1>2, <1>5, <1>11, <1>12 DEF ChainLoads

-----------------------------------------------------------------------------
(* Creations and dumps in a file *)

(* Records that are transactions hold operations. *)
LEMMA RecordOps ==
  ASSUME NEW r \in Records, r.kind = "transaction"
  PROVE  r.ops \in Seq(Operations)
<1>1. CASE \E ops \in Seq(Operations) \ {<<>>} : r = L!Transaction(ops)
  BY <1>1, RecordKinds
<1>2. r \notin {L!Dumped(i, v) : i \in Ids, v \in Values}
  <2>1. SUFFICES ASSUME NEW i \in Ids, NEW v \in Values, r = L!Dumped(i, v)
                 PROVE  FALSE
    OBVIOUS
  <2>2. L!Dumped(i, v).kind = "dumped"
    BY RecordKinds
  <2> QED
    BY <2>1, <2>2
<1>3. r \notin {L!DumpBegin, L!DumpEnd}
  BY RecordKinds
<1> QED
  BY <1>1, <1>2, <1>3 DEF Records

(* What one more record adds. *)
NewCreation(r, i) == r.kind = "transaction" /\ Creates(r.ops, i)
NewDump(r, i) == r.kind = "dumped" /\ r.id = i

LEMMA MarksMore ==
  ASSUME NEW f, NEW g, NEW r, NEW S, Longer(f, g, r, S), NEW i
  PROVE  /\ CreatedAt(g, i) = CreatedAt(f, i) \cup (IF NewCreation(r, i) THEN {Len(f) + 1} ELSE {})
         /\ DumpedAt(g, i) = DumpedAt(f, i) \cup (IF NewDump(r, i) THEN {Len(f) + 1} ELSE {})
         /\ CreatedAt(f, i) \subseteq 1 .. Len(f) /\ DumpedAt(f, i) \subseteq 1 .. Len(f)
         /\ Len(f) \in Nat
<1> DEFINE n == Len(f)
<1>1. /\ n \in Nat /\ DOMAIN f = 1 .. n /\ DOMAIN g = 1 .. n + 1 /\ g[n + 1] = r
      /\ \A k \in 1 .. n : g[k] = f[k]
  BY DEF Longer
<1>2. /\ DOMAIN g = DOMAIN f \cup {n + 1} /\ n + 1 \notin DOMAIN f
      /\ \A k \in DOMAIN f : g[k] = f[k]
  BY <1>1
<1> HIDE DEF n
<1>3. PICK m : m = n + 1
  OBVIOUS
<1>4. CreatedAt(g, i) = CreatedAt(f, i) \cup (IF NewCreation(r, i) THEN {m} ELSE {})
  BY <1>1, <1>2, <1>3, Zenon DEF CreatedAt, NewCreation
<1>5. DumpedAt(g, i) = DumpedAt(f, i) \cup (IF NewDump(r, i) THEN {m} ELSE {})
  BY <1>1, <1>2, <1>3, Zenon DEF DumpedAt, NewDump
<1> QED
  BY <1>1, <1>3, <1>4, <1>5 DEF CreatedAt, DumpedAt, n

(* A node is dumped after it was created if it is dumped now. *)
LEMMA EarlyMore ==
  ASSUME NEW f, NEW g, NEW r, NEW S, Longer(f, g, r, S)
  PROVE  EarlyIn(g) <=> EarlyIn(f) \/ \E i \in Ids : NewDump(r, i) /\ CreatedAt(f, i) # {}
<1> DEFINE n == Len(f)
<1>1. \A i :
        /\ CreatedAt(g, i) = CreatedAt(f, i) \cup (IF NewCreation(r, i) THEN {n + 1} ELSE {})
        /\ DumpedAt(g, i) = DumpedAt(f, i) \cup (IF NewDump(r, i) THEN {n + 1} ELSE {})
        /\ CreatedAt(f, i) \subseteq 1 .. n /\ DumpedAt(f, i) \subseteq 1 .. n
        /\ n \in Nat
  BY MarksMore
<1> HIDE DEF n
<1>2. ASSUME EarlyIn(f) PROVE EarlyIn(g)
  <2>1. PICK i \in Ids : \E k \in CreatedAt(f, i), l \in DumpedAt(f, i) : k < l
    BY <1>2 DEF EarlyIn
  <2>2. PICK k \in CreatedAt(f, i), l \in DumpedAt(f, i) : k < l
    BY <2>1
  <2>3. k \in CreatedAt(g, i) /\ l \in DumpedAt(g, i)
    BY <1>1
  <2> QED
    BY <2>2, <2>3 DEF EarlyIn
<1>3. ASSUME NEW i \in Ids, NewDump(r, i), CreatedAt(f, i) # {} PROVE EarlyIn(g)
  <2>1. PICK k : k \in CreatedAt(f, i)
    BY <1>3
  <2>2. n + 1 \in DumpedAt(g, i) /\ k \in CreatedAt(g, i)
    BY <1>1, <1>3, <2>1
  <2>3. k \in 1 .. n /\ n \in Nat
    BY <1>1, <2>1
  <2>4. k < n + 1
    BY <2>3
  <2> QED
    BY <2>2, <2>4 DEF EarlyIn
<1>4. ASSUME EarlyIn(g), ~EarlyIn(f) PROVE \E i \in Ids : NewDump(r, i) /\ CreatedAt(f, i) # {}
  <2>1. PICK i \in Ids : \E k \in CreatedAt(g, i), l \in DumpedAt(g, i) : k < l
    BY <1>4 DEF EarlyIn
  <2>2. PICK k \in CreatedAt(g, i), l \in DumpedAt(g, i) : k < l
    BY <2>1
  <2>3. n \in Nat /\ (k \in CreatedAt(f, i) => k \in 1 .. n) /\ (l \in DumpedAt(f, i) => l \in 1 .. n)
    BY <1>1
  <2>4. k \in CreatedAt(f, i) \/ k = n + 1
    BY <1>1, <2>2
  <2>5. l \in DumpedAt(f, i) \/ (l = n + 1 /\ NewDump(r, i))
    BY <1>1, <2>2
  <2>6. k \in CreatedAt(f, i)
    BY <2>2, <2>3, <2>4, <2>5
  <2>7. l \notin DumpedAt(f, i)
    BY <1>4, <2>2, <2>6 DEF EarlyIn
  <2> QED
    BY <2>5, <2>6, <2>7
<1> QED
  BY <1>2, <1>3, <1>4

(* A file that has just been begun. *)
LEMMA NoMarks ==
  ASSUME NEW f, f = <<L!DumpBegin>>
  PROVE  (\A i : CreatedAt(f, i) = {} /\ DumpedAt(f, i) = {}) /\ ~EarlyIn(f)
<1>1. DOMAIN f = {1} /\ f[1].kind = "DUMP BEGIN"
  <2>1. f[1] = L!DumpBegin /\ DOMAIN f = 1 .. 1
    OBVIOUS
  <2>2. f[1].kind = "DUMP BEGIN"
    BY <2>1, RecordKinds
  <2>3. 1 .. 1 = {1}
    OBVIOUS
  <2>4. DOMAIN f = {1}
    BY <2>1, <2>3, Zenon
  <2> QED
    BY <2>2, <2>4, Zenon
<1>2. ASSUME NEW i PROVE CreatedAt(f, i) = {} /\ DumpedAt(f, i) = {}
  BY <1>1 DEF CreatedAt, DumpedAt
<1> QED
  BY <1>2 DEF EarlyIn

-----------------------------------------------------------------------------
(* Reading the file on its own *)

(* How far the service thread may have seen. *)
LEMMA HorizonIs ==
  ASSUME Types
  PROVE  Horizon \in Written .. Len(queue) /\ Horizon \in Nat /\ Written \in Nat /\ Len(queue) \in Nat
<1>1. Written \in 0 .. Len(queue) /\ Len(queue) \in Nat /\ overtaken \in 0 .. Len(queue)
  BY WrittenIs DEF Types
<1> QED
  BY <1>1 DEF Horizon

(* A step that writes nothing, after which all values that were right are so
   still, and all that was ahead is so still. *)
LooksOn ==
  /\ Written' = Written /\ UNCHANGED <<file, dumping, overtaken>>
  /\ counter \in Nat /\ counter' \in Nat /\ counter' >= counter
  /\ \A i : Last(Work', Written, i) = Last(Work, Written, i)
  /\ \A n \in Written .. Horizon : \A i \in Ids : Firm(n, i) =>
       Firm(n, i)' /\ Last(Work', n, i) = Last(Work, n, i)
  /\ Horizon' \in Nat /\ Horizon' >= Horizon
LooksAhead ==
  /\ \A s \in Slots : id[s] \in Ids /\ Exists(Last(Work, Written, id[s])) => id'[s] = id[s]
  /\ \A s \in Slots : id'[s] # 0 => id'[s] = id[s] \/ id'[s] = counter + 1
  /\ cursor' # 0 => cursor # 0 /\ cursor <= cursor'
  /\ \A t \in Slots : cursor # 0 /\ t >= cursor /\ id'[t] # 0 => cursor' # 0 /\ cursor' <= t

LEMMA FirstSame ==
  ASSUME Types, Types', FirstInv, LooksOn, LooksAhead
  PROVE  FirstInv'
<1>0. SUFFICES ASSUME HasDump PROVE
        (BeginsWithMark /\ DumpsGivenOut /\ CreationsShown /\ WalkedPast /\ Alone(OnItsOwn, Work, file))'
  BY DEF FirstInv, HasDump, LooksOn
<1>1. BeginsWithMark /\ DumpsGivenOut /\ CreationsShown /\ WalkedPast /\ Alone(OnItsOwn, Work, file)
  BY <1>0 DEF FirstInv
<1>2. /\ Written' = Written /\ UNCHANGED <<file, dumping, overtaken>>
      /\ counter \in Nat /\ counter' \in Nat /\ counter' >= counter
      /\ \A i : Last(Work', Written, i) = Last(Work, Written, i)
  BY DEF LooksOn
<1>3. BeginsWithMark' /\ DumpsGivenOut' /\ CreationsShown'
  <2>1. BeginsWithMark'
    BY <1>1, <1>2 DEF BeginsWithMark
  <2>2. DumpsGivenOut'
    <3>1. ASSUME NEW i \in Ids, DumpedAt(file, i) # {} PROVE i <= counter'
      <4>1. i <= counter /\ i \in Nat
        BY <1>1, <3>1 DEF DumpsGivenOut, Ids
      <4> QED
        BY <1>2, <4>1
    <3> QED
      BY <1>2, <3>1 DEF DumpsGivenOut
  <2>3. CreationsShown'
    BY <1>1, <1>2 DEF CreationsShown
  <2> QED
    BY <2>1, <2>2, <2>3
<1>4. WalkedPast'
  <2>1. ASSUME NEW s \in Slots, id'[s] # 0, DumpedAt(file, id'[s]) # {}, cursor' # 0
        PROVE  s < cursor'
    <3>1. id'[s] # counter + 1
      <4>1. id'[s] = counter + 1 => id'[s] \in Ids
        <5>1. id'[s] \in Nat /\ id'[s] <= counter' /\ counter' <= MaxId
          BY DEF Types
        <5> QED
          BY <1>2, <2>1, <5>1, Constants DEF Ids
      <4>2. id'[s] \in Ids => id'[s] <= counter
        BY <1>1, <2>1 DEF DumpsGivenOut
      <4> QED
        BY <1>2, <4>1, <4>2
    <3>2. id'[s] = id[s] /\ cursor # 0 /\ cursor <= cursor'
      BY <2>1, <3>1 DEF LooksAhead
    <3>3. s < cursor
      BY <1>1, <2>1, <3>2 DEF WalkedPast, Live
    <3>4. s \in Nat /\ cursor \in Nat /\ cursor' \in Nat
      BY Constants DEF Types
    <3> QED
      BY <3>2, <3>3, <3>4
  <2> QED
    BY <1>2, <2>1 DEF WalkedPast, Live
<1>5. PICK d : d = OnItsOwn
  OBVIOUS
<1>6. OnItsOwn' = d
  BY <1>2, <1>5 DEF OnItsOwn
<1>7. CASE EarlyIn(file)
  <2>1. d.status = "CORRUPTED"
    BY <1>1, <1>5, <1>7 DEF Alone
  <2>2. Alone(OnItsOwn, Work, file)'
    BY <1>2, <1>6, <1>7, <2>1 DEF Alone
  <2> QED
    BY <1>3, <1>4, <2>2
<1>8. CASE ~EarlyIn(file)
  <2>1. /\ IsLoaded(d) /\ d.status = "READING" /\ d.dumpOn = dumping
        /\ \A i : Right(Work, file, i, Holds(d, i)) /\ Whole(Work, file, i, Holds(d, i))
    BY <1>1, <1>5, <1>8 DEF Alone
  <2>2. ASSUME NEW i, NEW v \in Holds(d, i)
        PROVE  /\ i \in Ids /\ Last(Work', Written, i).op # "DELETED"
               /\ CreatedAt(file, i) # {} \/ DumpedAt(file, i) # {}
               /\ \E n \in Written .. Horizon' : Firm(n, i)' /\ Shows(Last(Work', n, i), v)
    <3>1. /\ i \in Ids /\ Last(Work, Written, i).op # "DELETED"
          /\ CreatedAt(file, i) # {} \/ DumpedAt(file, i) # {}
          /\ \E n \in Written .. Horizon : Settled(Work, n, i, v)
      BY <2>1, <2>2 DEF Right
    <3>2. PICK n \in Written .. Horizon : Firm(n, i) /\ Shows(Last(Work, n, i), v)
      BY <3>1 DEF Settled
    <3>3. Firm(n, i)' /\ Shows(Last(Work', n, i), v)
      BY <3>1, <3>2 DEF LooksOn
    <3>4. n \in Written .. Horizon'
      BY HorizonIs DEF LooksOn
    <3> QED
      BY <1>2, <3>1, <3>3, <3>4
  <2>3. \A i : Right(Work, file, i, Holds(d, i))'
    BY <1>2, <2>2 DEF Right, Settled
  <2>4. ASSUME NEW i, i \in Ids, Exists(Last(Work', Written, i)), Holds(d, i) = {}
        PROVE  CreatedAt(file, i) = {} /\ cursor' # 0 /\ \E s \in Slots : s >= cursor' /\ id'[s] = i
    <3>1. Exists(Last(Work, Written, i))
      BY <1>2, <2>4
    <3>2. CreatedAt(file, i) = {} /\ cursor # 0 /\ \E s \in Slots : s >= cursor /\ id[s] = i
      BY <2>1, <2>4, <3>1 DEF Whole, Ahead
    <3>3. PICK s \in Slots : s >= cursor /\ id[s] = i
      BY <3>2
    <3>4. id'[s] = i /\ i # 0
      BY <2>4, <3>1, <3>3 DEF LooksAhead, Ids
    <3>5. cursor' # 0 /\ cursor' <= s
      BY <3>2, <3>3, <3>4 DEF LooksAhead
    <3>6. s \in Nat /\ cursor' \in Nat
      BY Constants DEF Types
    <3> QED
      BY <3>2, <3>4, <3>5, <3>6
  <2>5. \A i : Whole(Work, file, i, Holds(d, i))'
    BY <1>2, <2>4 DEF Whole, Ahead
  <2>6. Alone(OnItsOwn, Work, file)'
    BY <1>2, <1>6, <1>8, <2>1, <2>3, <2>5 DEF Alone
  <2> QED
    BY <1>3, <1>4, <2>6
<1> QED
  BY <1>7, <1>8

(* A job at the end of a history changes nothing before it. *)
LEMMA AppendLast ==
  ASSUME NEW V, NEW U, NEW ops, NEW S, Longer(V, U, ops, S), NEW k \in 0 .. Len(V), NEW i
  PROVE  Last(U, k, i) = Last(V, k, i)
<1>1. Len(V) \in Nat /\ k \in Nat /\ \A j \in 1 .. Len(V) : U[j] = V[j]
  BY DEF Longer
<1>2. \A j \in 1 .. k : U[j] = V[j] \/ (~Touched(U[j], i) /\ ~Touched(V[j], i))
  BY <1>1
<1>3. k \in Nat
  BY <1>1
<1> QED
  BY ONLY <1>2, <1>3, LastSame

(* The walk where no place changes its node. *)
LEMMA WalkSame ==
  ASSUME Types, UNCHANGED <<id, cursor>>
  PROVE  LooksAhead
<1>1. cursor \in Nat /\ Slots \subseteq Nat
  BY Constants DEF Types
<1> QED
  BY <1>1 DEF LooksAhead

(* An operation more. *)
LEMMA FirstDoes ==
  ASSUME Sound, FirstInv, NEW h, NEW s, NEW o, Does(h, s, o)
  PROVE  FirstInv'
<1>1. Types /\ Types' /\ Work' = Work /\ Written' = Written /\ h \in Handles /\ s \in Slots
      /\ o \in Operations
  BY TypesDoes DEF Sound
<1>2. /\ id'[s] = o.id /\ owner'[s] = h
      /\ \A t \in Slots : t # s => id'[t] = id[t] /\ owner'[t] = owner[t]
      /\ \A g \in Handles : g # h => log'[g] = log[g]
  BY <1>1, TypesDoes
<1>3. /\ UNCHANGED <<file, dumping, overtaken, cursor, place, queue>> /\ place[h] = 0
      /\ IF o.op = "CREATED" THEN id[s] = 0 /\ o.id = counter + 1 /\ counter' = counter + 1
                             ELSE id[s] = o.id /\ counter' = counter
  BY DEF Does, disk, service
<1>4. counter \in Nat /\ cursor \in Nat /\ Horizon \in Nat /\ Slots \subseteq Nat /\ 0 \notin Ids
  <2>1. 0 \notin Ids
    BY Constants DEF Ids
  <2>2. counter \in Nat /\ cursor \in Nat /\ Slots \subseteq Nat
    BY <1>1, Constants DEF Types
  <2> QED
    BY <1>1, <2>1, <2>2, HorizonIs
<1>5. counter' \in Nat /\ counter' >= counter
  BY <1>3, <1>4
<1>6. Horizon' = Horizon
  BY <1>1, <1>3 DEF Horizon
<1>7. ASSUME NEW n, NEW i, Firm(n, i) PROVE Firm(n, i)'
  <2>1. ASSUME NEW g \in Handles, Queued(g)', Owns(g)' # {}, By(g, i)' PROVE n < place'[g]
    <3>1. place'[g] = place[g] /\ Queued(g) /\ g # h
      BY <1>3, <2>1 DEF Queued
    <3>2. By(g, i)
      BY <1>2, <2>1, <3>1 DEF By
    <3>3. PICK t \in Slots : owner'[t] = g
      BY <2>1 DEF Owns
    <3>4. t \in Owns(g)
      BY <1>2, <3>1, <3>3 DEF Owns
    <3> QED
      BY <1>7, <3>1, <3>2, <3>4 DEF Firm
  <2> QED
    BY <2>1 DEF Firm
<1>8. LooksOn
  BY <1>1, <1>3, <1>4, <1>5, <1>6, <1>7 DEF LooksOn
<1>9. LooksAhead
  <2>1. ASSUME NEW t \in Slots, id[t] \in Ids PROVE id'[t] = id[t]
    BY <1>2, <1>3, <1>4, <2>1
  <2>2. ASSUME NEW t \in Slots PROVE id'[t] = id[t] \/ id'[t] = counter + 1
    BY <1>2, <1>3
  <2> QED
    BY <1>3, <1>4, <2>1, <2>2 DEF LooksAhead
<1> QED
  BY <1>1, <1>8, <1>9, FirstSame

(* A transaction enters the queue, or a dump is asked for. *)
LEMMA FirstLinks ==
  ASSUME Sound, FirstInv, AskForDump \/ \E h \in Handles : Push(h)
  PROVE  FirstInv'
<1>1. Types /\ Work \in Histories /\ Len(Work) = Len(queue) /\ Len(queue) \in Nat
  BY WorkNow DEF Sound
<1>2. /\ Types' /\ Written' = Written /\ Len(queue') = Len(queue) + 1
      /\ \E ops : Work' = Append(Work, ops)
      /\ UNCHANGED <<memory, log, service, disk>>
      /\ \A g \in Handles : place'[g] # place[g] => place'[g] = Len(queue) + 1
  <2>1. CASE AskForDump
    BY <1>1, <2>1, TypesAsk DEF AskForDump
  <2>2. CASE \E h \in Handles : Push(h)
    <3>1. PICK h \in Handles : Push(h)
      BY <2>2
    <3>2. UNCHANGED <<memory, log, service, disk>>
      BY <3>1 DEF Push
    <3> QED
      BY <1>1, <3>1, <3>2, TypesPush
  <2> QED
    BY <2>1, <2>2
<1>3. UNCHANGED <<id, owner, counter, log, cursor, dumping, file, overtaken>>
  BY <1>2 DEF memory, service, disk
<1>4. Horizon \in Written .. Len(queue) /\ Horizon \in Nat /\ Written \in Nat
  BY <1>1, HorizonIs
<1>5. Horizon' \in Nat /\ Horizon' >= Horizon
  BY <1>1, <1>2, <1>3, <1>4 DEF Horizon
<1>6. ASSUME NEW k \in 0 .. Len(queue), NEW i PROVE Last(Work', k, i) = Last(Work, k, i)
  <2>1. PICK ops : Work' = Append(Work, ops)
    BY <1>2
  <2>2. k \in 0 .. Len(Work)
    BY <1>1
  <2>3. Longer(Work, Work', ops, Seq(Operations))
    BY <1>1, <2>1 DEF Longer, Histories
  <2> QED
    BY <2>2, <2>3, AppendLast
<1>7. ASSUME NEW n \in Written .. Horizon, NEW i, Firm(n, i) PROVE Firm(n, i)'
  <2>1. ASSUME NEW g \in Handles, Queued(g)', Owns(g)' # {}, By(g, i)' PROVE n < place'[g]
    <3>1. Owns(g) # {} /\ By(g, i)
      BY <1>3, <2>1 DEF Owns, By
    <3>2. CASE place'[g] = place[g]
      BY <1>7, <2>1, <3>1, <3>2 DEF Firm, Queued
    <3>3. CASE place'[g] # place[g]
      BY <1>1, <1>2, <1>4, <3>3
    <3> QED
      BY <3>2, <3>3
  <2> QED
    BY <2>1 DEF Firm
<1>8. counter \in Nat
  BY <1>1, Constants DEF Types
<1>9. LooksOn
  <2>1. ASSUME NEW n \in Written .. Horizon, NEW i PROVE Last(Work', n, i) = Last(Work, n, i)
    BY <1>1, <1>4, <1>6
  <2>2. \A i : Last(Work', Written, i) = Last(Work, Written, i)
    BY <1>1, <1>4, <1>6
  <2> QED
    BY <1>2, <1>3, <1>5, <1>7, <1>8, <2>1, <2>2 DEF LooksOn
<1>10. LooksAhead
  BY <1>1, <1>3, WalkSame
<1> QED
  BY <1>1, <1>2, <1>9, <1>10, FirstSame

(* Steps that change neither the history nor any node, and make no transaction
   one that may fail. *)
Quiet ==
  /\ Types' /\ Work' = Work /\ Written' = Written /\ Len(queue') = Len(queue)
  /\ UNCHANGED <<id, counter, cursor, dumping, file, overtaken>>
  /\ \A g \in Handles :
       /\ place'[g] # 0 => place'[g] = place[g] /\ log'[g] = log[g]
       /\ \A s \in Slots : owner'[s] = g => owner[s] = g

LEMMA QuietIs ==
  ASSUME Types, Rests \/ \E h \in Handles : Unlock(h) \/ Fill(h)
  PROVE  Quiet
<1>1. CASE Rests
  <2>1. UNCHANGED <<id, owner, counter, place, log, queue, cursor, dumping, file, overtaken>>
    BY <1>1 DEF Rests, memory, disk
  <2>2. Types' /\ Written' = Written /\ Work' = Work
    BY <1>1, TypesRest DEF Rests
  <2> QED
    BY <2>1, <2>2 DEF Quiet
<1>2. ASSUME NEW h \in Handles, Unlock(h) PROVE Quiet
  <2>1. /\ Types' /\ Work' = Work /\ Written' = Written
        /\ UNCHANGED <<id, value, counter, place, log, queue, service, disk>>
        /\ \A s \in Slots : owner'[s] = IF owner[s] = h THEN NoOwner ELSE owner[s]
    BY <1>2, TypesUnlock
  <2>2. UNCHANGED <<cursor, dumping, file, overtaken>>
    BY <2>1 DEF service, disk
  <2>3. \A s \in Slots : \A g \in Handles : owner'[s] = g => owner[s] = g
    BY <2>1, Constants
  <2> QED
    BY <2>1, <2>2, <2>3 DEF Quiet
<1>3. ASSUME NEW h \in Handles, Fill(h) PROVE Quiet
  <2>1. /\ Types' /\ Work' = Work /\ Written' = Written /\ Len(queue') = Len(queue)
        /\ UNCHANGED <<memory, service, disk>> /\ place'[h] = 0
        /\ \A g \in Handles : g # h => log'[g] = log[g] /\ place'[g] = place[g]
    BY <1>3, TypesFill
  <2>2. UNCHANGED <<id, owner, counter, cursor, dumping, file, overtaken>>
    BY <2>1 DEF memory, service, disk
  <2> QED
    BY <2>1, <2>2 DEF Quiet
<1> QED
  BY <1>1, <1>2, <1>3

(* So what holds of the dump so far goes on holding over them. *)
LEMMA FirstGoesOn ==
  ASSUME Sound, FirstInv, Rests \/ \E h \in Handles : Unlock(h) \/ Fill(h)
  PROVE  FirstInv'
<1>1. Types
  BY DEF Sound
<1>2. Quiet
  BY <1>1, QuietIs
<1>3. /\ Types' /\ Work' = Work /\ Written' = Written /\ Len(queue') = Len(queue)
      /\ UNCHANGED <<id, counter, cursor, dumping, file, overtaken>>
  BY <1>2 DEF Quiet
<1>4. Horizon' = Horizon /\ Horizon \in Nat /\ counter \in Nat
  BY <1>1, <1>3, HorizonIs, Constants DEF Horizon, Types
<1>5. ASSUME NEW n, NEW i, Firm(n, i) PROVE Firm(n, i)'
  <2>1. ASSUME NEW g \in Handles, Queued(g)', Owns(g)' # {}, By(g, i)' PROVE n < place'[g]
    <3>1. place'[g] = place[g] /\ log'[g] = log[g] /\ Queued(g)
      BY <1>2, <2>1 DEF Quiet, Queued
    <3>2. By(g, i)
      BY <2>1, <3>1 DEF By
    <3>3. PICK t \in Slots : owner'[t] = g
      BY <2>1 DEF Owns
    <3>4. t \in Owns(g)
      BY <1>2, <3>3 DEF Owns, Quiet
    <3> QED
      BY <1>5, <3>1, <3>2, <3>4 DEF Firm
  <2> QED
    BY <2>1 DEF Firm
<1>6. LooksOn
  BY <1>3, <1>4, <1>5 DEF LooksOn
<1>7. LooksAhead
  BY <1>1, <1>3, WalkSame
<1> QED
  BY <1>1, <1>3, <1>6, <1>7, FirstSame

(* A transaction is given up. *)
LEMMA FirstGiveUp ==
  ASSUME Sound, FirstInv, NEW h, GiveUp(h)
  PROVE  FirstInv'
<1>1. Types /\ LocksUsed /\ Work \in Histories /\ Len(Work) = Len(queue) /\ Len(queue) \in Nat
  BY WorkNow DEF Sound, LockInv
<1>2. /\ Types' /\ Written' = Written /\ h \in Handles
      /\ \A s \in Slots :
           /\ id'[s] = IF s \in SlotsOf(log[h], "CREATED") THEN 0 ELSE id[s]
           /\ owner'[s] = IF owner[s] = h THEN NoOwner ELSE owner[s]
      /\ \A t \in Slots : cursor # 0 /\ t >= cursor /\ id'[t] # 0 => cursor' # 0 /\ cursor' <= t
      /\ cursor' # 0 => cursor # 0 /\ cursor <= cursor'
      /\ place'[h] = 0
      /\ \A g \in Handles : g # h => log'[g] = log[g] /\ place'[g] = place[g]
  BY <1>1, TypesGiveUp
<1>3. UNCHANGED <<counter, dumping, file, overtaken>>
  BY DEF GiveUp, disk
<1>4. Horizon \in Written .. Len(queue) /\ Horizon \in Nat /\ Written \in Nat /\ counter \in Nat
  BY <1>1, HorizonIs, Constants DEF Types
<1>5. /\ Undecided(h) /\ Before(h) \in Written .. Len(queue)
      /\ \A k \in 0 .. Len(queue) : \A i :
           ~By(h, i) \/ k <= Before(h) => Last(Work', k, i) = Last(Work, k, i)
  BY GiveUpLast
<1>6. Horizon' = Horizon
  <2>1. Len(queue') = Len(queue)
    BY <1>1, GiveUpShape
  <2> QED
    BY <1>2, <1>3, <2>1 DEF Horizon
<1>7. ASSUME NEW n \in Written .. Horizon, NEW i \in Ids, Firm(n, i)
      PROVE  Firm(n, i)' /\ Last(Work', n, i) = Last(Work, n, i)
  <2>1. ASSUME NEW g \in Handles, Queued(g)', Owns(g)' # {}, By(g, i)' PROVE n < place'[g]
    <3>1. g # h
      BY <1>2, <2>1 DEF Queued
    <3>2. place'[g] = place[g] /\ log'[g] = log[g] /\ Queued(g)
      BY <1>2, <2>1, <3>1 DEF Queued
    <3>3. By(g, i)
      BY <2>1, <3>2 DEF By
    <3>4. PICK t \in Slots : owner'[t] = g
      BY <2>1 DEF Owns
    <3>5. owner[t] = g
      BY <1>2, <3>4, Constants
    <3>6. t \in Owns(g)
      BY <3>5 DEF Owns
    <3> QED
      BY <1>7, <3>2, <3>3, <3>6 DEF Firm
  <2>2. Firm(n, i)'
    BY <2>1 DEF Firm
  <2>3. ASSUME By(h, i) PROVE n <= Before(h)
    <3>1. CASE place[h] = 0
      BY <1>4, <3>1 DEF Before
    <3>2. CASE place[h] # 0
      <4>1. Owns(h) # {} /\ Queued(h)
        BY <1>5, <3>2 DEF Undecided, Queued
      <4>2. n < place[h]
        BY <1>2, <1>7, <2>3, <4>1 DEF Firm
      <4>3. place[h] \in Nat
        BY <1>1, <1>2, WorkNow
      <4>4. Before(h) = place[h] - 1
        BY <3>2 DEF Before
      <4> QED
        BY <1>4, <4>2, <4>3, <4>4
    <3> QED
      BY <3>1, <3>2
  <2>4. n \in 0 .. Len(queue)
    BY <1>1, <1>4
  <2> QED
    BY <1>5, <2>2, <2>3, <2>4
<1>8. \A i : Last(Work', Written, i) = Last(Work, Written, i)
  <2>1. Written \in 0 .. Len(queue) /\ Written <= Before(h)
    BY <1>1, <1>4, <1>5
  <2> QED
    BY <1>5, <2>1
<1>9. LooksOn
  BY <1>2, <1>3, <1>4, <1>6, <1>7, <1>8 DEF LooksOn
<1>10. ASSUME NEW s \in Slots, id[s] \in Ids, Exists(Last(Work, Written, id[s]))
       PROVE  id'[s] = id[s]
  <2>1. SUFFICES ASSUME s \in SlotsOf(log[h], "CREATED") PROVE FALSE
    BY <1>2
  <2>2. Creates(Ops(log[h]), id[s]) /\ By(h, id[s])
    BY <1>2, <2>1, CreatedSlots
  <2>3. Last(Work, Before(h), id[s]).op = "NONE"
    BY <1>2, <1>5, <2>2, NoOther
  <2>4. Written \in 0 .. Len(Work) /\ Before(h) \in Written .. Len(Work) /\ id[s] \in Nat \ {0}
    BY <1>1, <1>4, <1>5, <1>10, Constants DEF Ids
  <2>5. Last(Work, Written, id[s]).op # "NONE"
    BY <1>10 DEF Exists
  <2> QED
    BY <1>1, <2>3, <2>4, <2>5, BeenStays
<1>11. LooksAhead
  BY <1>2, <1>10 DEF LooksAhead
<1> QED
  BY <1>1, <1>2, <1>9, <1>11, FirstSame

(* What operations leave of a node. *)
LEMMA AfterIn ==
  ASSUME NEW ops, NEW i, Touched(ops, i), NEW x
  PROVE  /\ \A v \in After(x, ops, i) :
              /\ LastOp(ops, i).op # "DELETED" /\ (x # {} \/ Creates(ops, i))
              /\ (LastOp(ops, i).op = "CREATED" /\ v \in x) \/ v = ValueIn(LastOp(ops, i))
         /\ After(x, ops, i) = {} /\ LastOp(ops, i).op # "DELETED" => x = {} /\ ~Creates(ops, i)
<1>1. PICK o : o = LastOp(ops, i)
  OBVIOUS
<1>2. PICK c \in BOOLEAN : c <=> Creates(ops, i)
  BY DEF Creates
<1>3. After(x, ops, i) = IF o.op = "DELETED" \/ (x = {} /\ ~c) THEN {}
                         ELSE IF o.op = "CREATED" /\ x # {} THEN x ELSE {ValueIn(o)}
  BY <1>1, <1>2 DEF After
<1> QED
  BY <1>1, <1>2, <1>3

(* The record of a job, if there is one. *)
JobRecord(f, g, ops) ==
  /\ f \in Seq(Records) /\ ops \in Seq(Operations)
  /\ g = IF ops = <<>> THEN f ELSE Append(f, L!Transaction(ops))

LEMMA JobMarks ==
  ASSUME NEW f, NEW g, NEW ops, JobRecord(f, g, ops)
  PROVE  /\ \A i : /\ CreatedAt(g, i) = {} <=> CreatedAt(f, i) = {} /\ ~Creates(ops, i)
                   /\ DumpedAt(g, i) = DumpedAt(f, i)
         /\ EarlyIn(g) <=> EarlyIn(f)
         /\ f # <<>> => g # <<>> /\ g[1] = f[1]
<1>1. CASE ops = <<>>
  <2>1. g = f /\ \A i : ~Creates(ops, i)
    BY <1>1, NoOps DEF JobRecord
  <2> QED
    BY <2>1
<1>2. CASE ops # <<>>
  <2>1. PICK r : r = L!Transaction(ops)
    OBVIOUS
  <2>2. Longer(f, g, r, Records)
    BY <1>2, <2>1 DEF Longer, JobRecord
  <2>3. r.kind = "transaction" /\ r.ops = ops
    BY <2>1, RecordKinds
  <2>4. \A i : ~NewDump(r, i) /\ (NewCreation(r, i) <=> Creates(ops, i))
    BY <2>3 DEF NewDump, NewCreation
  <2>5. ASSUME NEW i
        PROVE  /\ CreatedAt(g, i) = {} <=> CreatedAt(f, i) = {} /\ ~Creates(ops, i)
               /\ DumpedAt(g, i) = DumpedAt(f, i)
    <3>1. /\ CreatedAt(g, i) = CreatedAt(f, i) \cup (IF NewCreation(r, i) THEN {Len(f) + 1} ELSE {})
          /\ DumpedAt(g, i) = DumpedAt(f, i) \cup (IF NewDump(r, i) THEN {Len(f) + 1} ELSE {})
      BY <2>2, MarksMore
    <3>2. PICK m : m = Len(f) + 1
      OBVIOUS
    <3> QED
      BY <2>4, <3>1, <3>2, Zenon
  <2>6. EarlyIn(g) <=> EarlyIn(f)
    BY <2>2, <2>4, EarlyMore
  <2>7. f # <<>> => g # <<>> /\ g[1] = f[1]
    BY <2>2 DEF Longer
  <2> QED
    BY <2>5, <2>6, <2>7
<1> QED
  BY <1>1, <1>2

(* Reading it. *)
ReadsJob(c, f, g, ops, first, d, e) ==
  /\ JobRecord(f, g, ops) /\ Orderly(ops)
  /\ d = ReadAll(c, f, first) /\ e = ReadAll(c, g, first)

LEMMA JobRead ==
  ASSUME NEW c, NEW f, NEW g, NEW ops, NEW first, NEW d, NEW e, ReadsJob(c, f, g, ops, first, d, e)
  PROVE  /\ d.status # "READING" => e = d
         /\ IsLoaded(d) /\ d.status = "READING" =>
              /\ SameReading(d, e)
              /\ \A i : Holds(e, i) = After(Holds(d, i), ops, i)
<1>1. CASE ops = <<>>
  <2>1. e = d
    BY <1>1 DEF ReadsJob, JobRecord
  <2>2. \A i : After(Holds(d, i), ops, i) = Holds(d, i)
    BY <1>1, NoOps DEF After
  <2> QED
    BY <2>1, <2>2 DEF SameReading
<1>2. CASE ops # <<>>
  <2>1. PICK r : r = L!Transaction(ops)
    OBVIOUS
  <2>2. Longer(f, g, r, Records)
    BY <1>2, <2>1 DEF Longer, ReadsJob, JobRecord
  <2>3. ReadAll(c, g, first) = L!ReadRecord(ReadAll(c, f, first), r, first)
    BY ONLY <2>2, ReadMore
  <2>4. e = L!ReadRecord(d, r, first)
    BY <2>3 DEF ReadsJob
  <2>5. d.status # "READING" => e = d
    BY <2>4, CorruptedStays
  <2>6. ASSUME IsLoaded(d), d.status = "READING" PROVE Outcome(d, ops, e)
    <3>1. ops \in Seq(Operations) /\ Orderly(ops)
      BY DEF ReadsJob, JobRecord
    <3>2. Outcome(d, ops, L!ReadRecord(d, L!Transaction(ops), first))
      BY <1>2, <2>6, <3>1, TransactionRecord
    <3> QED
      BY <2>1, <2>4, <3>2
  <2> QED
    BY <2>5, <2>6 DEF Outcome
<1> QED
  BY <1>1, <1>2

-----------------------------------------------------------------------------
(* Jobs in a file that has a dump *)

(* A job is written, one of a transaction or one that asks for a dump while
   there is one. *)
JobWritten ==
  /\ JobDone /\ UNCHANGED <<dumping, overtaken>>
  /\ JobRecord(file, file', Work[Written'])
  /\ \A s \in Slots : id'[s] = IF s \in queue[Written'].garbage THEN 0 ELSE id[s]
  /\ \A t \in Slots : cursor # 0 /\ t >= cursor /\ id'[t] # 0 => cursor' # 0 /\ cursor' <= t
  /\ cursor' # 0 => cursor # 0 /\ cursor <= cursor'

LEMMA IsWritten ==
  ASSUME Sound, SvcCommit \/ (SvcStartDump /\ dumping)
  PROVE  JobWritten
<1>1. Types /\ file \in Seq(Records)
  BY DEF Sound, Types
<1>2. CASE SvcCommit
  BY <1>1, <1>2, TypesCommit DEF JobWritten, JobRecord
<1>3. CASE SvcStartDump /\ dumping
  <2>1. /\ JobDone /\ UNCHANGED <<id, overtaken>> /\ Work[Written'] = <<>>
        /\ queue[Written'].garbage = {} /\ UNCHANGED <<cursor, dumping, file>>
    BY <1>1, <1>3, TypesStartDump DEF memory
  <2>2. JobRecord(file, file', Work[Written'])
    BY <1>1, <2>1 DEF JobRecord
  <2>3. cursor \in Nat /\ Slots \subseteq Nat
    BY <1>1, Constants DEF Types
  <2> QED
    BY <2>1, <2>2, <2>3 DEF JobWritten
<1> QED
  BY <1>2, <1>3

(* What that does to the history. *)
LEMMA WrittenMore ==
  ASSUME Sound, JobWritten
  PROVE  /\ Work' = Work /\ Written' = Written + 1 /\ Written' \in 1 .. Len(queue)
         /\ Written \in Nat /\ Work \in Histories /\ Len(Work) = Len(queue) /\ Len(queue) \in Nat
         /\ Fits(Work, Written, Work[Written']) /\ Work[Written'] \in Seq(Operations)
         /\ \A n : \A i : Firm(n, i)' <=> Firm(n, i)
         /\ \A i : Firm(Written', i)
         /\ \A i : Last(Work, Written', i) =
              IF Touched(Work[Written'], i) THEN LastOp(Work[Written'], i) ELSE Last(Work, Written, i)
         /\ Horizon \in Nat /\ Horizon' \in Nat /\ Horizon' >= Horizon /\ Horizon' >= Written'
<1>1. Types /\ JobDone
  BY DEF Sound, JobWritten
<1>2. /\ Work' = Work /\ Written' = Written + 1 /\ Written' \in 1 .. Len(queue) /\ Written \in Nat
      /\ queue[Written'].ready
  BY <1>1, JobDoneIs
<1>3. Work \in Histories /\ Len(Work) = Len(queue) /\ Len(queue) \in Nat /\ Valid(Work)
  BY <1>1, WorkNow DEF Sound, MemInv
<1>4. PICK k \in Nat : k = Written' /\ k = Written + 1 /\ k - 1 = Written /\ k \in 1 .. Len(Work)
  BY <1>2, <1>3
<1>5. Fits(Work, Written, Work[k]) /\ Work[k] \in Seq(Operations)
  BY <1>3, <1>4 DEF Valid, Histories
<1>6. ASSUME NEW n, NEW i PROVE Firm(n, i)' <=> Firm(n, i)
  <2>1. UNCHANGED <<owner, place, log>>
    BY <1>1 DEF JobDone
  <2> QED
    BY <2>1 DEF Firm, Queued, Owns, By
<1>7. ASSUME NEW i PROVE Firm(k, i)
  <2>1. ASSUME NEW h \in Handles, Queued(h) PROVE k < place[h]
    <3>1. place[h] # 0
      BY <2>1 DEF Queued
    <3>2. place[h] \in Written + 1 .. Len(queue) /\ ~queue[place[h]].ready
      BY <1>1, <3>1, WorkNow
    <3>3. place[h] # k
      BY <1>2, <1>4, <3>2
    <3> QED
      BY <1>2, <1>3, <1>4, <3>2, <3>3
  <2> QED
    BY <2>1 DEF Firm
<1>8. ASSUME NEW i
      PROVE  Last(Work, k, i) = IF Touched(Work[k], i) THEN LastOp(Work[k], i) ELSE Last(Work, Written, i)
  <2>1. Last(Work, Written + 1, i) =
          IF Touched(Work[Written + 1], i) THEN LastOp(Work[Written + 1], i) ELSE Last(Work, Written, i)
    BY <1>2, LastNext
  <2> QED
    BY <1>4, <2>1
<1>9. Horizon \in Nat /\ Horizon' \in Nat /\ Horizon' >= Horizon /\ Horizon' >= Written'
  <2>1. UNCHANGED <<dumping, overtaken, queue>>
    BY DEF JobWritten, JobDone
  <2>2. overtaken \in Nat
    BY <1>1, <1>3 DEF Types
  <2> QED
    BY <1>2, <1>3, <2>1, <2>2 DEF Horizon
<1> QED
  BY <1>2, <1>3, <1>4, <1>5, <1>6, <1>7, <1>8, <1>9

(* The values read stay right, *)
LEMMA RightWritten ==
  ASSUME Sound, JobWritten, NEW i, NEW x, Right(Work, file, i, x),
         NEW y, y = After(x, Work[Written'], i)
  PROVE  Right(Work, file, i, y)'
<1>1. PICK k \in Nat : k = Written' /\ k = Written + 1
  BY WrittenMore
<1>2. PICK ops : ops = Work[k]
  OBVIOUS
<1>3. /\ Work' = Work /\ Written \in Nat /\ Fits(Work, Written, ops) /\ ops \in Seq(Operations)
      /\ \A n : Firm(n, i)' <=> Firm(n, i)
      /\ Firm(k, i)
      /\ Last(Work, k, i) = IF Touched(ops, i) THEN LastOp(ops, i) ELSE Last(Work, Written, i)
      /\ Horizon \in Nat /\ Horizon' \in Nat /\ Horizon' >= Horizon /\ Horizon' >= k
  BY <1>1, <1>2, WrittenMore
<1>4. /\ CreatedAt(file', i) = {} <=> CreatedAt(file, i) = {} /\ ~Creates(ops, i)
      /\ DumpedAt(file', i) = DumpedAt(file, i)
  BY <1>1, <1>2, JobMarks DEF JobWritten
<1>5. y = After(x, ops, i)
  BY <1>1, <1>2
<1>6. \A v \in x :
        /\ i \in Ids /\ Last(Work, Written, i).op # "DELETED"
        /\ CreatedAt(file, i) # {} \/ DumpedAt(file, i) # {}
        /\ \E n \in Written .. Horizon : Firm(n, i) /\ Shows(Last(Work, n, i), v)
  BY DEF Right, Settled
<1>7. ASSUME NEW v \in y
      PROVE  /\ i \in Ids /\ Last(Work, k, i).op # "DELETED"
             /\ CreatedAt(file', i) # {} \/ DumpedAt(file', i) # {}
             /\ \E n \in k .. Horizon' : Firm(n, i) /\ Shows(Last(Work, n, i), v)
  <2>1. ASSUME v \in x, Last(Work, Written, i).op = "NONE" \/ Last(Work, k, i) = Last(Work, Written, i)
        PROVE  \E n \in k .. Horizon' : Firm(n, i) /\ Shows(Last(Work, n, i), v)
    <3>1. PICK n \in Written .. Horizon : Firm(n, i) /\ Shows(Last(Work, n, i), v)
      BY <1>6, <2>1
    <3>2. CASE n = Written
      <4>1. Last(Work, n, i).op # "NONE"
        BY <3>1 DEF Shows
      <4>2. Last(Work, k, i) = Last(Work, n, i)
        BY <2>1, <3>2, <4>1
      <4>3. k \in k .. Horizon'
        BY <1>3
      <4> QED
        BY <1>3, <3>1, <4>2, <4>3
    <3>3. CASE n # Written
      <4>1. n \in k .. Horizon'
        BY <1>1, <1>3, <3>3
      <4> QED
        BY <3>1, <4>1
    <3> QED
      BY <3>2, <3>3
  <2>2. CASE ~Touched(ops, i)
    <3>1. v \in x
      BY <1>5, <2>2 DEF After
    <3>2. Last(Work, k, i) = Last(Work, Written, i)
      BY <1>3, <2>2
    <3> QED
      BY <1>4, <1>6, <2>1, <3>1, <3>2
  <2>3. CASE Touched(ops, i)
    <3>1. PICK o : o = LastOp(ops, i)
      OBVIOUS
    <3>2. /\ o.op # "DELETED" /\ (x # {} \/ Creates(ops, i))
          /\ (o.op = "CREATED" /\ v \in x) \/ v = ValueIn(o)
      BY <1>5, <2>3, <3>1, AfterIn
    <3>3. /\ o \in Operations /\ i \in Ids /\ (o.op = "CREATED" => Creates(ops, i))
      BY <1>3, <2>3, <3>1, LastOpIs
    <3>4. Last(Work, k, i) = o
      BY <1>3, <2>3, <3>1
    <3>5. CreatedAt(file', i) # {} \/ DumpedAt(file', i) # {}
      BY <1>4, <1>6, <3>2
    <3>6. CASE o.op = "CREATED" /\ v \in x
      <4>1. Last(Work, Written, i).op = "NONE"
        BY <1>3, <2>3, <3>3, <3>6 DEF Fits
      <4> QED
        BY <2>1, <3>2, <3>3, <3>4, <3>5, <3>6, <4>1
    <3>7. CASE v = ValueIn(o)
      <4>1. o.op # "NONE"
        BY <3>3, OpIs
      <4>2. Shows(Last(Work, k, i), v)
        BY <3>4, <3>7, <4>1 DEF Shows
      <4>3. k \in k .. Horizon'
        BY <1>3
      <4> QED
        BY <1>3, <3>2, <3>3, <3>4, <3>5, <4>2, <4>3
    <3> QED
      BY <3>2, <3>6, <3>7
  <2> QED
    BY <2>2, <2>3
<1> QED
  BY <1>1, <1>3, <1>7 DEF Right, Settled

(* and what is missing is still ahead of the dump. *)
LEMMA WholeWritten ==
  ASSUME Sound, Types', JobWritten, NEW i, NEW x, Whole(Work, file, i, x),
         NEW y, y = After(x, Work[Written'], i)
  PROVE  Whole(Work, file, i, y)'
<1>1. PICK k \in Nat : k = Written' /\ k = Written + 1 /\ k \in 1 .. Len(queue)
  BY WrittenMore
<1>2. PICK ops : ops = Work[k]
  OBVIOUS
<1>3. /\ Work' = Work /\ Work \in Histories /\ Len(Work) = Len(queue) /\ Len(queue) \in Nat
      /\ Written \in Nat /\ Fits(Work, Written, ops) /\ ops \in Seq(Operations)
      /\ Last(Work, k, i) = IF Touched(ops, i) THEN LastOp(ops, i) ELSE Last(Work, Written, i)
  BY <1>1, <1>2, WrittenMore
<1>4. SUFFICES ASSUME i \in Ids, Exists(Last(Work, k, i)), y = {} PROVE Ahead(file, i)'
  BY <1>1, <1>3 DEF Whole
<1>5. x = {} /\ ~Creates(ops, i) /\ Exists(Last(Work, Written, i))
  <2>1. CASE ~Touched(ops, i)
    <3>1. x = {}
      BY <1>1, <1>2, <1>4, <2>1 DEF After
    <3>2. ~Creates(ops, i)
      BY <2>1 DEF Creates, Touched, Touches
    <3> QED
      BY <1>3, <1>4, <2>1, <3>1, <3>2
  <2>2. CASE Touched(ops, i)
    <3>1. LastOp(ops, i).op # "DELETED"
      BY <1>3, <1>4, <2>2 DEF Exists
    <3>2. After(x, ops, i) = {}
      BY <1>1, <1>2, <1>4
    <3>3. x = {} /\ ~Creates(ops, i)
      BY <2>2, <3>1, <3>2, AfterIn
    <3>4. Last(Work, Written, i).op \notin {"NONE", "DELETED"}
      BY <1>3, <1>4, <2>2, <3>3 DEF Fits
    <3>5. Written \in 0 .. Len(Work) /\ i \in Nat \ {0}
      BY <1>1, <1>3, <1>4, Constants DEF Ids
    <3>6. PICK o : o = Last(Work, Written, i)
      OBVIOUS
    <3>7. o.op = "NONE" \/ o \in Operations
      BY <1>3, <3>5, <3>6, LastIs
    <3>8. o.op \in {"CREATED", "MODIFIED"}
      BY <3>4, <3>6, <3>7, OpIs
    <3> QED
      BY <3>3, <3>6, <3>8 DEF Exists
  <2> QED
    BY <2>1, <2>2
<1>6. CreatedAt(file, i) = {} /\ cursor # 0 /\ \E s \in Slots : s >= cursor /\ id[s] = i
  BY <1>4, <1>5 DEF Whole, Ahead
<1>7. CreatedAt(file', i) = {}
  BY <1>1, <1>2, <1>5, <1>6, JobMarks DEF JobWritten
<1>8. PICK s \in Slots : s >= cursor /\ id[s] = i
  BY <1>6
<1>9. id'[s] = i
  <2>1. k <= Len(queue) /\ queue[k].ready
    <3>1. Types /\ JobDone
      BY DEF Sound, JobWritten
    <3>2. queue[Written'].ready
      BY <3>1, JobDoneIs
    <3>3. k <= Len(queue)
      BY <1>1, <1>3
    <3> QED
      BY <1>1, <3>2, <3>3
  <2>2. s \in queue[k].garbage => Last(Work, k, id[s]).op = "DELETED"
    BY <1>1, <2>1, GarbageGone
  <2>3. s \notin queue[k].garbage
    BY <1>4, <1>8, <2>2 DEF Exists
  <2> QED
    BY <1>1, <1>8, <2>3 DEF JobWritten
<1>10. i # 0
  BY <1>4, Constants DEF Ids
<1>11. cursor' # 0 /\ cursor' <= s
  BY <1>6, <1>8, <1>9, <1>10 DEF JobWritten
<1>12. s >= cursor'
  BY <1>11, Constants DEF Types
<1> QED
  BY <1>7, <1>9, <1>11, <1>12 DEF Ahead

(* A job in a file that has a dump. *)
LEMMA FirstWritten ==
  ASSUME Sound, Sound', FirstInv, JobWritten
  PROVE  FirstInv'
<1>1. /\ Types /\ Types' /\ UNCHANGED <<dumping, overtaken, counter>>
      /\ cursor' # 0 => cursor # 0 /\ cursor <= cursor'
  BY DEF Sound, JobWritten, JobDone
<1>2. SUFFICES ASSUME HasDump PROVE
        (BeginsWithMark /\ DumpsGivenOut /\ CreationsShown /\ WalkedPast /\ Alone(OnItsOwn, Work, file))'
  BY <1>1 DEF FirstInv, HasDump
<1>3. BeginsWithMark /\ DumpsGivenOut /\ CreationsShown /\ WalkedPast /\ Alone(OnItsOwn, Work, file)
  BY <1>2 DEF FirstInv
<1>4. PICK k \in Nat : k = Written' /\ k = Written + 1 /\ k \in 1 .. Len(queue)
  BY WrittenMore
<1>5. PICK ops : ops = Work[k]
  OBVIOUS
<1>6. /\ Work' = Work /\ Work \in Histories /\ Len(Work) = Len(queue) /\ Len(queue) \in Nat
      /\ Written \in Nat /\ Fits(Work, Written, ops) /\ ops \in Seq(Operations)
      /\ \A i : Last(Work, k, i) = IF Touched(ops, i) THEN LastOp(ops, i) ELSE Last(Work, Written, i)
  BY <1>4, <1>5, WrittenMore
<1>7. JobRecord(file, file', ops)
  BY <1>4, <1>5 DEF JobWritten
<1>8. /\ \A i : /\ CreatedAt(file', i) = {} <=> CreatedAt(file, i) = {} /\ ~Creates(ops, i)
                /\ DumpedAt(file', i) = DumpedAt(file, i)
      /\ EarlyIn(file') <=> EarlyIn(file)
      /\ file # <<>> => file' # <<>> /\ file'[1] = file[1]
  BY <1>7, JobMarks
<1>9. BeginsWithMark' /\ DumpsGivenOut'
  BY <1>1, <1>3, <1>8 DEF BeginsWithMark, DumpsGivenOut
<1>10. CreationsShown'
  <2>1. ASSUME NEW i \in Ids, CreatedAt(file', i) # {} PROVE Last(Work, k, i).op # "NONE"
    <3>1. CASE Touched(ops, i)
      <4>1. LastOp(ops, i) \in Operations
        BY <1>6, <3>1, LastOpIs
      <4>2. LastOp(ops, i).op # "NONE"
        BY <4>1, OpIs
      <4> QED
        BY <1>6, <3>1, <4>2
    <3>2. CASE ~Touched(ops, i)
      <4>1. ~Creates(ops, i)
        BY <3>2 DEF Creates, Touched, Touches
      <4>2. Last(Work, Written, i).op # "NONE"
        BY <1>3, <1>8, <2>1, <4>1 DEF CreationsShown
      <4> QED
        BY <1>6, <3>2, <4>2
    <3> QED
      BY <3>1, <3>2
  <2> QED
    BY <1>4, <1>6, <2>1 DEF CreationsShown
<1>11. WalkedPast'
  <2>1. ASSUME NEW s \in Slots, id'[s] # 0, DumpedAt(file', id'[s]) # {}, cursor' # 0
        PROVE  s < cursor'
    <3>1. id'[s] = id[s]
      BY <2>1 DEF JobWritten
    <3>2. s < cursor /\ cursor <= cursor'
      BY <1>1, <1>3, <1>8, <2>1, <3>1 DEF WalkedPast, Live
    <3>3. s \in Nat /\ cursor \in Nat /\ cursor' \in Nat
      BY <1>1, Constants DEF Types
    <3> QED
      BY <3>2, <3>3
  <2> QED
    BY <2>1 DEF WalkedPast, Live
<1>12. PICK d, e : d = OnItsOwn /\ e = OnItsOwn'
  OBVIOUS
<1>13. /\ d.status # "READING" => e = d
       /\ IsLoaded(d) /\ d.status = "READING" =>
            SameReading(d, e) /\ \A i : Holds(e, i) = After(Holds(d, i), ops, i)
  <2>1. PICK f, g, c : f = file /\ g = file' /\ c = L!Nothing
    OBVIOUS
  <2>2. PICK yes : yes = TRUE
    OBVIOUS
  <2>3. d = ReadAll(c, f, yes) /\ e = ReadAll(c, g, yes)
    BY <1>12, <2>1, <2>2 DEF OnItsOwn
  <2>4. Orderly(ops)
    BY <1>6 DEF Fits
  <2>5. ReadsJob(c, f, g, ops, yes, d, e)
    BY <1>7, <2>1, <2>3, <2>4 DEF ReadsJob
  <2> QED
    BY ONLY <2>5, JobRead
<1>14. CASE EarlyIn(file)
  <2>1. d.status = "CORRUPTED"
    BY <1>3, <1>12, <1>14 DEF Alone
  <2>2. e.status = "CORRUPTED"
    BY <1>13, <2>1
  <2>3. Alone(OnItsOwn, Work, file)'
    BY <1>8, <1>12, <1>14, <2>2 DEF Alone
  <2> QED
    BY <1>9, <1>10, <1>11, <2>3
<1>15. CASE ~EarlyIn(file)
  <2>1. /\ IsLoaded(d) /\ d.status = "READING" /\ d.dumpOn = dumping
        /\ \A i : Right(Work, file, i, Holds(d, i)) /\ Whole(Work, file, i, Holds(d, i))
    BY <1>3, <1>12, <1>15 DEF Alone
  <2>2. IsLoaded(e) /\ e.status = "READING" /\ e.dumpOn = dumping'
    BY <1>1, <1>13, <2>1 DEF SameReading
  <2>3. ASSUME NEW i PROVE (Right(Work, file, i, Holds(e, i)) /\ Whole(Work, file, i, Holds(e, i)))'
    <3>1. PICK x, y : x = Holds(d, i) /\ y = Holds(e, i)
      OBVIOUS
    <3>2. Right(Work, file, i, x) /\ Whole(Work, file, i, x)
      BY <2>1, <3>1
    <3>3. y = After(x, Work[Written'], i)
      BY <1>4, <1>5, <1>13, <2>1, <3>1
    <3>4. Right(Work, file, i, y)'
      BY <3>2, <3>3, RightWritten
    <3>5. Whole(Work, file, i, y)'
      BY <1>1, <3>2, <3>3, WholeWritten
    <3> QED
      BY <3>1, <3>4, <3>5
  <2>4. Alone(OnItsOwn, Work, file)'
    BY <1>8, <1>12, <1>15, <2>2, <2>3 DEF Alone
  <2> QED
    BY <1>9, <1>10, <1>11, <2>4
<1> QED
  BY <1>14, <1>15

(* A dump is begun. *)
LEMMA FirstBegin ==
  ASSUME Sound, Sound', SvcStartDump, ~dumping
  PROVE  FirstInv'
<1>1. /\ file' = <<L!DumpBegin>> /\ dumping' = TRUE
      /\ \A t \in Slots : id'[t] # 0 => cursor' # 0 /\ cursor' <= t
      /\ Types' /\ NodesThere'
  BY TypesStartDump DEF Sound, MemInv
<1>2. (\A i : CreatedAt(file', i) = {} /\ DumpedAt(file', i) = {}) /\ ~EarlyIn(file')
  BY <1>1, NoMarks
<1>3. (BeginsWithMark /\ DumpsGivenOut /\ CreationsShown /\ WalkedPast)'
  <2>1. BeginsWithMark'
    BY <1>1 DEF BeginsWithMark
  <2> QED
    BY <1>2, <2>1 DEF DumpsGivenOut, CreationsShown, WalkedPast
<1>4. PICK e : e = OnItsOwn'
  OBVIOUS
<1>5. IsLoaded(e) /\ e.status = "READING" /\ e.dumpOn = TRUE /\ \A i : Holds(e, i) = {}
  <2>1. PICK d : d = L!Nothing
    OBVIOUS
  <2>2. PICK r : r = L!DumpBegin
    OBVIOUS
  <2>3. PICK f \in Seq(Records) : f = <<>>
    <3>1. <<>> \in Seq(Records)
      OBVIOUS
    <3> QED
      BY <3>1
  <2>4. PICK g : g = Append(f, r)
    OBVIOUS
  <2>5. g = file'
    BY <1>1, <2>2, <2>3, <2>4
  <2>6. ReadAll(d, g, TRUE) = L!ReadRecord(ReadAll(d, f, TRUE), r, TRUE)
    <3>1. Longer(f, g, r, Records)
      BY <2>3, <2>4 DEF Longer
    <3>2. ASSUME NEW yes PROVE ReadAll(d, g, yes) = L!ReadRecord(ReadAll(d, f, yes), r, yes)
      BY ONLY <3>1, ReadMore
    <3> QED
      BY <3>2
  <2>7. ReadAll(d, f, TRUE) = d
    BY <2>3, ReadNone
  <2>8. e = ReadAll(d, g, TRUE)
    BY <1>4, <2>1, <2>5 DEF OnItsOwn
  <2>9. IsLoaded(d) /\ d.status = "READING" /\ d.dumpOn = FALSE /\ \A i : Holds(d, i) = {}
    BY <2>1, NothingIs
  <2>10. Marked(d, L!ReadRecord(d, L!DumpBegin, TRUE), TRUE)
    BY <2>9, MarkRecord
  <2>11. Marked(d, e, TRUE)
    BY <2>2, <2>6, <2>7, <2>8, <2>10
  <2>12. \A i : Holds(e, i) = Holds(d, i)
    BY <2>11 DEF Marked, Holds
  <2> QED
    BY <2>9, <2>11, <2>12 DEF Marked
<1>6. ASSUME NEW i PROVE Right(Work, file, i, Holds(e, i))'
  BY <1>4, <1>5 DEF Right
<1>7. ASSUME NEW i PROVE Whole(Work, file, i, Holds(e, i))'
  <2>1. SUFFICES ASSUME i \in Ids, Exists(Last(Work, Written, i))' PROVE Ahead(file, i)'
    BY DEF Whole
  <2>2. /\ Work' \in Histories /\ Written' \in 0 .. Len(Work') /\ Len(queue') \in Written' .. Len(Work')
    <3>1. Types /\ JobDone
      BY TypesStartDump DEF Sound
    <3>2. Work' = Work /\ Written' \in 1 .. Len(queue) /\ queue' = queue
      BY <3>1, JobDoneIs DEF JobDone
    <3>3. Work \in Histories /\ Len(Work) = Len(queue) /\ Len(queue) \in Nat
      BY <3>1, WorkNow
    <3> QED
      BY <3>2, <3>3
  <2>3. Last(Work', Written', i).op \notin {"NONE", "DELETED"} /\ i \in Nat \ {0}
    BY <2>1, Constants DEF Exists, Ids
  <2>4. Last(Work', Len(queue'), i).op # "NONE"
    BY <2>2, <2>3, BeenStays
  <2>5. PICK s \in Slots : id'[s] = i
    BY <1>1, <2>1, <2>3, <2>4 DEF NodesThere
  <2>6. cursor' # 0 /\ cursor' <= s
    BY <1>1, <2>3, <2>5
  <2>7. s >= cursor'
    BY <1>1, <2>6, Constants DEF Types
  <2> QED
    BY <1>2, <2>5, <2>6, <2>7 DEF Ahead
<1>8. Alone(OnItsOwn, Work, file)'
  BY <1>1, <1>2, <1>4, <1>5, <1>6, <1>7 DEF Alone
<1> QED
  BY <1>3, <1>8 DEF FirstInv

-----------------------------------------------------------------------------
(* The dump *)

(* A node that has been there, and has not been deleted, is there. *)
LEMMA ExistsIs ==
  ASSUME NEW V \in Histories, NEW k \in 0 .. Len(V), NEW i \in Nat \ {0},
         Last(V, k, i).op # "NONE", Last(V, k, i).op # "DELETED"
  PROVE  Exists(Last(V, k, i))
<1>1. PICK o : o = Last(V, k, i)
  OBVIOUS
<1>2. o.op = "NONE" \/ o \in Operations
  BY <1>1, LastIs
<1>3. o \in Operations
  BY <1>1, <1>2
<1>4. o.op \in {"CREATED", "MODIFIED", "DELETED"}
  BY <1>3, OpIs
<1> QED
  BY <1>1, <1>4 DEF Exists

(* A node that is dumped again. *)
Refused(d, i, v, first, e) == ReadsDumped(d, i, v, first, e) /\ first /\ Holds(d, i) # {}
LEMMA DumpedTwice ==
  ASSUME NEW d, NEW i, NEW v, NEW first, NEW e, Refused(d, i, v, first, e)
  PROVE  e.status = "CORRUPTED"
<1> DEFINE r == L!Dumped(i, v)
<1>1. /\ IsLoaded(d) /\ d.status = "READING" /\ d.dumpOn = TRUE /\ first \in BOOLEAN /\ first
      /\ e = L!ReadRecord(d, r, first) /\ L!Known(d, i)
  BY DEF Refused, ReadsDumped, L!Known, Holds
<1>2. r.kind = "dumped" /\ r.id = i /\ r.value = v
  BY DEF L!Dumped
<1> HIDE DEF r
<1>3. e = L!ReadDumped(d, r, first)
  BY <1>1, <1>2 DEF L!ReadRecord
<1> DEFINE c == [d EXCEPT !.ghosts = @ \cup {i}]
<1>4. e = L!Corrupted(c)
  BY <1>1, <1>2, <1>3 DEF L!ReadDumped
<1>5. c = [nodes |-> d.nodes, ghosts |-> d.ghosts \cup {i}, magic |-> d.magic,
           dumpOn |-> d.dumpOn, status |-> d.status]
  BY <1>1 DEF IsLoaded
<1> HIDE DEF c
<1> QED
  BY <1>4, <1>5 DEF L!Corrupted

(* What the service thread knows of a node it dumps. *)
LEMMA DumpedNow ==
  ASSUME Sound, FirstInv, Dumps1, NEW i, i = id[cursor], NEW v, v = value[cursor]
  PROVE  /\ i \in Ids /\ i \in Nat \ {0} /\ i <= counter /\ v \in Values /\ DumpedAt(file, i) = {}
         /\ Written \in 0 .. Len(queue) /\ Len(queue) \in Nat /\ Horizon = Len(queue)
         /\ Last(Work, Written, i).op # "DELETED"
         /\ Firm(Len(queue), i) /\ Shows(Last(Work, Len(queue), i), v)
         /\ CreatedAt(file, i) # {} => Exists(Last(Work, Written, i))
         /\ \A s \in Slots : id[s] = i => s = cursor
<1>1. /\ Types /\ dumping /\ cursor # 0 /\ cursor \in Slots /\ i \in Ids /\ v \in Values
      /\ owner[cursor] = NoOwner
  BY TypesDumpNode DEF Sound, Dumps1
<1>2. i \in Nat \ {0} /\ i <= counter
  BY <1>1, LiveIds, Constants DEF Ids
<1>3. /\ Work \in Histories /\ Len(Work) = Len(queue) /\ Written \in 0 .. Len(queue) /\ Len(queue) \in Nat
      /\ Horizon = Len(queue)
  BY <1>1, WorkNow DEF Horizon
<1>4. DumpsGivenOut /\ CreationsShown /\ WalkedPast
  BY <1>1 DEF FirstInv, HasDump
<1>5. DumpedAt(file, i) = {}
  <2>1. cursor \in Nat /\ ~(cursor < cursor)
    BY <1>1, Constants
  <2> QED
    BY <1>1, <1>2, <1>4, <2>1 DEF WalkedPast, Live
<1>6. Last(Work, Written, i).op # "DELETED" /\ Shows(Last(Work, Len(queue), i), v)
  BY <1>1, <1>2 DEF Sound, MemInv, LiveNotGone, ValuesShown, Live
<1>7. \A s \in Slots : id[s] = i => s = cursor
  BY <1>1, <1>2 DEF Sound, LockInv, IdsUnique
<1>8. Firm(Len(queue), i)
  <2>1. ASSUME NEW h \in Handles, Owns(h) # {}, By(h, i) PROVE FALSE
    <3>1. Types /\ LockInv /\ Undecided(h)
      BY <2>1 DEF Sound, Undecided
    <3>2. PICK s \in Slots : id[s] = i /\ owner[s] = h
      BY <2>1, <3>1, ByIs
    <3> QED
      BY <1>1, <1>7, <3>2, Constants
  <2> QED
    BY <2>1 DEF Firm
<1>9. CreatedAt(file, i) # {} => Exists(Last(Work, Written, i))
  <2>1. Written \in 0 .. Len(Work)
    BY <1>3
  <2> QED
    BY <1>1, <1>2, <1>3, <1>4, <1>6, <2>1, ExistsIs DEF CreationsShown
<1> QED
  BY <1>1, <1>2, <1>3, <1>5, <1>6, <1>7, <1>8, <1>9

(* A node is dumped. *)
LEMMA FirstDumpNode ==
  ASSUME Sound, FirstInv, Dumps1
  PROVE  FirstInv'
<1>1. PICK j, v : j = id[cursor] /\ v = value[cursor]
  OBVIOUS
<1>2. PICK r : r = L!Dumped(j, v)
  OBVIOUS
<1>3. /\ Types /\ Written' = Written /\ Work' = Work
      /\ UNCHANGED <<id, owner, counter, place, log, queue, dumping, overtaken>>
      /\ dumping /\ cursor # 0 /\ cursor \in Slots
      /\ file' = Append(file, r)
      /\ cursor' # 0 => cursor < cursor'
      /\ \A t \in Slots : t > cursor /\ id[t] # 0 => cursor' # 0 /\ cursor' <= t
      /\ Types'
  BY <1>1, <1>2, TypesDumpNode DEF Sound, Dumps1, memory
<1>4. /\ j \in Ids /\ j \in Nat \ {0} /\ j <= counter /\ v \in Values /\ DumpedAt(file, j) = {}
      /\ Written \in 0 .. Len(queue) /\ Len(queue) \in Nat /\ Horizon = Len(queue)
      /\ Last(Work, Written, j).op # "DELETED"
      /\ Firm(Len(queue), j) /\ Shows(Last(Work, Len(queue), j), v)
      /\ CreatedAt(file, j) # {} => Exists(Last(Work, Written, j))
      /\ \A s \in Slots : id[s] = j => s = cursor
  BY <1>1, DumpedNow
<1>5. Horizon' = Len(queue) /\ \A n : \A i : Firm(n, i)' <=> Firm(n, i)
  BY <1>3, <1>4 DEF Horizon, Firm, Queued, Owns, By
<1>6. BeginsWithMark /\ DumpsGivenOut /\ CreationsShown /\ WalkedPast /\ Alone(OnItsOwn, Work, file)
  BY <1>3 DEF FirstInv, HasDump
<1>7. Longer(file, file', r, Records) /\ file \in Seq(Records)
  BY <1>3 DEF Longer, Types
<1>8. /\ \A i : ~NewCreation(r, i) /\ (NewDump(r, i) <=> i = j)
  BY <1>2, RecordKinds DEF NewCreation, NewDump
<1>9. ASSUME NEW i
      PROVE  /\ CreatedAt(file', i) = CreatedAt(file, i)
             /\ DumpedAt(file', i) = {} <=> DumpedAt(file, i) = {} /\ i # j
  <2>1. PICK f, g : f = file /\ g = file'
    OBVIOUS
  <2>2. Longer(f, g, r, Records)
    BY <1>7, <2>1
  <2>3. /\ CreatedAt(g, i) = CreatedAt(f, i) \cup (IF NewCreation(r, i) THEN {Len(f) + 1} ELSE {})
        /\ DumpedAt(g, i) = DumpedAt(f, i) \cup (IF NewDump(r, i) THEN {Len(f) + 1} ELSE {})
    BY ONLY <2>2, MarksMore
  <2>4. PICK m : m = Len(f) + 1
    OBVIOUS
  <2> QED
    BY <1>8, <2>1, <2>3, <2>4, Zenon
<1>10. EarlyIn(file') <=> EarlyIn(file) \/ CreatedAt(file, j) # {}
  <2>1. EarlyIn(file') <=> EarlyIn(file) \/ \E i \in Ids : NewDump(r, i) /\ CreatedAt(file, i) # {}
    BY <1>7, EarlyMore
  <2> QED
    BY <1>4, <1>8, <2>1
<1>11. (BeginsWithMark /\ DumpsGivenOut /\ CreationsShown /\ WalkedPast)'
  <2>1. BeginsWithMark'
    BY <1>6, <1>7 DEF BeginsWithMark, Longer
  <2>2. DumpsGivenOut'
    BY <1>3, <1>4, <1>6, <1>9 DEF DumpsGivenOut
  <2>3. CreationsShown'
    BY <1>3, <1>6, <1>9 DEF CreationsShown
  <2>4. ASSUME NEW s \in Slots, id[s] # 0, DumpedAt(file', id[s]) # {}, cursor' # 0 PROVE s < cursor'
    <3>1. s < cursor \/ s = cursor
      BY <1>3, <1>4, <1>6, <1>9, <2>4 DEF WalkedPast, Live
    <3>2. s \in Nat /\ cursor \in Nat /\ cursor' \in Nat /\ cursor < cursor'
      BY <1>3, <2>4, Constants DEF Types
    <3> QED
      BY <3>1, <3>2
  <2>5. WalkedPast'
    BY <1>3, <2>4 DEF WalkedPast, Live
  <2> QED
    BY <2>1, <2>2, <2>3, <2>5
<1>12. PICK d, e : d = OnItsOwn /\ e = OnItsOwn'
  OBVIOUS
<1>13. PICK yes \in BOOLEAN : yes = TRUE
  OBVIOUS
<1>14. e = L!ReadRecord(d, r, yes)
  <2>1. PICK f, g, c : f = file /\ g = file' /\ c = L!Nothing
    OBVIOUS
  <2>2. Longer(f, g, r, Records)
    BY <1>7, <2>1
  <2>3. ReadAll(c, g, yes) = L!ReadRecord(ReadAll(c, f, yes), r, yes)
    BY ONLY <2>2, ReadMore
  <2> QED
    BY <1>12, <1>13, <2>1, <2>3 DEF OnItsOwn
<1>15. CASE EarlyIn(file)
  <2>1. d.status = "CORRUPTED"
    BY <1>6, <1>12, <1>15 DEF Alone
  <2>2. e = d
    BY <1>14, <2>1, CorruptedStays
  <2>3. Alone(OnItsOwn, Work, file)'
    BY <1>10, <1>12, <1>15, <2>1, <2>2 DEF Alone
  <2> QED
    BY <1>11, <2>3 DEF FirstInv
<1>16. ASSUME ~EarlyIn(file)
       PROVE  /\ IsLoaded(d) /\ d.status = "READING" /\ d.dumpOn = TRUE
              /\ \A i : Right(Work, file, i, Holds(d, i)) /\ Whole(Work, file, i, Holds(d, i))
              /\ Holds(d, j) = {} => NodeIs(d, e, j, {v})
              /\ Holds(d, j) # {} => e.status = "CORRUPTED"
  <2>1. /\ IsLoaded(d) /\ d.status = "READING" /\ d.dumpOn = dumping
        /\ \A i : Right(Work, file, i, Holds(d, i)) /\ Whole(Work, file, i, Holds(d, i))
    BY <1>6, <1>12, <1>16 DEF Alone
  <2>2. dumping = TRUE
    BY <1>3 DEF Types
  <2>3. ReadsDumped(d, j, v, yes, e)
    BY <1>2, <1>14, <2>1, <2>2 DEF ReadsDumped
  <2>4. ASSUME Holds(d, j) = {} PROVE NodeIs(d, e, j, {v})
    BY <1>13, <2>3, <2>4, DumpedRecord
  <2>5. ASSUME Holds(d, j) # {} PROVE e.status = "CORRUPTED"
    <3>1. Refused(d, j, v, yes, e)
      BY <1>13, <2>3, <2>5 DEF Refused
    <3> QED
      BY ONLY <3>1, DumpedTwice
  <2> QED
    BY <2>1, <2>2, <2>4, <2>5
<1>17. CASE ~EarlyIn(file) /\ CreatedAt(file, j) # {}
  <2>1. Holds(d, j) # {}
    BY <1>4, <1>16, <1>17 DEF Whole, Ahead
  <2>2. e.status = "CORRUPTED"
    BY <1>16, <1>17, <2>1
  <2>3. Alone(OnItsOwn, Work, file)'
    BY <1>10, <1>12, <1>17, <2>2 DEF Alone
  <2> QED
    BY <1>11, <2>3 DEF FirstInv
<1>18. CASE ~EarlyIn(file) /\ CreatedAt(file, j) = {}
  <2>1. Holds(d, j) = {}
    BY <1>4, <1>16, <1>18 DEF Right
  <2>2. NodeIs(d, e, j, {v})
    BY <1>16, <1>18, <2>1
  <2>3. /\ IsLoaded(e) /\ e.status = "READING" /\ e.dumpOn = TRUE
        /\ \A i : Holds(e, i) = IF i = j THEN {v} ELSE Holds(d, i)
    BY <1>16, <1>18, <2>2 DEF NodeIs, SameReading
  <2>4. ASSUME NEW i PROVE Right(Work, file, i, Holds(e, i))'
    <3>1. PICK x, y : x = Holds(d, i) /\ y = Holds(e, i)
      OBVIOUS
    <3>2. CASE i = j
      <4>1. Written <= Len(queue) /\ Len(queue) \in Written .. Len(queue)
        BY <1>4
      <4>2. y = {v} /\ DumpedAt(file', i) # {}
        BY <1>9, <2>3, <3>1, <3>2
      <4>3. Right(Work, file, i, y)'
        BY <1>3, <1>4, <1>5, <3>2, <4>1, <4>2 DEF Right, Settled
      <4> QED
        BY <3>1, <4>3
    <3>3. CASE i # j
      <4>1. y = x
        BY <2>3, <3>1, <3>3
      <4>2. Right(Work, file, i, x)
        BY <1>16, <1>18, <3>1
      <4>3. Right(Work, file, i, y)'
        BY <1>3, <1>4, <1>5, <1>9, <3>3, <4>1, <4>2 DEF Right, Settled
      <4> QED
        BY <3>1, <4>3
    <3> QED
      BY <3>2, <3>3
  <2>5. ASSUME NEW i PROVE Whole(Work, file, i, Holds(e, i))'
    <3>1. SUFFICES ASSUME i \in Ids, Exists(Last(Work, Written, i)), Holds(e, i) = {}
          PROVE  Ahead(file, i)'
      BY <1>3 DEF Whole
    <3>2. i # j /\ Holds(d, i) = {}
      BY <2>3, <3>1
    <3>3. CreatedAt(file, i) = {} /\ \E s \in Slots : s >= cursor /\ id[s] = i
      BY <1>16, <1>18, <3>1, <3>2 DEF Whole, Ahead
    <3>4. PICK s \in Slots : s >= cursor /\ id[s] = i
      BY <3>3
    <3>5. s # cursor /\ i # 0
      BY <1>1, <3>1, <3>2, <3>4, Constants DEF Ids
    <3>6. s > cursor
      BY <1>3, <3>4, <3>5, Constants
    <3>7. cursor' # 0 /\ cursor' <= s
      BY <1>3, <3>4, <3>5, <3>6
    <3>8. s >= cursor'
      BY <1>3, <3>7, Constants DEF Types
    <3>9. CreatedAt(file', i) = {}
      BY <1>9, <3>3
    <3> QED
      BY <1>3, <3>4, <3>7, <3>8, <3>9 DEF Ahead
  <2>6. dumping' = TRUE
    BY <1>3 DEF Types
  <2>7. Alone(OnItsOwn, Work, file)'
    BY <1>10, <1>12, <1>18, <2>3, <2>4, <2>5, <2>6 DEF Alone
  <2> QED
    BY <1>11, <2>7 DEF FirstInv
<1> QED
  BY <1>15, <1>17, <1>18

(* The dump comes to its end. *)
LEMMA FirstDumpEnd ==
  ASSUME Sound, FirstInv, SvcDumpEnd
  PROVE  FirstInv'
<1>1. PICK r : r = L!DumpEnd
  OBVIOUS
<1>2. /\ Types /\ Written' = Written /\ Work' = Work
      /\ UNCHANGED <<id, owner, counter, place, log, queue, cursor>>
      /\ dumping /\ dumping' = FALSE /\ overtaken' = Len(queue) /\ file' = Append(file, r)
      /\ Written \in 0 .. Len(queue) /\ Len(queue) \in Nat
  <2>1. Types
    BY DEF Sound
  <2>2. /\ Written' = Written /\ Work' = Work
        /\ UNCHANGED <<memory, place, log, queue, cursor>>
        /\ dumping /\ overtaken' = Len(queue) /\ file' = Append(file, r)
    BY <1>1, <2>1, TypesDumpEnd
  <2>3. dumping' = FALSE
    BY DEF SvcDumpEnd
  <2> QED
    BY <2>1, <2>2, <2>3, WrittenIs DEF memory
<1>3. Horizon' = Horizon /\ \A n : \A i : Firm(n, i)' <=> Firm(n, i)
  BY <1>2 DEF Horizon, Firm, Queued, Owns, By
<1>4. BeginsWithMark /\ DumpsGivenOut /\ CreationsShown /\ WalkedPast /\ Alone(OnItsOwn, Work, file)
  BY <1>2 DEF FirstInv, HasDump
<1>5. Longer(file, file', r, Records)
  BY <1>2 DEF Longer, Types
<1>6. \A i : ~NewCreation(r, i) /\ ~NewDump(r, i)
  BY <1>1, RecordKinds DEF NewCreation, NewDump
<1>7. ASSUME NEW i PROVE CreatedAt(file', i) = CreatedAt(file, i) /\ DumpedAt(file', i) = DumpedAt(file, i)
  <2>1. PICK f, g : f = file /\ g = file'
    OBVIOUS
  <2>2. Longer(f, g, r, Records)
    BY <1>5, <2>1
  <2>3. /\ CreatedAt(g, i) = CreatedAt(f, i) \cup (IF NewCreation(r, i) THEN {Len(f) + 1} ELSE {})
        /\ DumpedAt(g, i) = DumpedAt(f, i) \cup (IF NewDump(r, i) THEN {Len(f) + 1} ELSE {})
    BY ONLY <2>2, MarksMore
  <2> QED
    BY <1>6, <2>1, <2>3
<1>8. EarlyIn(file') <=> EarlyIn(file)
  BY <1>7 DEF EarlyIn
<1>9. (BeginsWithMark /\ DumpsGivenOut /\ CreationsShown /\ WalkedPast)'
  <2>1. BeginsWithMark'
    BY <1>4, <1>5 DEF BeginsWithMark, Longer
  <2>2. DumpsGivenOut' /\ CreationsShown' /\ WalkedPast'
    BY <1>2, <1>4, <1>7 DEF DumpsGivenOut, CreationsShown, WalkedPast, Live
  <2> QED
    BY <2>1, <2>2
<1>10. PICK d, e : d = OnItsOwn /\ e = OnItsOwn'
  OBVIOUS
<1>11. PICK yes \in BOOLEAN : yes = TRUE
  OBVIOUS
<1>12. e = L!ReadRecord(d, r, yes)
  <2>1. PICK f, g, c : f = file /\ g = file' /\ c = L!Nothing
    OBVIOUS
  <2>2. Longer(f, g, r, Records)
    BY <1>5, <2>1
  <2>3. ReadAll(c, g, yes) = L!ReadRecord(ReadAll(c, f, yes), r, yes)
    BY ONLY <2>2, ReadMore
  <2> QED
    BY <1>10, <1>11, <2>1, <2>3 DEF OnItsOwn
<1>13. CASE EarlyIn(file)
  <2>1. d.status = "CORRUPTED"
    BY <1>4, <1>10, <1>13 DEF Alone
  <2>2. e = d
    BY <1>12, <2>1, CorruptedStays
  <2>3. Alone(OnItsOwn, Work, file)'
    BY <1>8, <1>10, <1>13, <2>1, <2>2 DEF Alone
  <2> QED
    BY <1>9, <2>3 DEF FirstInv
<1>14. CASE ~EarlyIn(file)
  <2>1. /\ IsLoaded(d) /\ d.status = "READING" /\ d.dumpOn = dumping
        /\ \A i : Right(Work, file, i, Holds(d, i)) /\ Whole(Work, file, i, Holds(d, i))
    BY <1>4, <1>10, <1>14 DEF Alone
  <2>2. d.dumpOn = TRUE
    BY <1>2, <2>1 DEF Types
  <2>3. Marked(d, L!ReadRecord(d, L!DumpEnd, yes), FALSE)
    BY <2>1, <2>2, MarkRecord
  <2>4. Marked(d, e, FALSE)
    BY <1>1, <1>12, <2>3
  <2>5. IsLoaded(e) /\ e.status = "READING" /\ e.dumpOn = FALSE /\ \A i : Holds(e, i) = Holds(d, i)
    BY <2>1, <2>4 DEF Marked, Holds
  <2>6. ASSUME NEW i PROVE (Right(Work, file, i, Holds(e, i)) /\ Whole(Work, file, i, Holds(e, i)))'
    <3>1. PICK x : x = Holds(d, i)
      OBVIOUS
    <3>2. Right(Work, file, i, x) /\ Whole(Work, file, i, x) /\ Holds(e, i) = x
      BY <2>1, <2>5, <3>1
    <3>3. Right(Work, file, i, x)'
      BY <1>2, <1>3, <1>7, <3>2 DEF Right, Settled
    <3>4. Whole(Work, file, i, x)'
      BY <1>2, <1>7, <3>2 DEF Whole, Ahead
    <3> QED
      BY <3>2, <3>3, <3>4
  <2>7. Alone(OnItsOwn, Work, file)'
    BY <1>2, <1>8, <1>10, <1>14, <2>5, <2>6 DEF Alone
  <2> QED
    BY <1>9, <2>7 DEF FirstInv
<1> QED
  BY <1>13, <1>14

(* What holds of a file with a dump holds of the first state, in which there is
   none, *)
LEMMA FirstInit ==
  ASSUME Init
  PROVE  FirstInv
BY DEF Init, FirstInv, HasDump

(* and after each step. *)
LEMMA FirstNextStep ==
  ASSUME Sound, Sound', FirstInv, Steps
  PROVE  FirstInv'
<1>1. ASSUME NEW h \in Handles, NEW s \in Slots, NEW o \in Operations, Does(h, s, o) PROVE FirstInv'
  BY <1>1, FirstDoes
<1>2. CASE AskForDump \/ \E h \in Handles : Push(h)
  BY <1>2, FirstLinks
<1>3. CASE Rests \/ \E h \in Handles : Unlock(h) \/ Fill(h)
  BY <1>3, FirstGoesOn
<1>4. ASSUME NEW h \in Handles, GiveUp(h) PROVE FirstInv'
  BY <1>4, FirstGiveUp
<1>5. CASE SvcCommit \/ (SvcStartDump /\ dumping)
  BY <1>5, IsWritten, FirstWritten
<1>6. CASE SvcStartDump /\ ~dumping
  BY <1>6, FirstBegin
<1>7. CASE Dumps1
  BY <1>7, FirstDumpNode
<1>8. CASE SvcDumpEnd
  BY <1>8, FirstDumpEnd
<1> QED
  BY <1>1, <1>2, <1>3, <1>4, <1>5, <1>6, <1>7, <1>8 DEF Steps

-----------------------------------------------------------------------------
(* What a file with a complete dump is worth *)

(* Loading it. *)
LEMMA FirstLoads ==
  ASSUME Sound, FirstInv, HasDump, NEW e, e = AsFirst
  PROVE  /\ EarlyIn(file) => e.status = "CORRUPTED"
         /\ ~EarlyIn(file) => /\ e.status = "UNFINISHED" /\ e.nodes = OnItsOwn.nodes
                              /\ IsLoaded(OnItsOwn)
                              /\ \A i : /\ Right(Work, file, i, Holds(OnItsOwn, i))
                                        /\ Whole(Work, file, i, Holds(OnItsOwn, i))
<1>1. BeginsWithMark /\ Alone(OnItsOwn, Work, file) /\ file \in Seq(Records)
  BY DEF FirstInv, Sound, Types
<1>2. PICK c, yes, d : c = L!Nothing /\ yes = TRUE /\ d = OnItsOwn
  OBVIOUS
<1>3. IsLoaded(c) /\ c.status = "READING" /\ c.dumpOn = FALSE /\ c.magic = 0
  BY <1>2, NothingIs
<1>4. Loads(c, yes, e) /\ d = ReadAll(c, file, yes)
  BY <1>1, <1>2, <1>3 DEF Loads, AsFirst, OnItsOwn
<1>5. /\ IsLoaded(d) /\ d.status = "READING" =>
           e.nodes = d.nodes /\ e.ghosts = d.ghosts /\ e.status = "UNFINISHED"
      /\ d.status # "READING" => e = d
  BY ONLY <1>1, <1>4, LoadIs
<1>6. CASE EarlyIn(file)
  <2>1. d.status = "CORRUPTED"
    BY <1>1, <1>2, <1>6 DEF Alone
  <2> QED
    BY <1>5, <1>6, <2>1
<1>7. CASE ~EarlyIn(file)
  BY <1>1, <1>2, <1>5, <1>7 DEF Alone
<1> QED
  BY <1>6, <1>7

(* Once the jobs are written that the dump has overtaken. *)
LEMMA StateIs ==
  ASSUME Sound, FirstInv
  PROVE  DumpIsState
<1>1. SUFFICES ASSUME DumpComplete, Written >= overtaken, AsFirst.status = "UNFINISHED"
      PROVE  AsFirst.nodes = Committed(Written)
  BY DEF DumpIsState
<1>2. Types /\ HasDump
  BY <1>1 DEF Sound, DumpComplete, HasDump
<1>3. PICK e, d : e = AsFirst /\ d = OnItsOwn
  OBVIOUS
<1>4. /\ e.nodes = d.nodes /\ IsLoaded(d)
      /\ \A i : Right(Work, file, i, Holds(d, i)) /\ Whole(Work, file, i, Holds(d, i))
  BY <1>1, <1>2, <1>3, FirstLoads
<1>5. /\ Work \in Histories /\ Written \in 0 .. Len(Work) /\ Written \in 0 .. Written /\ Written \in Nat
      /\ cursor = 0
  BY <1>1, <1>2, WorkNow DEF Types, DumpComplete
<1>6. Horizon = Written
  <2>1. overtaken \in Nat /\ ~(overtaken > Written) /\ ~dumping
    BY <1>1, <1>2, <1>5 DEF Types, DumpComplete
  <2> QED
    BY <2>1 DEF Horizon
<1>7. ASSUME NEW i PROVE Holds(d, i) = Now(Work, Written, i)
  <2>1. PICK x, o : x = Holds(d, i) /\ o = Last(Work, Written, i)
    OBVIOUS
  <2>2. ASSUME NEW v \in x PROVE i \in Ids /\ Exists(o) /\ ValueIn(o) = v
    <3>1. /\ i \in Ids /\ o.op # "DELETED"
          /\ \E n \in Written .. Horizon : Shows(Last(Work, n, i), v)
      BY <1>4, <2>1, <2>2 DEF Right, Settled
    <3>2. Shows(o, v)
      BY <1>5, <1>6, <2>1, <3>1
    <3>3. o.op # "NONE" /\ ValueIn(o) = v
      BY <3>1, <3>2 DEF Shows
    <3>4. i \in Nat \ {0}
      BY <3>1, Constants DEF Ids
    <3>5. Exists(o)
      BY <1>5, <2>1, <3>1, <3>3, <3>4, ExistsIs
    <3> QED
      BY <3>1, <3>3, <3>5
  <2>3. i \in Ids /\ Exists(o) => x # {}
    BY <1>4, <1>5, <2>1 DEF Whole, Ahead
  <2>4. x = {} \/ \E v : x = {v}
    BY <2>1 DEF Holds
  <2>5. x = IF i \in Ids /\ Exists(o) THEN {ValueIn(o)} ELSE {}
    BY <2>2, <2>3, <2>4
  <2> QED
    BY <2>1, <2>5 DEF Now
<1>8. d.nodes = StateOf(Work, Written)
  BY <1>4, <1>7, NodesAre
<1>9. Committed(Written) = StateOf(Work, Written)
  BY <1>5, CommittedIs
<1> QED
  BY <1>3, <1>4, <1>8, <1>9

(* When it is refused. *)
LEMMA RefusedIs ==
  ASSUME Sound, FirstInv
  PROVE  RefusedOnlyForEarlyCreation
<1>1. SUFFICES ASSUME DumpComplete
      PROVE  AsFirst.status = "CORRUPTED" <=>
               \E i \in Ids : \E k \in Creations(i), l \in Dumps(i) : k < l
  BY DEF RefusedOnlyForEarlyCreation
<1>2. HasDump /\ file \in Seq(Records)
  BY <1>1 DEF DumpComplete, HasDump, Sound, Types
<1>3. ASSUME NEW i PROVE Creations(i) = CreatedAt(file, i) /\ Dumps(i) = DumpedAt(file, i)
  <2>1. ASSUME NEW k \in DOMAIN file, file[k].kind = "transaction"
        PROVE  (\E x \in DOMAIN file[k].ops : file[k].ops[x] = L!Created(i)) <=> Creates(file[k].ops, i)
    <3>1. PICK ops : ops = file[k].ops
      OBVIOUS
    <3>2. file[k] \in Records
      BY <1>2
    <3>3. ops \in Seq(Operations)
      BY <2>1, <3>1, <3>2, RecordOps
    <3>4. ASSUME NEW x \in DOMAIN ops
          PROVE  ops[x] = L!Created(i) <=> ops[x].id = i /\ ops[x].op = "CREATED"
      <4>1. PICK o \in Operations : o = ops[x]
        BY <3>3
      <4>2. o.op = "CREATED" => o = L!Created(o.id)
        BY <4>1, OpIs
      <4>3. L!Created(i).op = "CREATED" /\ L!Created(i).id = i
        BY OpFields
      <4> QED
        BY <4>1, <4>2, <4>3
    <3> QED
      BY <3>1, <3>4 DEF Creates
  <2> QED
    BY <2>1 DEF Creations, CreatedAt, Dumps, DumpedAt
<1>4. EarlyIn(file) <=> \E i \in Ids : \E k \in Creations(i), l \in Dumps(i) : k < l
  BY <1>3 DEF EarlyIn
<1>5. PICK e : e = AsFirst
  OBVIOUS
<1>6. /\ EarlyIn(file) => e.status = "CORRUPTED"
      /\ ~EarlyIn(file) => e.status = "UNFINISHED"
  BY <1>2, <1>5, FirstLoads
<1>7. e.status = "CORRUPTED" <=> EarlyIn(file)
  BY <1>6
<1> QED
  BY <1>4, <1>5, <1>7

-----------------------------------------------------------------------------
(* The invariants hold always, *)
LEMMA DumpInvariant == Spec => [](Sound /\ LastInv /\ FirstInv)
<1>1. Init => Sound /\ LastInv /\ FirstInv
  BY SoundInit, LastInit, FirstInit
<1>2. Sound /\ LastInv /\ FirstInv /\ [Next]_vars => (Sound /\ LastInv /\ FirstInv)'
  <2>1. SUFFICES ASSUME Sound, LastInv, FirstInv, [Next]_vars PROVE (Sound /\ LastInv /\ FirstInv)'
    OBVIOUS
  <2>2. Types
    BY <2>1 DEF Sound
  <2>3. Steps
    BY <2>1, <2>2, StepIs
  <2>4. Sound'
    BY <2>1, <2>3, SoundNext
  <2>5. LastInv' /\ FirstInv'
    BY <2>1, <2>3, <2>4, LastNextStep, FirstNextStep
  <2> QED
    BY <2>4, <2>5
<1> QED
  BY <1>1, <1>2, PTL DEF Spec

(* Whatever transactions do while a dump is written, whatever becomes of them,
   and wherever the service thread stands: loaded after the older files, what
   has been written to the present one gives the state that the jobs written
   leave, with no node twice (do_dump and service_thread in
   database.include/threads.c, load_file in database_create.c). *)
THEOREM ChainOfFiles == Spec => []ChainLoads
<1>1. Sound /\ LastInv /\ FirstInv => ChainLoads
  BY ChainIs
<1> QED
  BY <1>1, DumpInvariant, PTL

(* A file that begins with a complete dump gives the same state without the
   older files, if it can be loaded and the jobs are written that were in the
   queue when the dump ended. *)
THEOREM DumpStandsAlone == Spec => []DumpIsState
<1>1. Sound /\ LastInv /\ FirstInv => DumpIsState
  BY StateIs
<1> QED
  BY <1>1, DumpInvariant, PTL

(* It cannot be loaded if and only if some node was dumped after the record of
   the transaction that created it: read_node_load then finds the node
   known (database.include/read.c). *)
THEOREM DumpRefused == Spec => []RefusedOnlyForEarlyCreation
<1>1. Sound /\ LastInv /\ FirstInv => RefusedOnlyForEarlyCreation
  BY RefusedIs
<1> QED
  BY <1>1, DumpInvariant, PTL
=============================================================================
