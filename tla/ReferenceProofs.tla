--------------------------- MODULE ReferenceProofs ---------------------------
(***************************************************************************)
(* Pointers between nodes with their counts, the dictionary by which nodes *)
(* are found by their ids, and the stacks that keep logs and lists of      *)
(* nodes: for every set of handles, nodes, keys, pages and items, every    *)
(* list of capacities and every size of a page.                            *)
(***************************************************************************)
EXTENDS References, NumDictionary, Stacks, FiniteSetTheorems, SequenceTheorems,
        WellFoundedInduction, TLAPS

-----------------------------------------------------------------------------
(* Reference counts *)

RefItem == [what : {"raw"}, node : RefNodes, old : Int]
           \cup [what : {"modify"}, node : RefNodes, old : RefNodes \cup {Null}]
           \cup [what : {"alloc", "delete"}, node : RefNodes, old : {Null}]

RefTypes ==
  /\ usedNodes \subseteq RefNodes /\ nodesAlive \subseteq usedNodes
  /\ target \in [RefNodes -> RefNodes \cup {Null}]
  /\ refCount \in [RefNodes -> Int]
  /\ lockedBy \in [RefNodes -> RefHandles \cup {Null}]
  /\ refStatus \in [RefHandles -> {"idle", "run", "failed"}]
  /\ undoLog \in [RefHandles -> Seq(RefItem)]

(* A handle has the lock of each node its log speaks of; one that is idle has
   neither.  A place that has not been used is nobody's. *)
LogsLocked ==
  /\ \A h \in RefHandles : \A i \in DOMAIN undoLog[h] : lockedBy[undoLog[h][i].node] = h
  /\ \A h \in RefHandles : refStatus[h] = "idle" => undoLog[h] = <<>> /\ Held(h) = {}
  /\ \A n \in RefNodes \ usedNodes : lockedBy[n] = Null /\ target[n] = Null

(* What the pointer and the count of a node would be if the handle that has it
   locked aborted. *)
BaseTarget(n) ==
  IF lockedBy[n] = Null THEN target[n]
  ELSE IF Entries(lockedBy[n], "alloc", n) # {} THEN Null
  ELSE Undone(lockedBy[n], "modify", n, target[n])
BaseCount(n) ==
  IF lockedBy[n] = Null THEN refCount[n] ELSE Undone(lockedBy[n], "raw", n, refCount[n])

(* The database as h will leave it if it commits and all others abort; for Null
   as all leave it by aborting. *)
TargetSeen(h, n) == IF lockedBy[n] = h THEN target[n] ELSE BaseTarget(n)
CountSeen(h, n)  == IF lockedBy[n] = h THEN refCount[n] ELSE BaseCount(n)
AliveTo(h) == {n \in nodesAlive : \A k \in RefHandles \ {h} : Entries(k, "alloc", n) = {}}

(* Whoever changes a pointer has locked what it pointed to and what it points
   to. *)
EndsLocked ==
  \A n \in RefNodes : target[n] # BaseTarget(n) =>
    \A x \in {target[n], BaseTarget(n)} \ {Null} : lockedBy[x] = lockedBy[n]

ExactFor(h) ==
  \A m \in RefNodes : CountSeen(h, m) = Cardinality({n \in RefNodes : TargetSeen(h, n) = m})
CountsFit == \A h \in RefHandles \cup {Null} : (h # Null => refStatus[h] = "run") => ExactFor(h)

(* Nothing points to a node that is being deleted, as its deleter sees it. *)
FreeFrom(h) == \A x \in Deleting(h) : \A n \in RefNodes : TargetSeen(h, n) # x
DeletedFree == \A h \in RefHandles : FreeFrom(h)

(* What is there points to what is there. *)
PointsAlive(h) ==
  \A n \in AliveTo(h) : TargetSeen(h, n) = Null \/ TargetSeen(h, n) \in AliveTo(h)
TargetsAlive == \A h \in RefHandles \cup {Null} : PointsAlive(h)

RefInv == RefTypes /\ LogsLocked /\ EndsLocked /\ CountsFit /\ DeletedFree /\ TargetsAlive

(* What is locked is there; what a handle has found is there, or too new for
   it. *)
FoundInv ==
  /\ found \in [RefHandles -> SUBSET RefNodes] /\ tooNew \in [RefHandles -> SUBSET RefNodes]
  /\ \A n \in RefNodes : lockedBy[n] # Null => n \in nodesAlive
  /\ \A h \in RefHandles : refStatus[h] # "idle" => found[h] \subseteq nodesAlive \cup tooNew[h]

-----------------------------------------------------------------------------
(* Logs *)

(* Some numbers have a least one, and it is the one CHOOSE takes. *)
LEMMA LeastChosen ==
  ASSUME NEW W, W \subseteq Nat, W # {}
  PROVE  /\ (CHOOSE i \in W : \A k \in W : i <= k) \in W
         /\ \A k \in W : (CHOOSE i \in W : \A j \in W : i <= j) <= k
<1>1. PICK i \in W : \A k \in W : ~ (<<k, i>> \in OpToRel(<, Nat))
  BY WFMin, NatLessThanWellFounded
<1>2. ASSUME NEW k \in W PROVE ~ (k < i)
  BY <1>1 DEF OpToRel
<1>3. \A k \in W : i <= k
  BY <1>2
<1> QED
  BY <1>3

(* The least number of a set is what CHOOSE finds. *)
LEMMA ChosenIs ==
  ASSUME NEW W, W \subseteq Nat, NEW i \in W, \A k \in W : i <= k
  PROVE  (CHOOSE j \in W : \A k \in W : j <= k) = i
<1>1. \A j \in W : (\A k \in W : j <= k) => j = i
  OBVIOUS
<1> QED
  BY <1>1

(* Entries and Undone of a log that is given. *)
EntriesIn(s, what, n) == {k \in DOMAIN s : s[k].what = what /\ s[k].node = n}
OldIn(s, what, n, current) ==
  LET ks == EntriesIn(s, what, n)
  IN  IF ks = {} THEN current ELSE s[CHOOSE k \in ks : \A j \in ks : k <= j].old

(* Entries and Undone look at nothing but the log. *)
LEMMA LogOf ==
  ASSUME NEW h, NEW what, NEW n, NEW x
  PROVE  /\ Entries(h, what, n) = EntriesIn(undoLog[h], what, n)
         /\ Undone(h, what, n, x) = OldIn(undoLog[h], what, n, x)
BY DEF Entries, EntriesIn, Undone, OldIn

(* A log that goes on. *)
Then(s, t) == s \o t

(* In a log that goes on what has been written before counts. *)
LEMMA OldConcat ==
  ASSUME NEW s \in Seq(RefItem), NEW t \in Seq(RefItem), NEW what, NEW n, NEW x
  PROVE  /\ Then(s, t) \in Seq(RefItem)
         /\ (EntriesIn(Then(s, t), what, n) = {}) <=>
              (EntriesIn(s, what, n) = {} /\ EntriesIn(t, what, n) = {})
         /\ OldIn(Then(s, t), what, n, x) = OldIn(s, what, n, OldIn(t, what, n, x))
<1> USE DEF Then
<1> DEFINE a == EntriesIn(s, what, n)
           b == EntriesIn(t, what, n)
           c == EntriesIn(s \o t, what, n)
           m == Len(s)
           y == OldIn(t, what, n, x)
<1>1. /\ m \in Nat /\ Len(t) \in Nat /\ DOMAIN s = 1 .. m /\ DOMAIN t = 1 .. Len(t)
      /\ DOMAIN (s \o t) = 1 .. m + Len(t)
      /\ \A i \in 1 .. m : (s \o t)[i] = s[i]
      /\ \A i \in 1 .. Len(t) : (s \o t)[m + i] = t[i]
  BY ConcatProperties
<1> HIDE DEF m
<1>2. a \subseteq 1 .. m /\ b \subseteq 1 .. Len(t) /\ c \subseteq 1 .. m + Len(t)
  BY <1>1 DEF EntriesIn
<1>3. \A i \in 1 .. m : i \in a <=> i \in c
  BY <1>1 DEF EntriesIn
<1>4. \A i \in 1 .. Len(t) : i \in b <=> m + i \in c
  BY <1>1 DEF EntriesIn
<1>5. \A i \in 1 .. m + Len(t) : i \in 1 .. m \/ \E j \in 1 .. Len(t) : i = m + j
  <2>1. ASSUME NEW i \in 1 .. m + Len(t), i \notin 1 .. m
        PROVE  i - m \in 1 .. Len(t) /\ i = m + (i - m)
    BY <1>1, <2>1
  <2> QED
    BY <2>1
<1>6. c = {} <=> a = {} /\ b = {}
  BY <1>1, <1>2, <1>3, <1>4, <1>5
<1>7. CASE a # {}
  <2> DEFINE i == CHOOSE k \in a : \A j \in a : k <= j
  <2>1. i \in a /\ \A k \in a : i <= k
    <3>1. a \subseteq Nat
      BY <1>1, <1>2
    <3> HIDE DEF a
    <3> QED
      BY <1>7, <3>1, LeastChosen
  <2> HIDE DEF i
  <2>2. i \in c /\ \A k \in c : i <= k
    BY <1>1, <1>2, <1>3, <2>1
  <2>3. (CHOOSE k \in c : \A j \in c : k <= j) = i
    BY <1>1, <1>2, <2>2, ChosenIs
  <2>4. OldIn(s \o t, what, n, x) = (s \o t)[i].old
    BY <2>2, <2>3 DEF OldIn
  <2>5. OldIn(s, what, n, y) = s[i].old
    <3> HIDE DEF y
    <3> QED
      BY <1>7 DEF OldIn, i
  <2> QED
    BY <1>1, <1>2, <1>6, <1>7, <2>1, <2>4, <2>5
<1>8. CASE a = {} /\ b # {}
  <2> DEFINE i == CHOOSE k \in b : \A j \in b : k <= j
  <2>1. i \in b /\ \A k \in b : i <= k
    BY <1>1, <1>2, <1>8, LeastChosen
  <2> HIDE DEF i
  <2>2. m + i \in c
    BY <1>2, <1>4, <2>1
  <2>3. ASSUME NEW k \in c PROVE m + i <= k
    <3>1. PICK j \in 1 .. Len(t) : k = m + j
      BY <1>2, <1>3, <1>5, <1>8
    <3> QED
      BY <1>1, <1>2, <1>4, <2>1, <3>1
  <2>4. (CHOOSE k \in c : \A j \in c : k <= j) = m + i
    BY <1>1, <1>2, <2>2, <2>3, ChosenIs
  <2>5. OldIn(s \o t, what, n, x) = (s \o t)[m + i].old
    BY <2>2, <2>4 DEF OldIn
  <2>6. OldIn(t, what, n, x) = t[i].old
    BY <1>8 DEF OldIn, i
  <2> QED
    <3>1. OldIn(s \o t, what, n, x) = y
      BY <1>1, <1>2, <2>1, <2>5, <2>6
    <3> HIDE DEF y
    <3>2. OldIn(s, what, n, y) = y
      BY <1>8 DEF OldIn
    <3> QED
      BY <1>6, <3>1, <3>2 DEF y
<1>9. CASE a = {} /\ b = {}
  <2>1. OldIn(s \o t, what, n, x) = x /\ y = x
    BY <1>6, <1>9 DEF OldIn
  <2> HIDE DEF y
  <2>2. OldIn(s, what, n, y) = y
    BY <1>9 DEF OldIn
  <2> QED
    BY <1>6, <2>1, <2>2 DEF y
<1> QED
  BY <1>6, <1>7, <1>8, <1>9

(* A log of one item, and of none. *)
LEMMA OldSingle ==
  ASSUME NEW item, NEW what, NEW n, NEW x
  PROVE  /\ (item.what = what /\ item.node = n) =>
              (EntriesIn(<<item>>, what, n) = {1} /\ OldIn(<<item>>, what, n, x) = item.old)
         /\ ~(item.what = what /\ item.node = n) =>
              (EntriesIn(<<item>>, what, n) = {} /\ OldIn(<<item>>, what, n, x) = x)
<1> DEFINE a == EntriesIn(<<item>>, what, n)
<1>1. a = IF item.what = what /\ item.node = n THEN {1} ELSE {}
  BY DEF EntriesIn
<1>2. CASE item.what = what /\ item.node = n
  <2>1. (CHOOSE k \in a : \A j \in a : k <= j) = 1
    BY <1>1, <1>2, ChosenIs
  <2> QED
    BY <1>1, <1>2, <2>1 DEF OldIn
<1>3. CASE ~(item.what = what /\ item.node = n)
  BY <1>1, <1>3 DEF OldIn
<1> QED
  BY <1>1, <1>2, <1>3

(* A log without entries undoes nothing. *)
LEMMA OldEmpty ==
  ASSUME NEW what, NEW n, NEW x
  PROVE  EntriesIn(<<>>, what, n) = {} /\ OldIn(<<>>, what, n, x) = x
BY DEF EntriesIn, OldIn

-----------------------------------------------------------------------------
(* Steps within a transaction *)

(* h writes t to its log, takes locks that are free, and changes only what it
   has locked and logged. *)
Grows(h, t) ==
  /\ t \in Seq(RefItem)
  /\ undoLog' = [undoLog EXCEPT ![h] = @ \o t]
  /\ \A n \in RefNodes : lockedBy'[n] = lockedBy[n] \/ (lockedBy[n] = Null /\ lockedBy'[n] = h)
  /\ \A n \in RefNodes : lockedBy'[n] # h => target'[n] = target[n] /\ refCount'[n] = refCount[n]
  /\ \A i \in DOMAIN t : lockedBy'[t[i].node] = h
  /\ \A n \in RefNodes : /\ OldIn(t, "modify", n, target'[n]) = target[n]
                         /\ OldIn(t, "raw", n, refCount'[n]) = refCount[n]
                         /\ EntriesIn(t, "alloc", n) # {} => n \notin usedNodes
  /\ \A n \in RefNodes : lockedBy'[n] = lockedBy[n] \/ n \in usedNodes'
  /\ usedNodes \subseteq usedNodes'
  /\ nodesAlive' = nodesAlive \cup {n \in RefNodes : EntriesIn(t, "alloc", n) # {}}
  /\ refStatus'[h] # "idle" /\ \A k \in RefHandles \ {h} : refStatus'[k] = refStatus[k]

(* What a longer log undoes: the oldest entry counts, so a new one only if there
   was none. *)
LEMMA GrowLog ==
  ASSUME RefInv, RefTypes', NEW h \in RefHandles, NEW t, Grows(h, t), NEW what, NEW n, NEW x, NEW y
  PROVE  /\ Entries(h, what, n)' = {} <=> Entries(h, what, n) = {} /\ EntriesIn(t, what, n) = {}
         /\ OldIn(undoLog'[h], what, n, x) = IF Entries(h, what, n) = {} THEN OldIn(t, what, n, x)
                                             ELSE Undone(h, what, n, y)
         /\ \A k \in RefHandles \ {h} : undoLog'[k] = undoLog[k]
<1>1. /\ undoLog'[h] = Then(undoLog[h], t) /\ undoLog[h] \in Seq(RefItem) /\ t \in Seq(RefItem)
      /\ \A k \in RefHandles \ {h} : undoLog'[k] = undoLog[k]
  BY DEF RefInv, RefTypes, Grows, Then
<1>2. /\ Entries(h, what, n)' = EntriesIn(undoLog'[h], what, n)
      /\ Entries(h, what, n) = EntriesIn(undoLog[h], what, n)
      /\ Undone(h, what, n, y) = OldIn(undoLog[h], what, n, y)
  BY DEF Entries, EntriesIn, Undone, OldIn
<1>3. ASSUME NEW s \in Seq(RefItem)
      PROVE  /\ (EntriesIn(Then(s, t), what, n) = {}) <=>
                  (EntriesIn(s, what, n) = {} /\ EntriesIn(t, what, n) = {})
             /\ OldIn(Then(s, t), what, n, x) = OldIn(s, what, n, OldIn(t, what, n, x))
  <2>1. t \in Seq(RefItem)
    BY <1>1
  <2> QED
    BY ONLY <2>1, OldConcat
<1>4. /\ EntriesIn(undoLog[h], what, n) = {} =>
           \A z : OldIn(undoLog[h], what, n, z) = z
      /\ EntriesIn(undoLog[h], what, n) # {} =>
           \A z : OldIn(undoLog[h], what, n, z) = OldIn(undoLog[h], what, n, y)
  BY DEF OldIn
<1> QED
  BY <1>1, <1>2, <1>3, <1>4

(* A log has no entries for nodes its handle has not locked. *)
LEMMA OnlyLocked ==
  ASSUME LogsLocked, NEW h \in RefHandles, NEW n, lockedBy[n] # h, NEW what
  PROVE  Entries(h, what, n) = {}
BY DEF LogsLocked, Entries

(* What an abort would restore stays. *)
LEMMA GrowBase ==
  ASSUME RefInv, RefTypes', NEW h \in RefHandles, NEW t, Grows(h, t), NEW n \in RefNodes
  PROVE  BaseTarget(n)' = BaseTarget(n) /\ BaseCount(n)' = BaseCount(n)
<1>1. LogsLocked /\ h # Null
  BY RefAssumption DEF RefInv
<1>2. CASE lockedBy'[n] = h
  <2>1. /\ OldIn(t, "modify", n, target'[n]) = target[n]
        /\ OldIn(t, "raw", n, refCount'[n]) = refCount[n]
        /\ EntriesIn(t, "alloc", n) # {} => n \notin usedNodes
        /\ lockedBy[n] = h \/ lockedBy[n] = Null
    BY <1>2 DEF Grows
  <2>2. /\ BaseTarget(n)' = IF Entries(h, "alloc", n)' # {} THEN Null
                            ELSE OldIn(undoLog'[h], "modify", n, target'[n])
        /\ BaseCount(n)' = OldIn(undoLog'[h], "raw", n, refCount'[n])
    BY <1>1, <1>2 DEF BaseTarget, BaseCount, Undone, OldIn, Entries, EntriesIn
  <2>3. /\ Entries(h, "alloc", n)' = {} <=>
             Entries(h, "alloc", n) = {} /\ EntriesIn(t, "alloc", n) = {}
        /\ OldIn(undoLog'[h], "modify", n, target'[n]) =
             IF Entries(h, "modify", n) = {} THEN target[n]
             ELSE Undone(h, "modify", n, target[n])
        /\ OldIn(undoLog'[h], "raw", n, refCount'[n]) =
             IF Entries(h, "raw", n) = {} THEN refCount[n]
             ELSE Undone(h, "raw", n, refCount[n])
    <3>1. Entries(h, "alloc", n)' = {} <=>
            Entries(h, "alloc", n) = {} /\ EntriesIn(t, "alloc", n) = {}
      BY GrowLog
    <3>2. OldIn(undoLog'[h], "modify", n, target'[n]) =
            IF Entries(h, "modify", n) = {} THEN OldIn(t, "modify", n, target'[n])
            ELSE Undone(h, "modify", n, target[n])
      BY GrowLog, ZenonT(60)
    <3>3. OldIn(undoLog'[h], "raw", n, refCount'[n]) =
            IF Entries(h, "raw", n) = {} THEN OldIn(t, "raw", n, refCount'[n])
            ELSE Undone(h, "raw", n, refCount[n])
      BY GrowLog, ZenonT(60)
    <3> QED
      BY <2>1, <3>1, <3>2, <3>3
  <2>4. n \notin usedNodes => lockedBy[n] = Null /\ target[n] = Null
    BY <1>1 DEF LogsLocked
  <2>5. CASE lockedBy[n] = h
    <3>1. Entries(h, "modify", n) = {} => Undone(h, "modify", n, target[n]) = target[n]
      BY DEF Undone
    <3>2. Entries(h, "raw", n) = {} => Undone(h, "raw", n, refCount[n]) = refCount[n]
      BY DEF Undone
    <3> QED
      BY <1>1, <2>1, <2>2, <2>3, <2>4, <2>5, <3>1, <3>2 DEF BaseTarget, BaseCount
  <2>6. CASE lockedBy[n] = Null
    <3>1. \A what : Entries(h, what, n) = {}
      BY <1>1, <2>6, OnlyLocked
    <3> QED
      BY <1>1, <2>1, <2>2, <2>3, <2>4, <2>6, <3>1 DEF BaseTarget, BaseCount
  <2> QED
    BY <2>1, <2>5, <2>6
<1>3. CASE lockedBy'[n] # h
  <2>1. lockedBy'[n] = lockedBy[n] /\ target'[n] = target[n] /\ refCount'[n] = refCount[n]
    BY <1>3 DEF Grows
  <2>2. CASE lockedBy[n] = Null
    BY <2>1, <2>2 DEF BaseTarget, BaseCount
  <2>3. CASE lockedBy[n] # Null
    <3>1. PICK k \in RefHandles \ {h} : lockedBy[n] = k
      BY <1>3, <2>1, <2>3 DEF RefInv, RefTypes
    <3>2. undoLog'[k] = undoLog[k]
      BY GrowLog
    <3> QED
      BY <2>1, <3>1, <3>2 DEF BaseTarget, BaseCount, Undone, Entries
  <2> QED
    BY <2>2, <2>3
<1> QED
  BY <1>2, <1>3

(* What is restored has the type of what there was. *)
LEMMA UndoneTypes ==
  ASSUME RefTypes, NEW h \in RefHandles, NEW n \in RefNodes
  PROVE  /\ Undone(h, "modify", n, target[n]) \in RefNodes \cup {Null}
         /\ Undone(h, "raw", n, refCount[n]) \in Int
<1>1. undoLog[h] \in Seq(RefItem) /\ DOMAIN undoLog[h] = 1 .. Len(undoLog[h])
      /\ Len(undoLog[h]) \in Nat
  BY DEF RefTypes
<1>2. ASSUME NEW what, Entries(h, what, n) # {}
      PROVE  \E i \in DOMAIN undoLog[h] : /\ undoLog[h][i].what = what
                                         /\ \A x : Undone(h, what, n, x) = undoLog[h][i].old
  <2> DEFINE i == CHOOSE k \in Entries(h, what, n) : \A j \in Entries(h, what, n) : k <= j
  <2>1. Entries(h, what, n) \subseteq Nat
    BY <1>1 DEF Entries
  <2>2. i \in Entries(h, what, n)
    BY <1>2, <2>1, LeastChosen
  <2>3. \A x : Undone(h, what, n, x) = undoLog[h][i].old
    BY <1>2 DEF Undone
  <2> QED
    BY <2>2, <2>3 DEF Entries
<1>3. \A i \in DOMAIN undoLog[h] : undoLog[h][i] \in RefItem
  BY <1>1
<1>4. Undone(h, "modify", n, target[n]) \in RefNodes \cup {Null}
  <2>1. CASE Entries(h, "modify", n) = {}
    BY <2>1 DEF Undone, RefTypes
  <2>2. CASE Entries(h, "modify", n) # {}
    BY <1>2, <1>3, <2>2 DEF RefItem
  <2> QED
    BY <2>1, <2>2
<1>5. Undone(h, "raw", n, refCount[n]) \in Int
  <2>1. CASE Entries(h, "raw", n) = {}
    BY <2>1 DEF Undone, RefTypes
  <2>2. CASE Entries(h, "raw", n) # {}
    BY <1>2, <1>3, <2>2 DEF RefItem
  <2> QED
    BY <2>1, <2>2
<1> QED
  BY <1>4, <1>5

(* What undoing gives is a pointer and a number. *)
LEMMA BaseTypes ==
  ASSUME RefTypes, NEW n \in RefNodes
  PROVE  BaseTarget(n) \in RefNodes \cup {Null} /\ BaseCount(n) \in Int
BY UndoneTypes DEF BaseTarget, BaseCount, RefTypes

(* So what others see stays, and what h sees of what is not changed. *)
LEMMA GrowSeen ==
  ASSUME RefInv, RefTypes', NEW h \in RefHandles, NEW t, Grows(h, t), NEW n \in RefNodes,
         NEW k \in RefHandles \cup {Null}
  PROVE  /\ k # h \/ target'[n] = target[n] => TargetSeen(k, n)' = TargetSeen(k, n)
         /\ k # h \/ refCount'[n] = refCount[n] => CountSeen(k, n)' = CountSeen(k, n)
<1>1. BaseTarget(n)' = BaseTarget(n) /\ BaseCount(n)' = BaseCount(n)
  BY GrowBase
<1>2. lockedBy[n] = Null => BaseTarget(n) = target[n] /\ BaseCount(n) = refCount[n]
  BY DEF BaseTarget, BaseCount
<1>3. lockedBy'[n] = Null => BaseTarget(n)' = target'[n] /\ BaseCount(n)' = refCount'[n]
  BY DEF BaseTarget, BaseCount
<1>4. /\ lockedBy'[n] = lockedBy[n] \/ (lockedBy[n] = Null /\ lockedBy'[n] = h)
      /\ lockedBy'[n] # h => target'[n] = target[n] /\ refCount'[n] = refCount[n]
      /\ h # Null
  BY RefAssumption DEF Grows
<1>5. /\ TargetSeen(k, n)' = IF lockedBy'[n] = k THEN target'[n] ELSE BaseTarget(n)'
      /\ CountSeen(k, n)' = IF lockedBy'[n] = k THEN refCount'[n] ELSE BaseCount(n)'
  BY DEF TargetSeen, CountSeen
<1> HIDE DEF BaseTarget, BaseCount
<1> QED
  BY <1>1, <1>2, <1>3, <1>4, <1>5 DEF TargetSeen, CountSeen

(* And so does what is there for others. *)
LEMMA GrowAlive ==
  ASSUME RefInv, RefTypes', NEW h \in RefHandles, NEW t, Grows(h, t)
  PROVE  /\ \A k \in (RefHandles \cup {Null}) \ {h} : AliveTo(k)' = AliveTo(k)
         /\ AliveTo(h)' = AliveTo(h) \cup {n \in RefNodes : EntriesIn(t, "alloc", n) # {}}
         /\ \A k \in RefHandles \ {h} : Deleting(k)' = Deleting(k)
<1> DEFINE new == {n \in RefNodes : EntriesIn(t, "alloc", n) # {}}
<1>1. /\ nodesAlive' = nodesAlive \cup new /\ new \cap nodesAlive = {} /\ nodesAlive \subseteq RefNodes
      /\ \A n \in new : lockedBy[n] = Null
  BY DEF Grows, RefInv, RefTypes, LogsLocked
<1>2. \A k \in RefHandles \ {h} : undoLog'[k] = undoLog[k]
  BY GrowLog
<1>3. \A n, k : k \in RefHandles \ {h} => Entries(k, "alloc", n)' = Entries(k, "alloc", n)
  BY <1>2 DEF Entries
<1>4. \A n : Entries(h, "alloc", n)' = {} <=>
               Entries(h, "alloc", n) = {} /\ EntriesIn(t, "alloc", n) = {}
  BY GrowLog
<1>5. ASSUME NEW n \in new, NEW k \in RefHandles PROVE Entries(k, "alloc", n) = {}
  <2>1. lockedBy[n] # k
    BY <1>1, <1>5, RefAssumption
  <2> QED
    BY <2>1, OnlyLocked DEF RefInv
<1>6. ASSUME NEW k \in (RefHandles \cup {Null}) \ {h} PROVE AliveTo(k)' = AliveTo(k)
  <2>1. ASSUME NEW n \in new PROVE n \notin AliveTo(k)'
    <3>1. Entries(h, "alloc", n)' # {}
      BY <1>4, <2>1
    <3> QED
      BY <1>6, <3>1 DEF AliveTo
  <2>2. ASSUME NEW n \in nodesAlive, NEW g \in RefHandles
        PROVE  Entries(g, "alloc", n)' = {} <=> Entries(g, "alloc", n) = {}
    <3>1. EntriesIn(t, "alloc", n) = {}
      BY <1>1, <2>2
    <3> QED
      BY <1>3, <1>4, <2>2, <3>1
  <2>3. ASSUME NEW n \in nodesAlive PROVE n \in AliveTo(k)' <=> n \in AliveTo(k)
    BY <1>1, <2>2, <2>3 DEF AliveTo
  <2>4. AliveTo(k)' \subseteq nodesAlive \cup new /\ AliveTo(k) \subseteq nodesAlive
    BY <1>1 DEF AliveTo
  <2>5. \A n \in new : n \notin AliveTo(k)
    BY <1>1 DEF AliveTo
  <2> QED
    BY <2>1, <2>3, <2>4, <2>5
<1>7. AliveTo(h)' = AliveTo(h) \cup new
  <2>1. \A n, k : k \in RefHandles \ {h} => Entries(k, "alloc", n)' = Entries(k, "alloc", n)
    BY <1>3
  <2>2. AliveTo(h)' = {n \in nodesAlive \cup new : \A k \in RefHandles \ {h} : Entries(k, "alloc", n) = {}}
    BY <1>1, <2>1 DEF AliveTo
  <2>3. \A n \in new : \A k \in RefHandles \ {h} : Entries(k, "alloc", n) = {}
    BY <1>5
  <2> HIDE DEF new
  <2> QED
    BY <2>2, <2>3 DEF AliveTo
<1>8. \A k \in RefHandles \ {h} : Deleting(k)' = Deleting(k)
  BY <1>2 DEF Deleting
<1> QED
  BY <1>6, <1>7, <1>8

(* What others rely on is kept. *)
LEMMA GrowOthers ==
  ASSUME RefInv, RefTypes', NEW h \in RefHandles, NEW t, Grows(h, t),
         NEW k \in (RefHandles \cup {Null}) \ {h}
  PROVE  /\ ExactFor(k) => ExactFor(k)'
         /\ k # Null => FreeFrom(k)'
         /\ PointsAlive(k)'
<1>1. \A n \in RefNodes : /\ TargetSeen(k, n)' = TargetSeen(k, n)
                          /\ CountSeen(k, n)' = CountSeen(k, n)
  BY GrowSeen
<1>2. AliveTo(k)' = AliveTo(k) /\ AliveTo(k) \subseteq RefNodes
  BY GrowAlive DEF AliveTo, RefInv, RefTypes
<1>3. ASSUME ExactFor(k) PROVE ExactFor(k)'
  <2>1. ASSUME NEW m \in RefNodes
        PROVE  {n \in RefNodes : TargetSeen(k, n)' = m} = {n \in RefNodes : TargetSeen(k, n) = m}
    BY <1>1
  <2> QED
    BY <1>1, <1>3, <2>1 DEF ExactFor
<1>4. ASSUME k # Null PROVE FreeFrom(k)'
  <2>1. Deleting(k)' = Deleting(k)
    BY <1>4, GrowAlive
  <2> QED
    BY <1>1, <1>4, <2>1 DEF RefInv, DeletedFree, FreeFrom
<1>5. PointsAlive(k)'
  BY <1>1, <1>2 DEF RefInv, TargetsAlive, PointsAlive
<1> QED
  BY <1>3, <1>4, <1>5

(* A log may grow by entries about nodes its handle has locked. *)
LEMMA GrowLogsLocked ==
  ASSUME RefInv, RefTypes', NEW h \in RefHandles, NEW t, Grows(h, t)
  PROVE  LogsLocked'
<1>1. h # Null /\ undoLog'[h] = undoLog[h] \o t /\ undoLog[h] \in Seq(RefItem) /\ t \in Seq(RefItem)
  BY RefAssumption DEF RefInv, RefTypes, Grows
<1>2. \A k \in RefHandles \ {h} : undoLog'[k] = undoLog[k]
  BY GrowLog
<1>3. ASSUME NEW k \in RefHandles, NEW i \in DOMAIN undoLog'[k]
      PROVE  lockedBy'[undoLog'[k][i].node] = k
  <2>1. CASE k # h
    <3>1. undoLog'[k] = undoLog[k] /\ undoLog[k] \in Seq(RefItem)
      BY <1>2, <2>1 DEF RefInv, RefTypes
    <3>2. lockedBy[undoLog[k][i].node] = k /\ undoLog[k][i] \in RefItem
      BY <1>3, <3>1 DEF RefInv, LogsLocked
    <3> QED
      BY <2>1, <3>1, <3>2, RefAssumption DEF Grows, RefItem
  <2>2. CASE k = h
    <3>1. /\ Len(undoLog[h]) \in Nat /\ Len(t) \in Nat
          /\ DOMAIN undoLog[h] = 1 .. Len(undoLog[h]) /\ DOMAIN t = 1 .. Len(t)
          /\ DOMAIN undoLog'[h] = 1 .. Len(undoLog[h]) + Len(t)
          /\ undoLog'[h][i] = IF i <= Len(undoLog[h]) THEN undoLog[h][i] ELSE t[i - Len(undoLog[h])]
      BY <1>1, <1>3, <2>2, ConcatProperties
    <3>2. CASE i <= Len(undoLog[h])
      <4>1. i \in DOMAIN undoLog[h]
        BY <1>3, <2>2, <3>1, <3>2
      <4>2. lockedBy[undoLog[h][i].node] = h /\ undoLog[h][i] \in RefItem
        BY <1>1, <4>1 DEF RefInv, LogsLocked
      <4> QED
        BY <1>1, <2>2, <3>1, <3>2, <4>2 DEF Grows, RefItem
    <3>3. CASE ~(i <= Len(undoLog[h]))
      <4>1. i - Len(undoLog[h]) \in DOMAIN t
        BY <1>3, <2>2, <3>1, <3>3
      <4> QED
        BY <2>2, <3>1, <3>3, <4>1 DEF Grows
    <3> QED
      BY <3>2, <3>3
  <2> QED
    BY <2>1, <2>2
<1>4. ASSUME NEW k \in RefHandles, refStatus'[k] = "idle"
      PROVE  undoLog'[k] = <<>> /\ Held(k)' = {}
  <2>1. k # h /\ refStatus[k] = "idle"
    BY <1>4 DEF Grows
  <2>2. undoLog[k] = <<>> /\ \A n \in RefNodes : lockedBy[n] # k
    BY <2>1 DEF RefInv, LogsLocked, Held
  <2>3. \A n \in RefNodes : lockedBy'[n] # k
    BY <2>1, <2>2 DEF Grows
  <2> QED
    BY <1>2, <2>1, <2>2, <2>3 DEF Held
<1>5. ASSUME NEW n \in RefNodes \ usedNodes' PROVE lockedBy'[n] = Null /\ target'[n] = Null
  BY <1>1 DEF Grows, RefInv, LogsLocked
<1> QED
  BY <1>3, <1>4, <1>5 DEF LogsLocked

(* What is left to show of such a step. *)
LEMMA GrowInv ==
  ASSUME RefInv, RefTypes', NEW h \in RefHandles, NEW t, Grows(h, t),
         EndsLocked', refStatus'[h] = "run" => ExactFor(h)', FreeFrom(h)', PointsAlive(h)'
  PROVE  RefInv'
<1>1. \A k \in RefHandles \ {h} : refStatus'[k] = refStatus[k]
  BY DEF Grows
<1>2. CountsFit'
  <2> SUFFICES ASSUME NEW k \in RefHandles \cup {Null}, k # Null => refStatus'[k] = "run"
               PROVE  ExactFor(k)'
    BY DEF CountsFit
  <2>1. CASE k = h
    BY <2>1, RefAssumption
  <2>2. CASE k # h
    <3>1. ExactFor(k)
      BY <1>1, <2>2 DEF RefInv, CountsFit
    <3> QED
      BY <2>2, <3>1, GrowOthers
  <2> QED
    BY <2>1, <2>2
<1>3. DeletedFree'
  BY GrowOthers, RefAssumption DEF DeletedFree
<1>4. TargetsAlive'
  BY GrowOthers DEF TargetsAlive
<1> QED
  BY <1>2, <1>3, <1>4, GrowLogsLocked DEF RefInv

(* A step that changes no pointer. *)
LEMMA GrowStill ==
  ASSUME RefInv, RefTypes', NEW h \in RefHandles, NEW t, Grows(h, t), target' = target,
         refStatus'[h] = "run" => refCount' = refCount /\ ExactFor(h), FreeFrom(h)'
  PROVE  RefInv'
<1>1. \A n \in RefNodes : /\ BaseTarget(n)' = BaseTarget(n)
                          /\ TargetSeen(h, n)' = TargetSeen(h, n)
  BY GrowBase, GrowSeen
<1>2. EndsLocked'
  <2> SUFFICES ASSUME NEW n \in RefNodes, target'[n] # BaseTarget(n)',
                      NEW x \in {target'[n], BaseTarget(n)'} \ {Null}
               PROVE  lockedBy'[x] = lockedBy'[n]
    BY DEF EndsLocked
  <2>1. target[n] # BaseTarget(n) /\ x \in {target[n], BaseTarget(n)} \ {Null}
    BY <1>1
  <2>2. lockedBy[x] = lockedBy[n] /\ lockedBy[n] # Null
    BY <2>1 DEF RefInv, EndsLocked, BaseTarget
  <2>3. CASE x \in RefNodes
    BY <2>2, <2>3 DEF Grows
  <2>4. CASE x \notin RefNodes
    <3>1. target[n] \in RefNodes \cup {Null} /\ BaseTarget(n) \in RefNodes \cup {Null}
      BY BaseTypes DEF RefInv, RefTypes
    <3> QED
      BY <2>1, <2>4, <3>1
  <2> QED
    BY <2>3, <2>4
<1>3. ASSUME refStatus'[h] = "run" PROVE ExactFor(h)'
  <2>1. \A n \in RefNodes : CountSeen(h, n)' = CountSeen(h, n)
    BY <1>3, GrowSeen
  <2>2. ASSUME NEW m \in RefNodes
        PROVE  {n \in RefNodes : TargetSeen(h, n)' = m} = {n \in RefNodes : TargetSeen(h, n) = m}
    BY <1>1
  <2> QED
    BY <1>3, <2>1, <2>2 DEF ExactFor
<1>4. PointsAlive(h)'
  <2> SUFFICES ASSUME NEW n \in AliveTo(h)'
               PROVE  TargetSeen(h, n)' = Null \/ TargetSeen(h, n)' \in AliveTo(h)'
    BY DEF PointsAlive
  <2>1. AliveTo(h)' = AliveTo(h) \cup {m \in RefNodes : EntriesIn(t, "alloc", m) # {}}
    BY GrowAlive
  <2>2. CASE n \in AliveTo(h)
    BY <1>1, <2>1, <2>2 DEF RefInv, RefTypes, TargetsAlive, PointsAlive, AliveTo
  <2>3. CASE n \in RefNodes /\ EntriesIn(t, "alloc", n) # {}
    <3>1. lockedBy[n] = Null /\ target[n] = Null
      BY <2>3 DEF Grows, RefInv, LogsLocked
    <3> QED
      BY <1>1, <2>3, <3>1 DEF TargetSeen, BaseTarget
  <2> QED
    BY <2>1, <2>2, <2>3
<1> QED
  BY <1>2, <1>3, <1>4, GrowInv

-----------------------------------------------------------------------------
(* The operations of a running transaction *)

(* The log of the decrease of the count of an old target. *)
LEMMA DecreaseLogIs ==
  ASSUME RefTypes, NEW n \in RefNodes, NEW k \in RefNodes, NEW what, NEW x
  PROVE  /\ DecreaseLog(n) \in Seq(RefItem)
         /\ (EntriesIn(DecreaseLog(n), what, k) = {}) <=> ~(what = "raw" /\ k = target[n])
         /\ (what = "raw" /\ k = target[n]) => (OldIn(DecreaseLog(n), what, k, x) = refCount[k])
         /\ ~(what = "raw" /\ k = target[n]) => (OldIn(DecreaseLog(n), what, k, x) = x)
         /\ \A i \in DOMAIN DecreaseLog(n) : DecreaseLog(n)[i].node = target[n]
<1>1. CASE target[n] = Null
  <2>1. DecreaseLog(n) = <<>> /\ target[n] \notin RefNodes
    BY <1>1, RefAssumption DEF DecreaseLog
  <2>2. EntriesIn(<<>>, what, k) = {} /\ OldIn(<<>>, what, k, x) = x
    BY OldEmpty
  <2> QED
    BY <2>1, <2>2
<1>2. CASE target[n] # Null
  <2> DEFINE a == Raw(target[n])
  <2>1. /\ target[n] \in RefNodes /\ refCount[target[n]] \in Int
        /\ DecreaseLog(n) = <<a>>
    BY <1>2 DEF DecreaseLog, RefTypes
  <2>2. a.what = "raw" /\ a.node = target[n] /\ a.old = refCount[target[n]] /\ a \in RefItem
    BY <2>1 DEF Raw, RefItem
  <2> HIDE DEF a
  <2>3. /\ (a.what = what /\ a.node = k) =>
             (EntriesIn(<<a>>, what, k) = {1} /\ OldIn(<<a>>, what, k, x) = a.old)
        /\ ~(a.what = what /\ a.node = k) =>
             (EntriesIn(<<a>>, what, k) = {} /\ OldIn(<<a>>, what, k, x) = x)
    BY OldSingle
  <2>4. \A i \in DOMAIN <<a>> : <<a>>[i].node = target[n]
    BY <2>2
  <2>5. <<a>> \in Seq(RefItem)
    BY <2>2
  <2> QED
    BY <2>1, <2>2, <2>3, <2>4, <2>5
<1> QED
  BY <1>1, <1>2

(* A node that a transaction has found and can lock is there: if it had been
   deleted since, it would be too new. *)
LEMMA KnownAlive ==
  ASSUME FoundInv, NEW h \in RefHandles, Running(h), NEW n \in Known(h), Locks(h, n)
  PROVE  n \in nodesAlive
<1>1. n \in found[h] /\ n \in RefNodes /\ refStatus[h] # "idle" /\ h # Null
  BY RefAssumption DEF FoundInv, Known, Running
<1>2. n \in nodesAlive \/ n \in tooNew[h]
  BY <1>1 DEF FoundInv
<1>3. lockedBy[n] # Null => n \in nodesAlive
  BY <1>1 DEF FoundInv
<1> QED
  BY <1>1, <1>2, <1>3 DEF Locks

(* A node that is there and that a transaction can lock is there for it as it
   is. *)
LEMMA KnownIs ==
  ASSUME RefInv, NEW h \in RefHandles, NEW n \in nodesAlive, Locks(h, n)
  PROVE  /\ n \in RefNodes /\ n \in usedNodes /\ n \in AliveTo(h)
         /\ lockedBy[n] = h \/ lockedBy[n] = Null
         /\ TargetSeen(h, n) = target[n] /\ CountSeen(h, n) = refCount[n]
         /\ target[n] \in AliveTo(h) \cup {Null}
<1>1. n \in RefNodes /\ n \in usedNodes /\ (lockedBy[n] = h \/ lockedBy[n] = Null)
  BY DEF RefInv, RefTypes, Locks
<1>2. TargetSeen(h, n) = target[n] /\ CountSeen(h, n) = refCount[n]
  BY <1>1 DEF TargetSeen, CountSeen, BaseTarget, BaseCount
<1>3. \A k \in RefHandles \ {h} : Entries(k, "alloc", n) = {}
  BY <1>1, OnlyLocked, RefAssumption DEF RefInv
<1>4. n \in AliveTo(h)
  BY <1>3 DEF AliveTo
<1>5. target[n] \in AliveTo(h) \cup {Null}
  BY <1>2, <1>4 DEF RefInv, TargetsAlive, PointsAlive
<1> QED
  BY <1>1, <1>2, <1>4, <1>5

(* What a handle deletes is in its log, and locked. *)
LEMMA DeletingIs ==
  ASSUME NEW h, NEW n
  PROVE  n \in Deleting(h) <=> Entries(h, "delete", n) # {}
BY DEF Deleting, Entries

(* A node that is being deleted is locked by its deleter. *)
LEMMA DeletingLocked ==
  ASSUME LogsLocked, NEW h \in RefHandles, NEW n \in Deleting(h)
  PROVE  lockedBy[n] = h
BY DEF LogsLocked, Deleting

(* What a longer log deletes. *)
LEMMA GrowDeleting ==
  ASSUME RefInv, RefTypes', NEW h \in RefHandles, NEW t, Grows(h, t), NEW n
  PROVE  n \in Deleting(h)' <=> n \in Deleting(h) \/ EntriesIn(t, "delete", n) # {}
<1>1. n \in Deleting(h)' <=> Entries(h, "delete", n)' # {}
  BY DEF Deleting, Entries
<1>2. (Entries(h, "delete", n)' = {}) <=> (Entries(h, "delete", n) = {} /\ EntriesIn(t, "delete", n) = {})
  BY GrowLog
<1> QED
  BY <1>1, <1>2, DeletingIs

(* A step that deletes nothing and changes no pointer keeps what is deleted
   free. *)
LEMMA GrowFree ==
  ASSUME RefInv, RefTypes', NEW h \in RefHandles, NEW t, Grows(h, t), target' = target,
         \A n \in RefNodes : EntriesIn(t, "delete", n) = {}
  PROVE  FreeFrom(h)'
<1> SUFFICES ASSUME NEW x \in Deleting(h)', NEW n \in RefNodes
             PROVE  TargetSeen(h, n)' # x
  BY DEF FreeFrom
<1>1. TargetSeen(h, n)' = TargetSeen(h, n)
  BY GrowSeen
<1>2. x \in Deleting(h) \/ EntriesIn(t, "delete", x) # {}
  BY GrowDeleting
<1>3. CASE x \in Deleting(h)
  BY <1>1, <1>3 DEF RefInv, DeletedFree, FreeFrom
<1>4. CASE x \notin Deleting(h)
  <2>1. x \notin RefNodes
    BY <1>2, <1>4
  <2>2. PICK i \in DOMAIN undoLog'[h] : undoLog'[h][i].node = x
    BY DEF Deleting
  <2>3. undoLog'[h] \in Seq(RefItem)
    BY DEF RefTypes
  <2>4. undoLog'[h][i] \in RefItem
    BY <2>2, <2>3
  <2> QED
    BY <2>1, <2>2, <2>4 DEF RefItem
<1> QED
  BY <1>3, <1>4

(* Begin: what the handle sees is what all leave by aborting. *)
LEMMA BeginKeeps ==
  ASSUME RefInv, RefTypes', NEW h \in RefHandles, RefBegin(h)
  PROVE  RefInv'
<1>1. /\ undoLog[h] = <<>> /\ Held(h) = {} /\ undoLog \in [RefHandles -> Seq(RefItem)]
      /\ refStatus[h] = "idle" /\ refStatus' = [refStatus EXCEPT ![h] = "run"]
      /\ refStatus \in [RefHandles -> {"idle", "run", "failed"}]
      /\ UNCHANGED <<usedNodes, nodesAlive, target, refCount, lockedBy, undoLog>>
  BY DEF RefInv, RefTypes, LogsLocked, RefBegin, memVars
<1>2. Grows(h, <<>>)
  <2>1. <<>> \in Seq(RefItem)
    OBVIOUS
  <2>2. <<>> \o <<>> = <<>>
    OBVIOUS
  <2>3. undoLog' = [undoLog EXCEPT ![h] = @ \o <<>>]
    BY <1>1, <2>2
  <2>4. \A what, n, x : EntriesIn(<<>>, what, n) = {} /\ OldIn(<<>>, what, n, x) = x
    BY OldEmpty
  <2>5. refStatus'[h] # "idle" /\ \A k \in RefHandles \ {h} : refStatus'[k] = refStatus[k]
    BY <1>1
  <2> QED
    <3>1. \A i \in DOMAIN <<>> : lockedBy'[<<>>[i].node] = h
      OBVIOUS
    <3>2. nodesAlive' = nodesAlive \cup {n \in RefNodes : EntriesIn(<<>>, "alloc", n) # {}}
      BY <1>1, <2>4
    <3>3. \A n \in RefNodes : /\ OldIn(<<>>, "modify", n, target'[n]) = target[n]
                              /\ OldIn(<<>>, "raw", n, refCount'[n]) = refCount[n]
                              /\ EntriesIn(<<>>, "alloc", n) # {} => n \notin usedNodes
      BY <1>1, <2>4
    <3>4. /\ \A n \in RefNodes : lockedBy'[n] = lockedBy[n] \/ (lockedBy[n] = Null /\ lockedBy'[n] = h)
          /\ \A n \in RefNodes : lockedBy'[n] # h => target'[n] = target[n] /\ refCount'[n] = refCount[n]
          /\ \A n \in RefNodes : lockedBy'[n] = lockedBy[n] \/ n \in usedNodes'
          /\ usedNodes \subseteq usedNodes'
      BY <1>1
    <3> QED
      BY <2>1, <2>3, <2>5, <3>1, <3>2, <3>3, <3>4, Zenon DEF Grows
<1>3. \A n \in RefNodes : /\ TargetSeen(h, n) = TargetSeen(Null, n)
                          /\ CountSeen(h, n) = CountSeen(Null, n)
  BY <1>1 DEF TargetSeen, CountSeen, BaseTarget, BaseCount, Held
<1>4. ExactFor(Null)
  BY DEF RefInv, CountsFit
<1>5. ExactFor(h)
  <2>1. \A m \in RefNodes : {n \in RefNodes : TargetSeen(h, n) = m} = {n \in RefNodes : TargetSeen(Null, n) = m}
    BY <1>3
  <2> QED
    BY <1>3, <1>4, <2>1 DEF ExactFor
<1>6. FreeFrom(h)'
  BY <1>1, <1>2, GrowFree, OldEmpty
<1> QED
  BY <1>1, <1>2, <1>5, <1>6, GrowStill

(* A new node points nowhere. *)
LEMMA CreateKeeps ==
  ASSUME RefInv, RefTypes', NEW h \in RefHandles, NEW n \in RefNodes, CreateNode(h, n)
  PROVE  RefInv'
<1> DEFINE t == <<Alloc(n)>>
<1>1. /\ lockedBy[n] = Null /\ refStatus[h] = "run" /\ n \notin usedNodes
      /\ usedNodes' = usedNodes \cup {n} /\ nodesAlive' = nodesAlive \cup {n}
      /\ lockedBy' = [k \in RefNodes |-> IF k \in {n} THEN h ELSE lockedBy[k]]
      /\ undoLog' = [undoLog EXCEPT ![h] = @ \o t]
      /\ target' = target /\ refCount' = refCount /\ refStatus' = refStatus
  BY DEF RefInv, LogsLocked, CreateNode, Running, Taken, Logged, memVars
<1>2. Alloc(n) \in RefItem /\ Alloc(n).what = "alloc" /\ Alloc(n).node = n
  BY DEF Alloc, RefItem
<1>3. \A k, x : /\ OldIn(t, "modify", k, x) = x /\ OldIn(t, "raw", k, x) = x
                /\ (EntriesIn(t, "alloc", k) # {}) <=> (k = n)
                /\ EntriesIn(t, "delete", k) = {}
  <2> DEFINE a == Alloc(n)
  <2>1. a.what = "alloc" /\ a.node = n
    BY <1>2
  <2> HIDE DEF a
  <2> SUFFICES ASSUME NEW k, NEW x
               PROVE  /\ OldIn(<<a>>, "modify", k, x) = x /\ OldIn(<<a>>, "raw", k, x) = x
                      /\ (EntriesIn(<<a>>, "alloc", k) # {}) <=> (k = n)
                      /\ EntriesIn(<<a>>, "delete", k) = {}
    BY DEF a
  <2>2. ASSUME NEW what
        PROVE  /\ (a.what = what /\ a.node = k) => (EntriesIn(<<a>>, what, k) = {1})
               /\ ~(a.what = what /\ a.node = k) =>
                    (EntriesIn(<<a>>, what, k) = {} /\ OldIn(<<a>>, what, k, x) = x)
    BY OldSingle
  <2> QED
    BY <2>1, <2>2
<1>4. t \in Seq(RefItem) /\ \A i \in DOMAIN t : t[i].node = n
  BY <1>2
<1> HIDE DEF t
<1>5. Grows(h, t)
  BY <1>1, <1>3, <1>4 DEF Grows
<1>6. FreeFrom(h)'
  BY <1>1, <1>3, <1>5, GrowFree
<1>7. ExactFor(h)
  BY <1>1 DEF RefInv, CountsFit
<1> QED
  BY <1>1, <1>5, <1>6, <1>7, GrowStill

(* What the step of a write has in common, whether it succeeds or not. *)
LEMMA TakesAre ==
  ASSUME RefInv, NEW h \in RefHandles, NEW n \in nodesAlive, Locks(h, n), Releases(h, n)
  PROVE  \A x \in OldTarget(n) : /\ x = target[n] /\ x \in RefNodes /\ x \in usedNodes
                                 /\ lockedBy[x] = h \/ lockedBy[x] = Null
                                 /\ CountSeen(h, x) = refCount[x]
<1> SUFFICES ASSUME NEW x \in OldTarget(n)
             PROVE  /\ x = target[n] /\ x \in RefNodes /\ x \in usedNodes
                    /\ lockedBy[x] = h \/ lockedBy[x] = Null
                    /\ CountSeen(h, x) = refCount[x]
  OBVIOUS
<1>1. x = target[n] /\ x # Null /\ Locks(h, x)
  BY DEF OldTarget, Releases
<1>2. x \in AliveTo(h)
  BY <1>1, KnownIs
<1>3. x \in nodesAlive
  BY <1>2 DEF AliveTo
<1> QED
  BY <1>1, <1>3, KnownIs

(* A write that fails half way leaves what an abort can restore. *)
LEMMA WriteFailsKeeps ==
  ASSUME RefInv, FoundInv, RefTypes', NEW h \in RefHandles, NEW n \in RefNodes, NEW m \in RefNodes,
         WritePointerFails(h, n, m)
  PROVE  RefInv'
<1>1. /\ Locks(h, n) => n \in nodesAlive
      /\ refStatus[h] = "run" /\ refStatus' = [refStatus EXCEPT ![h] = "failed"]
      /\ usedNodes' = usedNodes /\ nodesAlive' = nodesAlive /\ target' = target
      /\ refStatus \in [RefHandles -> {"idle", "run", "failed"}]
      /\ undoLog \in [RefHandles -> Seq(RefItem)]
  <2>1. Running(h) /\ n \in Known(h)
    BY DEF WritePointerFails
  <2> QED
    BY <2>1, KnownAlive DEF WritePointerFails, Running, Fails, RefInv, RefTypes
<1>2. refStatus'[h] = "failed" /\ \A k \in RefHandles \ {h} : refStatus'[k] = refStatus[k]
  BY <1>1
<1>3. /\ <<>> \in Seq(RefItem) /\ (undoLog' = undoLog => undoLog' = [undoLog EXCEPT ![h] = @ \o <<>>])
      /\ \A what, k, x : EntriesIn(<<>>, what, k) = {} /\ OldIn(<<>>, what, k, x) = x
  <2>1. undoLog[h] \o <<>> = undoLog[h]
    BY <1>1
  <2>2. \A what, k, x : EntriesIn(<<>>, what, k) = {} /\ OldIn(<<>>, what, k, x) = x
    BY OldEmpty
  <2>3. undoLog' = undoLog => undoLog' = [undoLog EXCEPT ![h] = @ \o <<>>]
    BY <1>1, <2>1
  <2> QED
    BY <2>2, <2>3
<1>4. ASSUME NEW t, Grows(h, t), \A k \in RefNodes : EntriesIn(t, "delete", k) = {}
      PROVE  RefInv'
  <2>1. FreeFrom(h)'
    BY <1>1, <1>4, GrowFree
  <2> QED
    BY <1>1, <1>2, <1>4, <2>1, GrowStill
<1>5. CASE ~Locks(h, n) /\ UNCHANGED <<lockedBy, refCount, undoLog>>
  <2>1. Grows(h, <<>>)
    BY <1>1, <1>2, <1>3, <1>5 DEF Grows
  <2> QED
    BY <1>3, <1>4, <2>1
<1>6. CASE Locks(h, n) /\ Taken(h, {n}) /\ UNCHANGED <<refCount, undoLog>>
  <2>1. n \in usedNodes /\ (lockedBy[n] = h \/ lockedBy[n] = Null)
    BY <1>1, <1>6, KnownIs
  <2>2. Grows(h, <<>>)
    BY <1>1, <1>2, <1>3, <1>6, <2>1 DEF Grows, Taken
  <2> QED
    BY <1>3, <1>4, <2>2
<1>7. CASE /\ Locks(h, n) /\ Releases(h, n)
           /\ Taken(h, {n} \cup OldTarget(n))
           /\ refCount' = Decreased(n)
           /\ Logged(h, DecreaseLog(n))
  <2> DEFINE t == DecreaseLog(n)
  <2>1. n \in usedNodes /\ (lockedBy[n] = h \/ lockedBy[n] = Null)
    BY <1>1, <1>7, KnownIs
  <2>2. \A x \in OldTarget(n) : x \in RefNodes /\ x \in usedNodes /\ (lockedBy[x] = h \/ lockedBy[x] = Null)
    BY <1>1, <1>7, TakesAre
  <2>3. RefTypes
    BY DEF RefInv
  <2>4. /\ t \in Seq(RefItem)
        /\ \A i \in DOMAIN t : t[i].node = target[n]
    BY <2>3, DecreaseLogIs
  <2>5. \A k \in RefNodes : \A x : /\ OldIn(t, "modify", k, x) = x
                                   /\ k = target[n] => OldIn(t, "raw", k, x) = refCount[k]
                                   /\ k # target[n] => OldIn(t, "raw", k, x) = x
    <3> SUFFICES ASSUME NEW k \in RefNodes, NEW x
                 PROVE  /\ OldIn(t, "modify", k, x) = x
                        /\ k = target[n] => OldIn(t, "raw", k, x) = refCount[k]
                        /\ k # target[n] => OldIn(t, "raw", k, x) = x
      OBVIOUS
    <3>1. /\ ~("modify" = "raw" /\ k = target[n]) => OldIn(t, "modify", k, x) = x
          /\ ("raw" = "raw" /\ k = target[n]) => OldIn(t, "raw", k, x) = refCount[k]
          /\ ~("raw" = "raw" /\ k = target[n]) => OldIn(t, "raw", k, x) = x
      BY <2>3, DecreaseLogIs
    <3> QED
      BY <3>1
  <2>6. \A k \in RefNodes : EntriesIn(t, "alloc", k) = {} /\ EntriesIn(t, "delete", k) = {}
    BY <2>3, DecreaseLogIs
  <2>7. \A k \in RefNodes : /\ k = target[n] => k \in OldTarget(n)
                            /\ k # target[n] => refCount'[k] = refCount[k]
    BY <1>7, RefAssumption DEF OldTarget, Decreased
  <2>8. \A k \in RefNodes : OldIn(t, "raw", k, refCount'[k]) = refCount[k]
    BY <2>5, <2>7
  <2>9. undoLog' = [undoLog EXCEPT ![h] = @ \o t]
    BY <1>7 DEF Logged
  <2>10. \A k \in RefNodes : lockedBy'[k] = IF k \in {n} \cup OldTarget(n) THEN h ELSE lockedBy[k]
    BY <1>7 DEF Taken
  <2>11. \A i \in DOMAIN t : lockedBy'[t[i].node] = h
    <3>1. CASE target[n] = Null
      BY <3>1 DEF DecreaseLog
    <3>2. CASE target[n] # Null
      BY <2>3, <2>4, <2>7, <2>10, <3>2 DEF RefTypes
    <3> QED
      BY <3>1, <3>2
  <2> HIDE DEF t
  <2>12. Grows(h, t)
    BY <1>1, <1>2, <2>1, <2>2, <2>4, <2>5, <2>6, <2>7, <2>8, <2>9, <2>10, <2>11 DEF Grows
  <2> QED
    BY <1>4, <2>6, <2>12
<1> QED
  BY <1>5, <1>6, <1>7 DEF WritePointerFails

(* A step that takes only the lock of a node. *)
LEMMA LockKeeps ==
  ASSUME RefInv, RefTypes', NEW h \in RefHandles, NEW n \in nodesAlive, Locks(h, n), Taken(h, {n}),
         refStatus[h] = "run", UNCHANGED <<usedNodes, nodesAlive, target, refCount, refStatus, undoLog>>
  PROVE  RefInv'
<1>1. n \in usedNodes /\ (lockedBy[n] = h \/ lockedBy[n] = Null)
  BY KnownIs
<1>2. undoLog \in [RefHandles -> Seq(RefItem)] /\ undoLog[h] \in Seq(RefItem)
  BY DEF RefInv, RefTypes
<1>3. undoLog[h] \o <<>> = undoLog[h]
  BY <1>2
<1>4. undoLog' = [undoLog EXCEPT ![h] = @ \o <<>>]
  BY <1>2, <1>3
<1>5. \A what, k, x : EntriesIn(<<>>, what, k) = {} /\ OldIn(<<>>, what, k, x) = x
  BY OldEmpty
<1>6. /\ \A k \in RefNodes : /\ OldIn(<<>>, "modify", k, target'[k]) = target[k]
                             /\ OldIn(<<>>, "raw", k, refCount'[k]) = refCount[k]
                             /\ EntriesIn(<<>>, "alloc", k) # {} => k \notin usedNodes
      /\ nodesAlive' = nodesAlive \cup {k \in RefNodes : EntriesIn(<<>>, "alloc", k) # {}}
  BY <1>5
<1>7. /\ \A k \in RefNodes : lockedBy'[k] = lockedBy[k] \/ (lockedBy[k] = Null /\ lockedBy'[k] = h)
      /\ \A k \in RefNodes : lockedBy'[k] # h => target'[k] = target[k] /\ refCount'[k] = refCount[k]
      /\ \A k \in RefNodes : lockedBy'[k] = lockedBy[k] \/ k \in usedNodes'
      /\ usedNodes \subseteq usedNodes'
      /\ refStatus'[h] # "idle" /\ \A k \in RefHandles \ {h} : refStatus'[k] = refStatus[k]
  BY <1>1 DEF Taken
<1>8. <<>> \in Seq(RefItem) /\ \A i \in DOMAIN <<>> : lockedBy'[<<>>[i].node] = h
  OBVIOUS
<1>9. Grows(h, <<>>)
  BY <1>4, <1>6, <1>7, <1>8, Zenon DEF Grows
<1>10. ExactFor(h)
  BY DEF RefInv, CountsFit
<1>11. FreeFrom(h)'
  BY <1>5, <1>9, GrowFree
<1> QED
  BY <1>9, <1>10, <1>11, GrowStill

(* Nothing points to a node whose count is zero. *)
LEMMA NobodyPoints ==
  ASSUME RefInv, NEW h \in RefHandles, NEW n \in nodesAlive, Locks(h, n), refStatus[h] = "run",
         refCount[n] = 0
  PROVE  \A k \in RefNodes : TargetSeen(h, k) # n
<1>1. n \in RefNodes /\ CountSeen(h, n) = 0
  BY KnownIs
<1>2. ExactFor(h)
  BY DEF RefInv, CountsFit
<1> DEFINE S == {k \in RefNodes : TargetSeen(h, k) = n}
<1>3. Cardinality(S) = 0
  BY <1>1, <1>2 DEF ExactFor
<1>4. IsFiniteSet(S)
  BY FS_Subset, RefAssumption
<1>5. S = {}
  BY <1>3, <1>4, FS_EmptySet
<1> QED
  BY <1>5

(* tr_node_delete: nobody points to a node whose count is 0. *)
LEMMA DeleteKeeps ==
  ASSUME RefInv, FoundInv, RefTypes', NEW h \in RefHandles, NEW n \in RefNodes, DeleteNode(h, n)
  PROVE  RefInv'
<1> DEFINE t == <<Delete(n)>>
<1>1. /\ n \in nodesAlive /\ Locks(h, n) /\ Taken(h, {n}) /\ refStatus[h] = "run" /\ refCount[n] = 0
      /\ UNCHANGED <<usedNodes, nodesAlive, target, refCount, refStatus>>
      /\ undoLog' = undoLog \/ undoLog' = [undoLog EXCEPT ![h] = @ \o t]
  BY KnownAlive DEF DeleteNode, Running, memVars, Logged
<1>2. CASE undoLog' = undoLog
  BY <1>1, <1>2, LockKeeps
<1>3. CASE undoLog' = [undoLog EXCEPT ![h] = @ \o t]
  <2>1. n \in usedNodes /\ (lockedBy[n] = h \/ lockedBy[n] = Null)
    BY <1>1, KnownIs
  <2>2. Delete(n) \in RefItem /\ Delete(n).what = "delete" /\ Delete(n).node = n
    BY DEF Delete, RefItem
  <2>3. \A k, x : /\ OldIn(t, "modify", k, x) = x /\ OldIn(t, "raw", k, x) = x
                  /\ EntriesIn(t, "alloc", k) = {}
                  /\ EntriesIn(t, "delete", k) # {} => k = n
    <3> DEFINE a == Delete(n)
    <3>1. a.what = "delete" /\ a.node = n
      BY <2>2
    <3> HIDE DEF a
    <3> SUFFICES ASSUME NEW k, NEW x
                 PROVE  /\ OldIn(<<a>>, "modify", k, x) = x /\ OldIn(<<a>>, "raw", k, x) = x
                        /\ EntriesIn(<<a>>, "alloc", k) = {}
                        /\ EntriesIn(<<a>>, "delete", k) # {} => k = n
      BY DEF a
    <3>2. ASSUME NEW what, ~(a.what = what /\ a.node = k)
          PROVE  EntriesIn(<<a>>, what, k) = {} /\ OldIn(<<a>>, what, k, x) = x
      BY <3>2, OldSingle
    <3> QED
      BY <3>1, <3>2
  <2>4. t \in Seq(RefItem) /\ \A i \in DOMAIN t : t[i].node = n
    BY <2>2
  <2> HIDE DEF t
  <2>5. /\ \A k \in RefNodes : /\ OldIn(t, "modify", k, target'[k]) = target[k]
                               /\ OldIn(t, "raw", k, refCount'[k]) = refCount[k]
                               /\ EntriesIn(t, "alloc", k) # {} => k \notin usedNodes
        /\ nodesAlive' = nodesAlive \cup {k \in RefNodes : EntriesIn(t, "alloc", k) # {}}
    BY <1>1, <2>3
  <2>6. /\ \A k \in RefNodes : lockedBy'[k] = lockedBy[k] \/ (lockedBy[k] = Null /\ lockedBy'[k] = h)
        /\ \A k \in RefNodes : lockedBy'[k] # h => target'[k] = target[k] /\ refCount'[k] = refCount[k]
        /\ \A k \in RefNodes : lockedBy'[k] = lockedBy[k] \/ k \in usedNodes'
        /\ usedNodes \subseteq usedNodes'
        /\ refStatus'[h] # "idle" /\ \A k \in RefHandles \ {h} : refStatus'[k] = refStatus[k]
        /\ \A i \in DOMAIN t : lockedBy'[t[i].node] = h
    BY <1>1, <2>1, <2>4 DEF Taken
  <2>7. Grows(h, t)
    BY <1>3, <2>4, <2>5, <2>6, Zenon DEF Grows
  <2>8. ExactFor(h)
    BY <1>1 DEF RefInv, CountsFit
  <2>9. FreeFrom(h)'
    <3> SUFFICES ASSUME NEW x \in Deleting(h)', NEW k \in RefNodes PROVE TargetSeen(h, k)' # x
      BY DEF FreeFrom
    <3>1. TargetSeen(h, k)' = TargetSeen(h, k)
      BY <1>1, <2>7, GrowSeen
    <3>2. x \in Deleting(h) \/ EntriesIn(t, "delete", x) # {}
      BY <2>7, GrowDeleting
    <3>3. x \in Deleting(h) \/ x = n
      BY <2>3, <3>2
    <3>4. CASE x \in Deleting(h)
      BY <3>1, <3>4 DEF RefInv, DeletedFree, FreeFrom
    <3>5. CASE x = n
      BY <1>1, <3>1, <3>5, NobodyPoints
    <3> QED
      BY <3>3, <3>4, <3>5
  <2> QED
    BY <1>1, <2>7, <2>8, <2>9, GrowStill
<1> QED
  BY <1>1, <1>2, <1>3

(* The nodes that point to x. *)
PointingIn(f, x) == {k \in RefNodes : f[k] = x}

(* From f to g one less points to x, one more, or as many, as n does. *)
CountMoves(f, g, n, x) ==
  \E a, b \in Nat :
    /\ a = Cardinality(PointingIn(f, x)) /\ b = Cardinality(PointingIn(g, x))
    /\ (f[n] = x /\ g[n] # x) => b = a - 1
    /\ (f[n] # x /\ g[n] = x) => b = a + 1
    /\ ((f[n] = x) <=> (g[n] = x)) => b = a

(* One pointer of many is changed. *)
LEMMA CountOneMoved ==
  ASSUME NEW f, NEW g, NEW n \in RefNodes, \A k \in RefNodes \ {n} : g[k] = f[k], NEW x
  PROVE  CountMoves(f, g, n, x)
<1> DEFINE old == PointingIn(f, x)
           new == PointingIn(g, x)
<1>1. IsFiniteSet(old) /\ IsFiniteSet(new) /\ Cardinality(old) \in Nat /\ Cardinality(new) \in Nat
  <2>1. old \subseteq RefNodes /\ new \subseteq RefNodes
    BY DEF PointingIn
  <2> QED
    BY <2>1, FS_Subset, FS_CardinalityType, RefAssumption
<1>2. ASSUME f[n] = x, g[n] # x PROVE Cardinality(new) = Cardinality(old) - 1
  <2>1. new = old \ {n} /\ n \in old
    BY <1>2 DEF PointingIn
  <2> QED
    BY <1>1, <2>1, FS_RemoveElement
<1>3. ASSUME f[n] # x, g[n] = x PROVE Cardinality(new) = Cardinality(old) + 1
  <2>1. new = old \cup {n} /\ n \notin old
    BY <1>3 DEF PointingIn
  <2> QED
    BY <1>1, <2>1, FS_AddElement
<1>4. ASSUME (f[n] = x) <=> (g[n] = x) PROVE Cardinality(new) = Cardinality(old)
  <2>1. new = old
    BY <1>4 DEF PointingIn
  <2> QED
    BY <2>1
<1> QED
  BY <1>1, <1>2, <1>3, <1>4 DEF CountMoves

(* Two entries are one after the other. *)
LEMMA PairIs ==
  ASSUME NEW a \in RefItem, NEW b \in RefItem
  PROVE  <<a, b>> = Then(<<a>>, <<b>>)
<1>1. <<a>> \in Seq(RefItem) /\ <<b>> \in Seq(RefItem) /\ <<a, b>> \in Seq(RefItem)
  OBVIOUS
<1>2. <<a>> \o <<b>> \in Seq(RefItem) /\ Len(<<a>> \o <<b>>) = 2
      /\ (<<a>> \o <<b>>)[1] = a /\ (<<a>> \o <<b>>)[2] = b
  BY <1>1, ConcatProperties
<1>3. Len(<<a, b>>) = 2 /\ <<a, b>>[1] = a /\ <<a, b>>[2] = b
  OBVIOUS
<1>4. \A i \in 1 .. 2 : i = 1 \/ i = 2
  OBVIOUS
<1> QED
  BY <1>1, <1>2, <1>3, <1>4, SeqEqual DEF Then

(* The entries of a log that goes on twice. *)
LEMMA OldTwice ==
  ASSUME NEW d \in Seq(RefItem), NEW u \in Seq(RefItem), NEW v \in Seq(RefItem), NEW what, NEW n, NEW x
  PROVE  /\ Then(d, Then(u, v)) \in Seq(RefItem)
         /\ (EntriesIn(Then(d, Then(u, v)), what, n) = {}) <=>
              (EntriesIn(d, what, n) = {} /\ EntriesIn(u, what, n) = {} /\ EntriesIn(v, what, n) = {})
         /\ OldIn(Then(d, Then(u, v)), what, n, x) =
              OldIn(d, what, n, OldIn(u, what, n, OldIn(v, what, n, x)))
<1>3. PICK w \in Seq(RefItem) : w = Then(u, v)
  BY OldConcat
<1>4. OldIn(Then(u, v), what, n, x) = OldIn(u, what, n, OldIn(v, what, n, x))
  BY OldConcat
<1>5. OldIn(Then(d, w), what, n, x) = OldIn(d, what, n, OldIn(w, what, n, x)) /\ Then(d, w) \in Seq(RefItem)
  BY OldConcat
<1>6. (EntriesIn(Then(u, v), what, n) = {}) <=> (EntriesIn(u, what, n) = {} /\ EntriesIn(v, what, n) = {})
  BY OldConcat
<1>7. (EntriesIn(Then(d, w), what, n) = {}) <=> (EntriesIn(d, what, n) = {} /\ EntriesIn(w, what, n) = {})
  BY OldConcat
<1> QED
  BY <1>3, <1>4, <1>5, <1>6, <1>7

(* A write takes the count from the old target and gives it to the new one. *)
LEMMA WriteKeeps ==
  ASSUME RefInv, FoundInv, RefTypes', NEW h \in RefHandles, NEW n \in RefNodes, NEW m \in RefNodes,
         WritePointer(h, n, m)
  PROVE  RefInv'
<1> DEFINE r == [Raw(m) EXCEPT !.old = Decreased(n)[m]]
           q == Modify(n)
           d == DecreaseLog(n)
           t == Then(d, <<r, q>>)
<1>1. /\ n \in nodesAlive /\ m \in nodesAlive /\ m \notin Deleting(h)
      /\ Locks(h, n) /\ Releases(h, n) /\ Locks(h, m)
      /\ refStatus[h] = "run" /\ refStatus' = refStatus
      /\ usedNodes' = usedNodes /\ nodesAlive' = nodesAlive
      /\ target' = [target EXCEPT ![n] = m]
      /\ refCount' = [Decreased(n) EXCEPT ![m] = @ + 1]
      /\ undoLog' = [undoLog EXCEPT ![h] = @ \o (d \o <<r, q>>)]
  <2>1. Running(h) /\ n \in Known(h) /\ m \in Known(h) /\ Locks(h, n) /\ Locks(h, m)
    BY DEF WritePointer
  <2>2. m \notin Deleting(h)
    BY <2>1 DEF Known
  <2> QED
    BY <2>1, <2>2, KnownAlive DEF WritePointer, Running, Logged
<1>2. /\ target \in [RefNodes -> RefNodes \cup {Null}] /\ refCount \in [RefNodes -> Int]
      /\ RefTypes /\ h # Null /\ Null \notin RefNodes
  BY RefAssumption DEF RefInv, RefTypes
<1>3. /\ n \in usedNodes /\ (lockedBy[n] = h \/ lockedBy[n] = Null)
      /\ m \in usedNodes /\ (lockedBy[m] = h \/ lockedBy[m] = Null)
      /\ m \in AliveTo(h) /\ TargetSeen(h, n) = target[n]
      /\ CountSeen(h, m) = refCount[m]
  BY <1>1, KnownIs
<1>4. \A x \in OldTarget(n) : /\ x \in RefNodes /\ x \in usedNodes /\ x = target[n]
                              /\ lockedBy[x] = h \/ lockedBy[x] = Null
                              /\ CountSeen(h, x) = refCount[x]
  BY <1>1, TakesAre
<1>5. \A k \in RefNodes : k \in OldTarget(n) <=> k = target[n]
  BY <1>2 DEF OldTarget
<1>6. \A k \in RefNodes : lockedBy'[k] = IF k = n \/ k = m \/ k = target[n] THEN h ELSE lockedBy[k]
  BY <1>5 DEF WritePointer, Taken
<1>7. \A k \in RefNodes : target'[k] = IF k = n THEN m ELSE target[k]
  BY <1>1, <1>2
<1>8. /\ Decreased(n) \in [RefNodes -> Int]
      /\ \A k \in RefNodes : Decreased(n)[k] = IF k = target[n] THEN refCount[k] - 1 ELSE refCount[k]
  BY <1>2, <1>5 DEF Decreased
<1>9. \A k \in RefNodes : refCount'[k] = IF k = m THEN Decreased(n)[k] + 1 ELSE Decreased(n)[k]
  BY <1>1, <1>8
<1>10. /\ r \in RefItem /\ r.what = "raw" /\ r.node = m /\ r.old = Decreased(n)[m]
       /\ q \in RefItem /\ q.what = "modify" /\ q.node = n /\ q.old = target[n]
  BY <1>2, <1>8 DEF Raw, Modify, RefItem
<1> HIDE DEF r, q
<1>11. <<r, q>> \in Seq(RefItem) /\ \A i \in DOMAIN <<r, q>> : <<r, q>>[i].node \in {n, m}
  BY <1>10
<1>12. /\ d \in Seq(RefItem)
       /\ \A k \in RefNodes : \A what, x :
            /\ (EntriesIn(d, what, k) = {}) <=> ~(what = "raw" /\ k = target[n])
            /\ (what = "raw" /\ k = target[n]) => (OldIn(d, what, k, x) = refCount[k])
       /\ \A i \in DOMAIN d : d[i].node = target[n]
  <2>1. \A k \in RefNodes : \A what, x :
            /\ (EntriesIn(d, what, k) = {}) <=> ~(what = "raw" /\ k = target[n])
            /\ (what = "raw" /\ k = target[n]) => (OldIn(d, what, k, x) = refCount[k])
    BY <1>2, DecreaseLogIs
  <2>2. d \in Seq(RefItem) /\ \A i \in DOMAIN d : d[i].node = target[n]
    BY <1>2, DecreaseLogIs
  <2> HIDE DEF d
  <2> QED
    BY <2>1, <2>2
<1> HIDE DEF d
<1>13. ASSUME NEW k \in RefNodes
       PROVE  /\ OldIn(t, "modify", k, target'[k]) = target[k]
              /\ OldIn(t, "raw", k, refCount'[k]) = refCount[k]
              /\ EntriesIn(t, "alloc", k) = {} /\ EntriesIn(t, "delete", k) = {}
  <2>1. d \in Seq(RefItem) /\ r \in RefItem /\ q \in RefItem
    BY <1>10, <1>12
  <2>2. ASSUME NEW what, NEW x
        PROVE  /\ (EntriesIn(t, what, k) = {}) <=>
                    (/\ EntriesIn(d, what, k) = {}
                     /\ EntriesIn(<<r>>, what, k) = {} /\ EntriesIn(<<q>>, what, k) = {})
               /\ OldIn(t, what, k, x) = OldIn(d, what, k, OldIn(<<r>>, what, k, OldIn(<<q>>, what, k, x)))
    <3>1. PICK e \in Seq(RefItem), u \in Seq(RefItem), v \in Seq(RefItem) : e = d /\ u = <<r>> /\ v = <<q>>
      <4>1. <<r>> \in Seq(RefItem) /\ <<q>> \in Seq(RefItem)
        BY <2>1
      <4> QED
        BY <2>1, <4>1
    <3>2. t = Then(e, Then(u, v))
      <4>1. <<r, q>> = Then(<<r>>, <<q>>)
        BY <2>1, PairIs
      <4> QED
        BY <3>1, <4>1
    <3>3. /\ (EntriesIn(Then(e, Then(u, v)), what, k) = {}) <=>
               (EntriesIn(e, what, k) = {} /\ EntriesIn(u, what, k) = {} /\ EntriesIn(v, what, k) = {})
          /\ OldIn(Then(e, Then(u, v)), what, k, x) =
               OldIn(e, what, k, OldIn(u, what, k, OldIn(v, what, k, x)))
      <4>1. (EntriesIn(Then(e, Then(u, v)), what, k) = {}) <=>
               (EntriesIn(e, what, k) = {} /\ EntriesIn(u, what, k) = {} /\ EntriesIn(v, what, k) = {})
        BY OldTwice, ZenonT(40)
      <4>2. OldIn(Then(e, Then(u, v)), what, k, x) =
               OldIn(e, what, k, OldIn(u, what, k, OldIn(v, what, k, x)))
        BY OldTwice, SMTT(40)
      <4> QED
        BY <4>1, <4>2
    <3> HIDE DEF t
    <3> QED
      BY <3>1, <3>2, <3>3
  <2>3. ASSUME NEW what, NEW x
        PROVE  /\ (r.what = what /\ r.node = k) => OldIn(<<r>>, what, k, x) = r.old
               /\ ~(r.what = what /\ r.node = k) =>
                    (EntriesIn(<<r>>, what, k) = {} /\ OldIn(<<r>>, what, k, x) = x)
    BY OldSingle
  <2>4. ASSUME NEW what, NEW x
        PROVE  /\ (q.what = what /\ q.node = k) => OldIn(<<q>>, what, k, x) = q.old
               /\ ~(q.what = what /\ q.node = k) =>
                    (EntriesIn(<<q>>, what, k) = {} /\ OldIn(<<q>>, what, k, x) = x)
    BY OldSingle
  <2>5. ASSUME NEW what, NEW x
        PROVE  /\ (EntriesIn(d, what, k) = {}) <=> ~(what = "raw" /\ k = target[n])
               /\ (what = "raw" /\ k = target[n]) => (OldIn(d, what, k, x) = refCount[k])
               /\ (EntriesIn(d, what, k) = {}) => (OldIn(d, what, k, x) = x)
    <3>1. (EntriesIn(d, what, k) = {}) => (OldIn(d, what, k, x) = x)
      BY DEF OldIn
    <3> QED
      BY <1>12, <3>1
  <2> HIDE DEF t
  <2>6. OldIn(t, "modify", k, target'[k]) = target[k]
    <3> DEFINE x == target'[k]
    <3>1. OldIn(<<q>>, "modify", k, x) = target[k]
      BY <1>7, <1>10, <2>4
    <3>2. OldIn(<<r>>, "modify", k, target[k]) = target[k] /\ OldIn(d, "modify", k, target[k]) = target[k]
      BY <1>10, <2>3, <2>5
    <3>3. OldIn(t, "modify", k, x) =
            OldIn(d, "modify", k, OldIn(<<r>>, "modify", k, OldIn(<<q>>, "modify", k, x)))
      BY <2>2
    <3> QED
      BY <3>1, <3>2, <3>3
  <2>7. OldIn(t, "raw", k, refCount'[k]) = refCount[k]
    <3> DEFINE x == refCount'[k]
    <3>1. OldIn(<<q>>, "raw", k, x) = x
      BY <1>10, <2>4
    <3>2. OldIn(<<r>>, "raw", k, x) = Decreased(n)[k]
      <4>1. CASE k = m
        BY <1>10, <2>3, <4>1
      <4>2. CASE k # m
        BY <1>9, <1>10, <2>3, <4>2
      <4> QED
        BY <4>1, <4>2
    <3>3. OldIn(d, "raw", k, Decreased(n)[k]) = refCount[k]
      <4>1. CASE k = target[n]
        BY <2>5, <4>1
      <4>2. CASE k # target[n]
        BY <1>8, <2>5, <4>2
      <4> QED
        BY <4>1, <4>2
    <3>4. OldIn(t, "raw", k, x) = OldIn(d, "raw", k, OldIn(<<r>>, "raw", k, OldIn(<<q>>, "raw", k, x)))
      BY <2>2
    <3> QED
      BY <3>1, <3>2, <3>3, <3>4
  <2>8. EntriesIn(t, "alloc", k) = {} /\ EntriesIn(t, "delete", k) = {}
    <3>1. EntriesIn(d, "alloc", k) = {} /\ EntriesIn(d, "delete", k) = {}
      BY <2>5
    <3>2. EntriesIn(<<r>>, "alloc", k) = {} /\ EntriesIn(<<r>>, "delete", k) = {}
      BY <1>10, <2>3
    <3>3. EntriesIn(<<q>>, "alloc", k) = {} /\ EntriesIn(<<q>>, "delete", k) = {}
      BY <1>10, <2>4
    <3> QED
      BY <2>2, <3>1, <3>2, <3>3
  <2> QED
    BY <2>6, <2>7, <2>8
<1>14. t \in Seq(RefItem) /\ \A i \in DOMAIN t : t[i].node \in {target[n], n, m}
  <2> DEFINE s == <<r, q>>
  <2>1. s \in Seq(RefItem) /\ \A i \in DOMAIN s : s[i].node \in {n, m}
    BY <1>11
  <2> HIDE DEF s
  <2>2. d \o s \in Seq(RefItem)
    BY <1>12, <2>1
  <2>3. ASSUME NEW i \in DOMAIN (d \o s) PROVE (d \o s)[i].node \in {target[n], n, m}
    <3>1. /\ Len(d) \in Nat /\ Len(s) \in Nat /\ DOMAIN d = 1 .. Len(d) /\ DOMAIN s = 1 .. Len(s)
          /\ DOMAIN (d \o s) = 1 .. Len(d) + Len(s)
          /\ (d \o s)[i] = IF i <= Len(d) THEN d[i] ELSE s[i - Len(d)]
      BY <1>12, <2>1, <2>3, ConcatProperties
    <3>2. CASE i <= Len(d)
      BY <1>12, <2>3, <3>1, <3>2
    <3>3. CASE ~(i <= Len(d))
      <4>1. i - Len(d) \in DOMAIN s
        BY <2>3, <3>1, <3>3
      <4> QED
        BY <2>1, <3>1, <3>3, <4>1
    <3> QED
      BY <3>2, <3>3
  <2> QED
    BY <2>2, <2>3 DEF s, Then
<1>15. \A i \in DOMAIN t : t[i].node \in RefNodes
  <2>1. \A i \in DOMAIN t : t[i] \in RefItem
    BY <1>14
  <2> QED
    BY <2>1 DEF RefItem
<1>16. undoLog' = [undoLog EXCEPT ![h] = @ \o t]
  BY <1>1 DEF Then
<1> HIDE DEF t
<1>17. Grows(h, t)
  <2>1. \A i \in DOMAIN t : lockedBy'[t[i].node] = h
    BY <1>6, <1>14, <1>15
  <2>2. \A k \in RefNodes : lockedBy'[k] = lockedBy[k] \/ (lockedBy[k] = Null /\ lockedBy'[k] = h)
    BY <1>3, <1>4, <1>5, <1>6
  <2>3. \A k \in RefNodes : lockedBy'[k] # h => target'[k] = target[k] /\ refCount'[k] = refCount[k]
    BY <1>6, <1>7, <1>8, <1>9
  <2>4. \A k \in RefNodes : lockedBy'[k] = lockedBy[k] \/ k \in usedNodes'
    BY <1>1, <1>3, <1>4, <1>5, <1>6
  <2>5. nodesAlive' = nodesAlive \cup {k \in RefNodes : EntriesIn(t, "alloc", k) # {}}
    BY <1>1, <1>13
  <2> QED
    BY <1>1, <1>13, <1>14, <1>16, <2>1, <2>2, <2>3, <2>4, <2>5, Zenon DEF Grows
<1>18. /\ \A k \in RefNodes \ {n} : TargetSeen(h, k)' = TargetSeen(h, k)
       /\ TargetSeen(h, n)' = m
  <2>1. \A k \in RefNodes \ {n} : TargetSeen(h, k)' = TargetSeen(h, k)
    BY <1>7, <1>17, GrowSeen
  <2>2. TargetSeen(h, n)' = m
    BY <1>6, <1>7 DEF TargetSeen
  <2> QED
    BY <2>1, <2>2
<1>19. EndsLocked'
  <2> SUFFICES ASSUME NEW k \in RefNodes, target'[k] # BaseTarget(k)',
                      NEW x \in {target'[k], BaseTarget(k)'} \ {Null}
               PROVE  lockedBy'[x] = lockedBy'[k]
    BY DEF EndsLocked
  <2>1. BaseTarget(k)' = BaseTarget(k) /\ BaseTarget(k) \in RefNodes \cup {Null} /\ target'[k] \in RefNodes \cup {Null}
    BY <1>2, <1>7, <1>17, GrowBase, BaseTypes
  <2>2. ASSUME target[k] # BaseTarget(k), x \in {target[k], BaseTarget(k)}
        PROVE  lockedBy'[x] = lockedBy'[k]
    <3>1. lockedBy[x] = lockedBy[k] /\ lockedBy[k] # Null
      BY <2>2 DEF RefInv, EndsLocked, BaseTarget
    <3>2. x \in RefNodes
      BY <2>1
    <3> QED
      BY <1>17, <3>1, <3>2 DEF Grows
  <2>3. CASE k # n
    BY <1>7, <2>1, <2>2, <2>3
  <2>4. CASE k = n
    <3>1. CASE x = m \/ x = target[n]
      BY <1>6, <2>4, <3>1, <2>1
    <3>2. CASE x # m /\ x # target[n]
      <4>1. x = BaseTarget(n) /\ x # target[n]
        BY <1>7, <2>1, <2>4, <3>2
      <4> QED
        BY <2>2, <2>4, <4>1
    <3> QED
      BY <3>1, <3>2
  <2> QED
    BY <2>3, <2>4
<1>20. ExactFor(h)'
  <2> SUFFICES ASSUME NEW x \in RefNodes
               PROVE  CountSeen(h, x)' = Cardinality({k \in RefNodes : TargetSeen(h, k)' = x})
    BY DEF ExactFor
  <2>1. PICK f : f = [k \in RefNodes |-> TargetSeen(h, k)]
    OBVIOUS
  <2>2. PICK g : g = [k \in RefNodes |-> IF k = n THEN m ELSE TargetSeen(h, k)]
    OBVIOUS
  <2>3. {k \in RefNodes : TargetSeen(h, k)' = x} = PointingIn(g, x)
    BY <1>18, <2>2 DEF PointingIn
  <2>4. {k \in RefNodes : TargetSeen(h, k) = x} = PointingIn(f, x)
    BY <2>1 DEF PointingIn
  <2>5. f[n] = target[n] /\ g[n] = m /\ \A k \in RefNodes \ {n} : g[k] = f[k]
    BY <1>3, <2>1, <2>2
  <2>6. PICK a, b \in Nat :
           /\ a = Cardinality(PointingIn(f, x)) /\ b = Cardinality(PointingIn(g, x))
           /\ (f[n] = x /\ g[n] # x) => b = a - 1
           /\ (f[n] # x /\ g[n] = x) => b = a + 1
           /\ ((f[n] = x) <=> (g[n] = x)) => b = a
    <3>1. n \in RefNodes /\ \A k \in RefNodes \ {n} : g[k] = f[k]
      BY <2>5
    <3>2. CountMoves(f, g, n, x)
      BY ONLY <3>1, CountOneMoved
    <3> QED
      BY <3>2 DEF CountMoves
  <2>7. CountSeen(h, x) = a
    BY <1>1, <2>4, <2>6 DEF RefInv, CountsFit, ExactFor
  <2>8. CountSeen(h, x)' = b
    <3>1. CASE x # m /\ x # target[n]
      <4>1. refCount'[x] = refCount[x]
        BY <1>8, <1>9, <3>1
      <4>2. CountSeen(h, x)' = CountSeen(h, x)
        BY <1>17, <4>1, GrowSeen
      <4> QED
        BY <2>5, <2>6, <2>7, <3>1, <4>2
    <3>2. CASE x = m \/ x = target[n]
      <4>1. CountSeen(h, x)' = refCount'[x]
        BY <1>6, <3>2 DEF CountSeen
      <4>2. CountSeen(h, x) = refCount[x] /\ refCount[x] \in Int
        BY <1>2, <1>3, <1>4, <1>5, <3>2
      <4>3. refCount'[x] = IF x = m THEN (IF x = target[n] THEN refCount[x] - 1 ELSE refCount[x]) + 1
                           ELSE IF x = target[n] THEN refCount[x] - 1 ELSE refCount[x]
        BY <1>8, <1>9
      <4> QED
        BY <2>5, <2>6, <2>7, <3>2, <4>1, <4>2, <4>3
    <3> QED
      BY <3>1, <3>2
  <2> QED
    BY <2>3, <2>6, <2>8
<1>21. FreeFrom(h)'
  <2> SUFFICES ASSUME NEW x \in Deleting(h)', NEW k \in RefNodes PROVE TargetSeen(h, k)' # x
    BY DEF FreeFrom
  <2>1. x \in Deleting(h) \/ EntriesIn(t, "delete", x) # {}
    BY <1>17, GrowDeleting
  <2>2. x \in RefNodes
    <3>1. PICK i \in DOMAIN undoLog'[h] : undoLog'[h][i].node = x
      BY DEF Deleting
    <3>2. undoLog'[h] \in Seq(RefItem)
      BY DEF RefTypes
    <3>3. undoLog'[h][i] \in RefItem
      BY <3>1, <3>2
    <3> QED
      BY <3>1, <3>3 DEF RefItem
  <2>3. x \in Deleting(h)
    BY <1>13, <2>1, <2>2
  <2>4. TargetSeen(h, k) # x /\ x # m
    BY <1>1, <2>3 DEF RefInv, DeletedFree, FreeFrom
  <2> QED
    BY <1>18, <2>4
<1>22. PointsAlive(h)'
  <2> SUFFICES ASSUME NEW k \in AliveTo(h)'
               PROVE  TargetSeen(h, k)' = Null \/ TargetSeen(h, k)' \in AliveTo(h)'
    BY DEF PointsAlive
  <2>1. AliveTo(h)' = AliveTo(h) /\ AliveTo(h) \subseteq RefNodes
    <3>1. AliveTo(h)' = AliveTo(h) \cup {k_1 \in RefNodes : EntriesIn(t, "alloc", k_1) # {}}
      BY <1>17, GrowAlive
    <3>2. AliveTo(h) \subseteq RefNodes
      BY <1>2 DEF AliveTo, RefTypes
    <3> QED
      BY <1>13, <3>1, <3>2
  <2>2. TargetSeen(h, k) = Null \/ TargetSeen(h, k) \in AliveTo(h)
    BY <2>1 DEF RefInv, TargetsAlive, PointsAlive
  <2> QED
    BY <1>3, <1>18, <2>1, <2>2
<1> QED
  BY <1>17, <1>19, <1>20, <1>21, <1>22, GrowInv

-----------------------------------------------------------------------------
(* Commit and abort *)

(* The logs of others. *)
LEMMA EndsLogs ==
  ASSUME RefTypes, NEW h \in RefHandles, EndsRefs(h)
  PROVE  /\ undoLog'[h] = <<>> /\ \A k \in RefHandles \ {h} : undoLog'[k] = undoLog[k]
         /\ \A n \in RefNodes : lockedBy'[n] = IF lockedBy[n] = h THEN Null ELSE lockedBy[n]
         /\ refStatus'[h] = "idle" /\ \A k \in RefHandles \ {h} : refStatus'[k] = refStatus[k]
         /\ usedNodes' = usedNodes /\ h # Null
BY RefAssumption DEF RefTypes, EndsRefs, Held

(* A log that has been cleared says nothing, the others say what they said. *)
LEMMA EndsEntries ==
  ASSUME RefTypes, NEW h \in RefHandles, EndsRefs(h)
  PROVE  /\ \A what, n : Entries(h, what, n)' = {}
         /\ \A k \in RefHandles \ {h} : \A what, n : Entries(k, what, n)' = Entries(k, what, n)
         /\ Deleting(h)' = {} /\ \A k \in RefHandles \ {h} : Deleting(k)' = Deleting(k)
<1>1. undoLog'[h] = <<>> /\ \A k \in RefHandles \ {h} : undoLog'[k] = undoLog[k]
  BY EndsLogs
<1>2. \A what, n : Entries(h, what, n)' = {}
  BY <1>1 DEF Entries
<1>3. \A k \in RefHandles \ {h} : \A what, n : Entries(k, what, n)' = Entries(k, what, n)
  BY <1>1 DEF Entries
<1>4. Deleting(h)' = {} /\ \A k \in RefHandles \ {h} : Deleting(k)' = Deleting(k)
  BY <1>1 DEF Deleting
<1> QED
  BY <1>2, <1>3, <1>4

(* What an end has in common, whichever it is: the nodes of others stay as they
   are, with their bases. *)
LEMMA EndsCommon ==
  ASSUME RefInv, RefTypes', NEW h \in RefHandles, EndsRefs(h),
         \A n \in RefNodes : lockedBy[n] # h => target'[n] = target[n] /\ refCount'[n] = refCount[n]
  PROVE  /\ \A n \in RefNodes : /\ BaseTarget(n)' = IF lockedBy[n] = h THEN target'[n] ELSE BaseTarget(n)
                                /\ BaseCount(n)' = IF lockedBy[n] = h THEN refCount'[n] ELSE BaseCount(n)
         /\ LogsLocked' /\ EndsLocked'
<1>1. /\ undoLog'[h] = <<>> /\ \A k \in RefHandles \ {h} : undoLog'[k] = undoLog[k]
      /\ \A n \in RefNodes : lockedBy'[n] = IF lockedBy[n] = h THEN Null ELSE lockedBy[n]
      /\ refStatus'[h] = "idle" /\ \A k \in RefHandles \ {h} : refStatus'[k] = refStatus[k]
      /\ usedNodes' = usedNodes /\ h # Null
  BY EndsLogs DEF RefInv
<1>3. ASSUME NEW n \in RefNodes
      PROVE  /\ BaseTarget(n)' = IF lockedBy[n] = h THEN target'[n] ELSE BaseTarget(n)
             /\ BaseCount(n)' = IF lockedBy[n] = h THEN refCount'[n] ELSE BaseCount(n)
  <2>1. CASE lockedBy[n] = h
    BY <1>1, <2>1 DEF BaseTarget, BaseCount
  <2>2. CASE lockedBy[n] # h
    <3>1. lockedBy'[n] = lockedBy[n] /\ target'[n] = target[n] /\ refCount'[n] = refCount[n]
      BY <1>1, <2>2
    <3>2. CASE lockedBy[n] = Null
      BY <2>2, <3>1, <3>2 DEF BaseTarget, BaseCount
    <3>3. CASE lockedBy[n] # Null
      <4>1. PICK k \in RefHandles \ {h} : lockedBy[n] = k
        BY <2>2, <3>3 DEF RefInv, RefTypes
      <4>2. undoLog'[k] = undoLog[k]
        BY <1>1
      <4>3. BaseTarget(n)' = BaseTarget(n) /\ BaseCount(n)' = BaseCount(n)
        BY <3>1, <4>1, <4>2 DEF BaseTarget, BaseCount, Undone, Entries
      <4> QED
        BY <2>2, <4>3
    <3> QED
      BY <3>2, <3>3
  <2> QED
    BY <2>1, <2>2
<1>4. LogsLocked'
  <2>1. ASSUME NEW k \in RefHandles, NEW i \in DOMAIN undoLog'[k]
        PROVE  lockedBy'[undoLog'[k][i].node] = k
    <3>1. k # h
      BY <1>1, <2>1
    <3>2. undoLog'[k] = undoLog[k] /\ undoLog[k] \in Seq(RefItem)
      BY <1>1, <3>1 DEF RefInv, RefTypes
    <3>3. lockedBy[undoLog[k][i].node] = k /\ undoLog[k][i] \in RefItem
      BY <2>1, <3>2 DEF RefInv, LogsLocked
    <3> QED
      BY <1>1, <3>1, <3>2, <3>3 DEF RefItem
  <2>2. ASSUME NEW k \in RefHandles, refStatus'[k] = "idle"
        PROVE  undoLog'[k] = <<>> /\ Held(k)' = {}
    <3>1. CASE k = h
      BY <1>1, <3>1 DEF Held
    <3>2. CASE k # h
      <4>1. undoLog[k] = <<>> /\ Held(k) = {}
        BY <1>1, <2>2, <3>2 DEF RefInv, LogsLocked
      <4> QED
        BY <1>1, <3>2, <4>1, RefAssumption DEF Held
    <3> QED
      BY <3>1, <3>2
  <2>3. ASSUME NEW n \in RefNodes \ usedNodes' PROVE lockedBy'[n] = Null /\ target'[n] = Null
    BY <1>1 DEF RefInv, LogsLocked
  <2> QED
    BY <2>1, <2>2, <2>3 DEF LogsLocked
<1>5. EndsLocked'
  <2> SUFFICES ASSUME NEW n \in RefNodes, target'[n] # BaseTarget(n)',
                      NEW x \in {target'[n], BaseTarget(n)'} \ {Null}
               PROVE  lockedBy'[x] = lockedBy'[n]
    BY DEF EndsLocked
  <2>1. lockedBy[n] # h
    BY <1>3
  <2>2. target'[n] = target[n] /\ BaseTarget(n)' = BaseTarget(n)
    BY <1>3, <2>1
  <2>3. lockedBy[x] = lockedBy[n] /\ x \in RefNodes
    <3>1. target[n] \in RefNodes \cup {Null} /\ BaseTarget(n) \in RefNodes \cup {Null}
      BY BaseTypes DEF RefInv, RefTypes
    <3> QED
      BY <2>2, <3>1 DEF RefInv, EndsLocked
  <2> QED
    BY <1>1, <2>1, <2>3
<1> QED
  BY <1>3, <1>4, <1>5

(* After a commit all see what h saw, but for what they have locked. *)
LEMMA CommitSeen ==
  ASSUME RefInv, RefTypes', NEW h \in RefHandles, CommitRefs(h)
  PROVE  /\ LogsLocked' /\ EndsLocked'
         /\ \A n \in RefNodes : \A k \in RefHandles \cup {Null} :
              /\ TargetSeen(k, n)' = IF k \in RefHandles \ {h} /\ lockedBy[n] = k THEN target[n]
                                     ELSE TargetSeen(h, n)
              /\ CountSeen(k, n)' = IF k \in RefHandles \ {h} /\ lockedBy[n] = k THEN refCount[n]
                                    ELSE CountSeen(h, n)
<1>1. /\ target' = target /\ refCount' = refCount /\ EndsRefs(h)
  BY DEF CommitRefs, memVars
<1>2. /\ \A n \in RefNodes : lockedBy'[n] = IF lockedBy[n] = h THEN Null ELSE lockedBy[n]
      /\ h # Null
  BY <1>1, EndsLogs DEF RefInv
<1>3. /\ \A n \in RefNodes : /\ BaseTarget(n)' = IF lockedBy[n] = h THEN target'[n] ELSE BaseTarget(n)
                             /\ BaseCount(n)' = IF lockedBy[n] = h THEN refCount'[n] ELSE BaseCount(n)
      /\ LogsLocked' /\ EndsLocked'
  BY <1>1, EndsCommon
<1>4. ASSUME NEW n \in RefNodes, NEW k \in RefHandles \cup {Null}
      PROVE  /\ TargetSeen(k, n)' = IF k \in RefHandles \ {h} /\ lockedBy[n] = k THEN target[n]
                                    ELSE TargetSeen(h, n)
             /\ CountSeen(k, n)' = IF k \in RefHandles \ {h} /\ lockedBy[n] = k THEN refCount[n]
                                   ELSE CountSeen(h, n)
  <2>1. /\ TargetSeen(k, n)' = IF lockedBy'[n] = k THEN target[n] ELSE BaseTarget(n)'
        /\ CountSeen(k, n)' = IF lockedBy'[n] = k THEN refCount[n] ELSE BaseCount(n)'
    BY <1>1 DEF TargetSeen, CountSeen
  <2>2. /\ BaseTarget(n)' = TargetSeen(h, n) /\ BaseCount(n)' = CountSeen(h, n)
    BY <1>1, <1>3 DEF TargetSeen, CountSeen
  <2>3. lockedBy'[n] = Null => BaseTarget(n)' = target[n] /\ BaseCount(n)' = refCount[n]
    BY <1>1 DEF BaseTarget, BaseCount
  <2> HIDE DEF TargetSeen, CountSeen, BaseTarget, BaseCount
  <2> QED
    BY <1>2, <2>1, <2>2, <2>3, RefAssumption
<1> QED
  BY <1>3, <1>4

(* If two see a pointer differently, one of them has it locked, with both its
   ends. *)
LEMMA SeenApart ==
  ASSUME RefInv, NEW h \in RefHandles, NEW n \in RefNodes, target[n] # BaseTarget(n),
         NEW x \in RefNodes, x = target[n] \/ x = BaseTarget(n)
  PROVE  lockedBy[x] = lockedBy[n] /\ lockedBy[n] # Null
BY RefAssumption DEF RefInv, EndsLocked, BaseTarget

(* k finds after a commit of h what it has locked as it was, and the rest as h
   left it. *)
LEMMA CommitSame ==
  ASSUME RefInv, RefTypes', NEW h \in RefHandles, CommitRefs(h), NEW k \in RefHandles \ {h},
         NEW n \in RefNodes, NEW x \in RefNodes
  PROVE  /\ lockedBy[x] = k => (TargetSeen(k, n)' = x <=> TargetSeen(k, n) = x)
         /\ lockedBy[x] # k => (TargetSeen(k, n)' = x <=> TargetSeen(h, n) = x)
<1>1. TargetSeen(k, n)' = IF lockedBy[n] = k THEN target[n] ELSE TargetSeen(h, n)
  BY CommitSeen
<1>2. /\ TargetSeen(k, n) = IF lockedBy[n] = k THEN target[n] ELSE BaseTarget(n)
      /\ TargetSeen(h, n) = IF lockedBy[n] = h THEN target[n] ELSE BaseTarget(n)
  BY DEF TargetSeen
<1>3. target[n] # BaseTarget(n) /\ (x = target[n] \/ x = BaseTarget(n)) => lockedBy[x] = lockedBy[n]
  BY SeenApart
<1> QED
  BY <1>1, <1>2, <1>3

(* A commit makes what its handle sees what all see. *)
LEMMA CommitKeeps ==
  ASSUME RefInv, RefTypes', NEW h \in RefHandles, CommitRefs(h)
  PROVE  RefInv'
<1>1. /\ refStatus[h] = "run" /\ nodesAlive' = nodesAlive \ Deleting(h) /\ EndsRefs(h) /\ RefTypes
      /\ nodesAlive \subseteq RefNodes
  BY DEF CommitRefs, Running, RefInv, RefTypes
<1>2. /\ LogsLocked' /\ EndsLocked'
      /\ \A n \in RefNodes : \A k \in RefHandles \cup {Null} :
              /\ TargetSeen(k, n)' = IF k \in RefHandles \ {h} /\ lockedBy[n] = k THEN target[n]
                                     ELSE TargetSeen(h, n)
              /\ CountSeen(k, n)' = IF k \in RefHandles \ {h} /\ lockedBy[n] = k THEN refCount[n]
                                    ELSE CountSeen(h, n)
  BY CommitSeen
<1>3. /\ refStatus'[h] = "idle" /\ \A k \in RefHandles \ {h} : refStatus'[k] = refStatus[k]
      /\ h # Null
  BY <1>1, EndsLogs
<1>4. /\ \A what, n : Entries(h, what, n)' = {}
      /\ \A k \in RefHandles \ {h} : \A what, n : Entries(k, what, n)' = Entries(k, what, n)
      /\ Deleting(h)' = {} /\ \A k \in RefHandles \ {h} : Deleting(k)' = Deleting(k)
  BY <1>1, EndsEntries
<1>5. ExactFor(h) /\ FreeFrom(h) /\ PointsAlive(h) /\ LogsLocked
  BY <1>1 DEF RefInv, CountsFit, DeletedFree, TargetsAlive
<1>6. CountsFit'
  <2> SUFFICES ASSUME NEW k \in RefHandles \cup {Null}, k # Null => refStatus'[k] = "run",
                      NEW m \in RefNodes
               PROVE  CountSeen(k, m)' = Cardinality({n \in RefNodes : TargetSeen(k, n)' = m})
    BY DEF CountsFit, ExactFor
  <2>1. CASE k \in RefHandles \ {h} /\ lockedBy[m] = k
    <3>1. {n \in RefNodes : TargetSeen(k, n)' = m} = {n \in RefNodes : TargetSeen(k, n) = m}
      BY <2>1, CommitSame
    <3>2. ExactFor(k)
      BY <1>3, <2>1, RefAssumption DEF RefInv, CountsFit
    <3>3. CountSeen(k, m)' = CountSeen(k, m)
      BY <1>2, <2>1 DEF CountSeen
    <3> QED
      BY <3>1, <3>2, <3>3 DEF ExactFor
  <2>2. CASE ~(k \in RefHandles \ {h} /\ lockedBy[m] = k)
    <3>1. ASSUME NEW n \in RefNodes PROVE TargetSeen(k, n)' = m <=> TargetSeen(h, n) = m
      <4>1. CASE k \in RefHandles \ {h}
        BY <2>2, <4>1, CommitSame
      <4>2. CASE k \notin RefHandles \ {h}
        BY <1>2, <4>2
      <4> QED
        BY <4>1, <4>2
    <3>2. {n \in RefNodes : TargetSeen(k, n)' = m} = {n \in RefNodes : TargetSeen(h, n) = m}
      BY <3>1
    <3>3. CountSeen(k, m)' = CountSeen(h, m)
      BY <1>2, <2>2
    <3> QED
      BY <1>5, <3>2, <3>3 DEF ExactFor
  <2> QED
    BY <2>1, <2>2
<1>7. DeletedFree'
  <2> SUFFICES ASSUME NEW k \in RefHandles, NEW x \in Deleting(k)', NEW n \in RefNodes
               PROVE  TargetSeen(k, n)' # x
    BY DEF DeletedFree, FreeFrom
  <2>1. k # h /\ x \in Deleting(k)
    BY <1>4
  <2>2. lockedBy[x] = k /\ TargetSeen(k, n) # x
    BY <1>5, <2>1, DeletingLocked DEF RefInv, DeletedFree, FreeFrom
  <2>3. CASE x \in RefNodes
    BY <2>1, <2>2, <2>3, CommitSame
  <2>4. CASE x \notin RefNodes
    <3>1. PICK i \in DOMAIN undoLog[k] : undoLog[k][i].node = x
      BY <2>1 DEF Deleting
    <3>2. undoLog[k] \in Seq(RefItem)
      BY <1>1 DEF RefTypes
    <3>3. undoLog[k][i] \in RefItem
      BY <3>1, <3>2
    <3> QED
      BY <2>4, <3>1, <3>3 DEF RefItem
  <2> QED
    BY <2>3, <2>4
<1>8. TargetsAlive'
  <2> SUFFICES ASSUME NEW k \in RefHandles \cup {Null}, NEW n \in AliveTo(k)', TargetSeen(k, n)' # Null
               PROVE  TargetSeen(k, n)' \in AliveTo(k)'
    BY DEF TargetsAlive, PointsAlive
  <2>0. PICK y : y = TargetSeen(k, n)'
    OBVIOUS
  <2>1. /\ n \in nodesAlive /\ n \notin Deleting(h) /\ n \in RefNodes
        /\ \A j \in RefHandles \ {h, k} : Entries(j, "alloc", n) = {}
    BY <1>1, <1>4 DEF AliveTo
  <2>2. ASSUME y \in nodesAlive, y \notin Deleting(h),
               \A j \in RefHandles \ {h, k} : Entries(j, "alloc", y) = {}
        PROVE  y \in AliveTo(k)'
    <3>1. ASSUME NEW j \in RefHandles \ {k} PROVE Entries(j, "alloc", y)' = {}
      <4>1. CASE j = h
        BY <1>4, <4>1
      <4>2. CASE j # h
        BY <1>4, <2>2, <4>2
      <4> QED
        BY <4>1, <4>2
    <3>2. y \in nodesAlive'
      BY <1>1, <2>2
    <3> QED
      BY <3>1, <3>2 DEF AliveTo
  <2>3. CASE k \in RefHandles \ {h} /\ lockedBy[n] = k
    <3>1. y = target[n] /\ TargetSeen(k, n) = target[n]
      BY <1>2, <2>0, <2>1, <2>3 DEF TargetSeen
    <3>2. n \in AliveTo(k)
      <4>1. Entries(h, "alloc", n) = {}
        BY <1>5, <2>3, OnlyLocked
      <4> QED
        BY <2>1, <4>1 DEF AliveTo
    <3>3. y \in AliveTo(k)
      BY <2>0, <3>1, <3>2 DEF RefInv, TargetsAlive, PointsAlive
    <3>4. y \notin Deleting(h)
      <4>1. TargetSeen(h, n) = BaseTarget(n)
        BY <2>3 DEF TargetSeen
      <4> SUFFICES ASSUME y \in Deleting(h) PROVE FALSE
        OBVIOUS
      <4>2. lockedBy[y] = h /\ TargetSeen(h, n) # y
        BY <1>5, <2>1, DeletingLocked DEF FreeFrom
      <4>3. y \in RefNodes
        BY <1>1, <3>3 DEF AliveTo
      <4> QED
        BY <2>1, <2>3, <3>1, <4>1, <4>2, <4>3, SeenApart
    <3> QED
      BY <2>0, <2>2, <2>3, <3>3, <3>4 DEF AliveTo
  <2>4. CASE ~(k \in RefHandles \ {h} /\ lockedBy[n] = k)
    <3>1. y = TargetSeen(h, n)
      BY <1>2, <2>0, <2>1, <2>4
    <3>2. n \in AliveTo(h)
      <4>1. ASSUME NEW j \in RefHandles \ {h} PROVE Entries(j, "alloc", n) = {}
        <5>1. CASE j = k
          BY <1>5, <2>4, <5>1, OnlyLocked
        <5>2. CASE j # k
          BY <2>1, <5>2
        <5> QED
          BY <5>1, <5>2
      <4> QED
        BY <2>1, <4>1 DEF AliveTo
    <3>3. y \in AliveTo(h) /\ y \notin Deleting(h)
      BY <1>5, <2>0, <2>1, <3>1, <3>2 DEF PointsAlive, FreeFrom
    <3>4. y \in nodesAlive /\ \A j \in RefHandles \ {h, k} : Entries(j, "alloc", y) = {}
      BY <3>3 DEF AliveTo
    <3> QED
      BY <2>0, <2>2, <3>3, <3>4
  <2> QED
    BY <2>0, <2>3, <2>4
<1> QED
  BY <1>2, <1>6, <1>7, <1>8 DEF RefInv

(* After an abort all see what they saw, and h what all leave by aborting. *)
LEMMA AbortSeen ==
  ASSUME RefInv, RefTypes', NEW h \in RefHandles, AbortRefs(h)
  PROVE  /\ LogsLocked' /\ EndsLocked'
         /\ \A n \in RefNodes : \A k \in (RefHandles \cup {Null}) \ {h} :
              TargetSeen(k, n)' = TargetSeen(k, n) /\ CountSeen(k, n)' = CountSeen(k, n)
         /\ \A n \in RefNodes : TargetSeen(h, n)' = TargetSeen(Null, n)
<1>1. /\ target' = [n \in RefNodes |-> IF Entries(h, "alloc", n) # {} THEN Null
                                        ELSE Undone(h, "modify", n, target[n])]
      /\ refCount' = [n \in RefNodes |-> Undone(h, "raw", n, refCount[n])]
      /\ EndsRefs(h)
  BY DEF AbortRefs
<1>2. /\ \A n \in RefNodes : lockedBy'[n] = IF lockedBy[n] = h THEN Null ELSE lockedBy[n]
      /\ h # Null
  BY <1>1, EndsLogs DEF RefInv
<1>3. ASSUME NEW n \in RefNodes, lockedBy[n] # h
      PROVE  target'[n] = target[n] /\ refCount'[n] = refCount[n]
  <2>1. \A what : Entries(h, what, n) = {}
    BY <1>3, OnlyLocked DEF RefInv
  <2> QED
    BY <1>1, <2>1 DEF Undone
<1>4. /\ \A n \in RefNodes : /\ BaseTarget(n)' = IF lockedBy[n] = h THEN target'[n] ELSE BaseTarget(n)
                             /\ BaseCount(n)' = IF lockedBy[n] = h THEN refCount'[n] ELSE BaseCount(n)
      /\ LogsLocked' /\ EndsLocked'
  BY <1>1, <1>3, EndsCommon
<1>5. ASSUME NEW n \in RefNodes
      PROVE  BaseTarget(n)' = BaseTarget(n) /\ BaseCount(n)' = BaseCount(n)
  <2>1. CASE lockedBy[n] = h
    BY <1>1, <1>2, <1>4, <2>1 DEF BaseTarget, BaseCount
  <2>2. CASE lockedBy[n] # h
    BY <1>4, <2>2
  <2> QED
    BY <2>1, <2>2
<1>6. ASSUME NEW n \in RefNodes, NEW k \in RefHandles \cup {Null}
      PROVE  /\ k # h => TargetSeen(k, n)' = TargetSeen(k, n) /\ CountSeen(k, n)' = CountSeen(k, n)
             /\ k = h => TargetSeen(k, n)' = TargetSeen(Null, n)
  <2>1. /\ TargetSeen(k, n)' = IF lockedBy'[n] = k THEN target'[n] ELSE BaseTarget(n)'
        /\ CountSeen(k, n)' = IF lockedBy'[n] = k THEN refCount'[n] ELSE BaseCount(n)'
        /\ TargetSeen(k, n) = IF lockedBy[n] = k THEN target[n] ELSE BaseTarget(n)
        /\ CountSeen(k, n) = IF lockedBy[n] = k THEN refCount[n] ELSE BaseCount(n)
        /\ TargetSeen(Null, n) = IF lockedBy[n] = Null THEN target[n] ELSE BaseTarget(n)
    BY DEF TargetSeen, CountSeen
  <2>2. lockedBy'[n] = Null => BaseTarget(n)' = target'[n] /\ BaseCount(n)' = refCount'[n]
    BY DEF BaseTarget, BaseCount
  <2>3. lockedBy[n] = Null => BaseTarget(n) = target[n] /\ BaseCount(n) = refCount[n]
    BY DEF BaseTarget, BaseCount
  <2> HIDE DEF TargetSeen, CountSeen, BaseTarget, BaseCount
  <2> QED
    BY <1>2, <1>3, <1>5, <2>1, <2>2, <2>3, RefAssumption
<1> QED
  BY <1>4, <1>6

(* An abort leaves what the others saw. *)
LEMMA AbortKeeps ==
  ASSUME RefInv, RefTypes', NEW h \in RefHandles, AbortRefs(h)
  PROVE  RefInv'
<1>1. /\ nodesAlive' = {n \in nodesAlive : Entries(h, "alloc", n) = {}} /\ EndsRefs(h) /\ RefTypes
      /\ nodesAlive \subseteq RefNodes
  BY DEF AbortRefs, RefInv, RefTypes
<1>2. /\ LogsLocked' /\ EndsLocked'
      /\ \A n \in RefNodes : \A k \in (RefHandles \cup {Null}) \ {h} :
              TargetSeen(k, n)' = TargetSeen(k, n) /\ CountSeen(k, n)' = CountSeen(k, n)
      /\ \A n \in RefNodes : TargetSeen(h, n)' = TargetSeen(Null, n)
  BY AbortSeen
<1>3. /\ refStatus'[h] = "idle" /\ \A k \in RefHandles \ {h} : refStatus'[k] = refStatus[k]
      /\ h # Null
  BY <1>1, EndsLogs
<1>4. /\ \A what, n : Entries(h, what, n)' = {}
      /\ \A k \in RefHandles \ {h} : \A what, n : Entries(k, what, n)' = Entries(k, what, n)
      /\ Deleting(h)' = {} /\ \A k \in RefHandles \ {h} : Deleting(k)' = Deleting(k)
  BY <1>1, EndsEntries
<1>5. CountsFit'
  <2> SUFFICES ASSUME NEW k \in RefHandles \cup {Null}, k # Null => refStatus'[k] = "run",
                      NEW m \in RefNodes
               PROVE  CountSeen(k, m)' = Cardinality({n \in RefNodes : TargetSeen(k, n)' = m})
    BY DEF CountsFit, ExactFor
  <2>1. k # h /\ (k # Null => refStatus[k] = "run")
    BY <1>3
  <2>2. {n \in RefNodes : TargetSeen(k, n)' = m} = {n \in RefNodes : TargetSeen(k, n) = m}
    BY <1>2, <2>1
  <2>3. ExactFor(k)
    BY <2>1 DEF RefInv, CountsFit
  <2> QED
    BY <1>2, <2>1, <2>2, <2>3 DEF ExactFor
<1>6. DeletedFree'
  <2> SUFFICES ASSUME NEW k \in RefHandles, NEW x \in Deleting(k)', NEW n \in RefNodes
               PROVE  TargetSeen(k, n)' # x
    BY DEF DeletedFree, FreeFrom
  <2>1. k # h /\ x \in Deleting(k)
    BY <1>4
  <2>2. TargetSeen(k, n) # x
    BY <2>1 DEF RefInv, DeletedFree, FreeFrom
  <2> QED
    BY <1>2, <2>1, <2>2
<1>7. ASSUME NEW k \in (RefHandles \cup {Null}) \ {h} PROVE AliveTo(k)' = AliveTo(k)
  <2>1. AliveTo(k)' = {n \in nodesAlive' : \A j \in RefHandles \ {k} : Entries(j, "alloc", n)' = {}}
    BY DEF AliveTo
  <2>2. ASSUME NEW n \in nodesAlive
        PROVE  n \in AliveTo(k)' <=> n \in AliveTo(k)
    BY <1>1, <1>4, <1>7, <2>1 DEF AliveTo
  <2> QED
    BY <1>1, <2>1, <2>2 DEF AliveTo
<1>8. AliveTo(h)' = AliveTo(Null)
  <2>1. AliveTo(h)' = {n \in nodesAlive' : \A j \in RefHandles \ {h} : Entries(j, "alloc", n)' = {}}
    BY DEF AliveTo
  <2>2. ASSUME NEW n \in nodesAlive
        PROVE  n \in AliveTo(h)' <=> n \in AliveTo(Null)
    <3>1. n \in AliveTo(Null) <=> \A j \in RefHandles : Entries(j, "alloc", n) = {}
      BY RefAssumption DEF AliveTo
    <3> QED
      BY <1>1, <1>4, <2>1, <2>2, <3>1
  <2> QED
    BY <1>1, <2>1, <2>2 DEF AliveTo
<1>9. TargetsAlive'
  <2> SUFFICES ASSUME NEW k \in RefHandles \cup {Null}, NEW n \in AliveTo(k)'
               PROVE  TargetSeen(k, n)' = Null \/ TargetSeen(k, n)' \in AliveTo(k)'
    BY DEF TargetsAlive, PointsAlive
  <2>1. PointsAlive(k) /\ PointsAlive(Null)
    BY DEF RefInv, TargetsAlive
  <2>2. CASE k = h
    <3>1. n \in AliveTo(Null) /\ n \in RefNodes
      BY <1>1, <1>8, <2>2 DEF AliveTo
    <3> QED
      BY <1>2, <1>8, <2>1, <2>2, <3>1 DEF PointsAlive
  <2>3. CASE k # h
    <3>1. n \in AliveTo(k) /\ n \in RefNodes
      BY <1>1, <1>7, <2>3 DEF AliveTo
    <3> QED
      BY <1>2, <1>7, <2>1, <2>3, <3>1 DEF PointsAlive
  <2> QED
    BY <2>2, <2>3
<1> QED
  BY <1>2, <1>5, <1>6, <1>9 DEF RefInv

-----------------------------------------------------------------------------
(* Types *)

(* Every step keeps the types. *)
LEMMA RefTypesKept ==
  ASSUME RefInv, [RefNext]_refVars
  PROVE  RefTypes'
<1>1. /\ RefTypes /\ usedNodes \subseteq RefNodes /\ nodesAlive \subseteq usedNodes
      /\ target \in [RefNodes -> RefNodes \cup {Null}]
      /\ refCount \in [RefNodes -> Int]
      /\ lockedBy \in [RefNodes -> RefHandles \cup {Null}]
      /\ refStatus \in [RefHandles -> {"idle", "run", "failed"}]
      /\ undoLog \in [RefHandles -> Seq(RefItem)]
  BY DEF RefInv, RefTypes
<1>2. CASE UNCHANGED refVars
  BY <1>1, <1>2 DEF RefTypes, refVars, memVars
<1>3. ASSUME NEW h \in RefHandles, NEW S, Taken(h, S)
      PROVE  lockedBy' \in [RefNodes -> RefHandles \cup {Null}]
  BY <1>1, <1>3 DEF Taken
<1>4. ASSUME NEW h \in RefHandles, NEW s \in Seq(RefItem), Logged(h, s)
      PROVE  undoLog' \in [RefHandles -> Seq(RefItem)]
  <2>1. undoLog[h] \o s \in Seq(RefItem)
    BY <1>1
  <2> QED
    BY <1>1, <1>4, <2>1 DEF Logged
<1>5. ASSUME NEW n \in RefNodes
      PROVE  DecreaseLog(n) \in Seq(RefItem) /\ Decreased(n) \in [RefNodes -> Int]
  <2>1. DecreaseLog(n) \in Seq(RefItem)
    BY <1>1, DecreaseLogIs
  <2>2. Decreased(n) \in [RefNodes -> Int]
    BY <1>1 DEF Decreased
  <2> QED
    BY <2>1, <2>2
<1>6. ASSUME NEW h \in RefHandles, EndsRefs(h)
      PROVE  /\ usedNodes' = usedNodes /\ lockedBy' \in [RefNodes -> RefHandles \cup {Null}]
             /\ refStatus' \in [RefHandles -> {"idle", "run", "failed"}]
             /\ undoLog' \in [RefHandles -> Seq(RefItem)]
  BY <1>1, <1>6 DEF EndsRefs
<1>7. ASSUME NEW h \in RefHandles, RefBegin(h) PROVE RefTypes'
  BY <1>1, <1>7 DEF RefTypes, RefBegin, memVars
<1>8. ASSUME NEW h \in RefHandles, CommitRefs(h) PROVE RefTypes'
  BY <1>1, <1>6, <1>8 DEF RefTypes, CommitRefs, memVars
<1>9. ASSUME NEW h \in RefHandles, AbortRefs(h) PROVE RefTypes'
  <2>1. target' \in [RefNodes -> RefNodes \cup {Null}] /\ refCount' \in [RefNodes -> Int]
    BY <1>1, <1>9, UndoneTypes DEF AbortRefs
  <2>2. nodesAlive' \subseteq usedNodes /\ EndsRefs(h)
    BY <1>1, <1>9 DEF AbortRefs
  <2> QED
    BY <1>1, <1>6, <2>1, <2>2 DEF RefTypes
<1>10. ASSUME NEW h \in RefHandles, NEW n \in RefNodes, CreateNode(h, n) PROVE RefTypes'
  <2>1. <<Alloc(n)>> \in Seq(RefItem)
    BY DEF Alloc, RefItem
  <2>2. /\ usedNodes' = usedNodes \cup {n} /\ nodesAlive' = nodesAlive \cup {n}
        /\ target' = target /\ refCount' = refCount /\ refStatus' = refStatus
        /\ Taken(h, {n}) /\ Logged(h, <<Alloc(n)>>)
    BY <1>10 DEF CreateNode, memVars
  <2> QED
    BY <1>1, <1>3, <1>4, <2>1, <2>2 DEF RefTypes
<1>11. ASSUME NEW h \in RefHandles, NEW n \in RefNodes, WriteNull(h, n) PROVE RefTypes'
  BY <1>1, <1>11 DEF RefTypes, WriteNull, memVars
<1>12. ASSUME NEW h \in RefHandles, NEW n \in RefNodes, DeleteRefused(h, n) PROVE RefTypes'
  <2>1. UNCHANGED <<usedNodes, nodesAlive, target, refCount, refStatus, undoLog>> /\ Taken(h, {n})
    BY <1>12 DEF DeleteRefused, memVars
  <2> QED
    BY <1>1, <1>3, <2>1 DEF RefTypes
<1>13. ASSUME NEW h \in RefHandles, NEW n \in RefNodes, DeleteNode(h, n) PROVE RefTypes'
  <2>1. <<Delete(n)>> \in Seq(RefItem)
    BY DEF Delete, RefItem
  <2>2. /\ UNCHANGED <<usedNodes, nodesAlive, target, refCount, refStatus>> /\ Taken(h, {n})
        /\ undoLog' = undoLog \/ Logged(h, <<Delete(n)>>)
    BY <1>13 DEF DeleteNode, memVars
  <2> QED
    BY <1>1, <1>3, <1>4, <2>1, <2>2 DEF RefTypes
<1>14. ASSUME NEW h \in RefHandles, NEW n \in RefNodes, NEW m \in RefNodes, WritePointer(h, n, m)
       PROVE  RefTypes'
  <2> DEFINE r == [Raw(m) EXCEPT !.old = Decreased(n)[m]]
             t == DecreaseLog(n) \o <<r, Modify(n)>>
  <2>1. Decreased(n)[m] \in Int
    BY <1>5
  <2>2. r \in RefItem /\ Modify(n) \in RefItem
    BY <1>1, <2>1 DEF Raw, Modify, RefItem
  <2>3. <<r, Modify(n)>> \in Seq(RefItem)
    <3> HIDE DEF r
    <3> QED
      BY <2>2
  <2>4. t \in Seq(RefItem)
    <3> HIDE DEF r
    <3> QED
      BY <1>5, <2>3
  <2>5. /\ UNCHANGED <<usedNodes, nodesAlive, refStatus>>
        /\ target' = [target EXCEPT ![n] = m] /\ refCount' = [Decreased(n) EXCEPT ![m] = @ + 1]
        /\ Taken(h, {n, m} \cup OldTarget(n)) /\ Logged(h, t)
    BY <1>14 DEF WritePointer
  <2>6. target' \in [RefNodes -> RefNodes \cup {Null}] /\ refCount' \in [RefNodes -> Int]
    BY <1>1, <1>5, <2>1, <2>5
  <2> HIDE DEF t
  <2> QED
    BY <1>1, <1>3, <1>4, <2>4, <2>5, <2>6 DEF RefTypes
<1>15. ASSUME NEW h \in RefHandles, NEW n \in RefNodes, NEW m \in RefNodes, WritePointerFails(h, n, m)
       PROVE  RefTypes'
  <2>1. /\ UNCHANGED <<usedNodes, nodesAlive, target>>
        /\ refStatus' \in [RefHandles -> {"idle", "run", "failed"}]
    BY <1>1, <1>15 DEF WritePointerFails, Fails
  <2>2. lockedBy' = lockedBy \/ \E S : Taken(h, S)
    BY <1>15 DEF WritePointerFails
  <2>3. refCount' \in [RefNodes -> Int]
    BY <1>1, <1>5, <1>15 DEF WritePointerFails
  <2>4. undoLog' = undoLog \/ Logged(h, DecreaseLog(n))
    BY <1>15 DEF WritePointerFails
  <2> QED
    BY <1>1, <1>3, <1>4, <1>5, <2>1, <2>2, <2>3, <2>4 DEF RefTypes
<1> QED
  BY <1>2, <1>7, <1>8, <1>9, <1>10, <1>11, <1>12, <1>13, <1>14, <1>15 DEF RefNext

(* The invariant holds when there is no node. *)
LEMMA RefInitially ==
  ASSUME RefInit
  PROVE  RefInv
<1>1. \A h \in RefHandles : undoLog[h] = <<>> /\ refStatus[h] = "idle"
  BY DEF RefInit
<1>2. \A n \in RefNodes : lockedBy[n] = Null /\ target[n] = Null /\ refCount[n] = 0
  BY DEF RefInit
<1>3. RefTypes
  BY RefAssumption DEF RefInit, RefTypes
<1>4. LogsLocked
  BY <1>1, <1>2, RefAssumption DEF LogsLocked, Held
<1>5. \A n \in RefNodes : \A h : TargetSeen(h, n) = Null /\ BaseTarget(n) = Null /\ CountSeen(h, n) = 0
  BY <1>2 DEF TargetSeen, BaseTarget, CountSeen, BaseCount
<1>6. EndsLocked
  BY <1>2, <1>5 DEF EndsLocked
<1>7. CountsFit
  <2> SUFFICES ASSUME NEW h, NEW m \in RefNodes
               PROVE  CountSeen(h, m) = Cardinality({n \in RefNodes : TargetSeen(h, n) = m})
    BY DEF CountsFit, ExactFor
  <2>1. {n \in RefNodes : TargetSeen(h, n) = m} = {}
    BY <1>5, RefAssumption
  <2> QED
    BY <1>5, <2>1, FS_EmptySet
<1>8. DeletedFree
  BY <1>1 DEF DeletedFree, FreeFrom, Deleting
<1>9. TargetsAlive
  BY <1>5, <1>3 DEF TargetsAlive, PointsAlive, AliveTo, RefTypes
<1> QED
  BY <1>3, <1>4, <1>6, <1>7, <1>8, <1>9 DEF RefInv

(* Every step keeps the invariant. *)
LEMMA RefKept ==
  ASSUME RefInv, FoundInv, [RefNext]_refVars
  PROVE  RefInv'
<1>1. RefTypes'
  BY RefTypesKept
<1>2. CASE UNCHANGED <<usedNodes, nodesAlive, target, refCount, lockedBy, refStatus, undoLog>>
  <2>1. LogsLocked'
    BY <1>2 DEF RefInv, LogsLocked, Held
  <2>2. \A n \in RefNodes : BaseTarget(n)' = BaseTarget(n) /\ BaseCount(n)' = BaseCount(n)
    BY <1>2 DEF BaseTarget, BaseCount, Undone, Entries
  <2>3. \A k : \A n \in RefNodes : TargetSeen(k, n)' = TargetSeen(k, n) /\ CountSeen(k, n)' = CountSeen(k, n)
    BY <1>2, <2>2 DEF TargetSeen, CountSeen
  <2>4. \A k : AliveTo(k)' = AliveTo(k) /\ Deleting(k)' = Deleting(k) /\ AliveTo(k) \subseteq RefNodes
    BY <1>2 DEF AliveTo, Entries, Deleting, RefInv, RefTypes
  <2>5. EndsLocked'
    BY <1>2, <2>2 DEF RefInv, EndsLocked
  <2>6. CountsFit'
    <3> SUFFICES ASSUME NEW k \in RefHandles \cup {Null}, k # Null => refStatus[k] = "run", NEW m \in RefNodes
                 PROVE  CountSeen(k, m)' = Cardinality({n \in RefNodes : TargetSeen(k, n)' = m})
      BY <1>2 DEF CountsFit, ExactFor
    <3>1. {n \in RefNodes : TargetSeen(k, n)' = m} = {n \in RefNodes : TargetSeen(k, n) = m}
      BY <2>3
    <3> QED
      BY <2>3, <3>1 DEF RefInv, CountsFit, ExactFor
  <2>7. DeletedFree'
    BY <2>3, <2>4 DEF RefInv, DeletedFree, FreeFrom
  <2>8. TargetsAlive'
    <3> SUFFICES ASSUME NEW k \in RefHandles \cup {Null}, NEW n \in AliveTo(k)'
                 PROVE  TargetSeen(k, n)' = Null \/ TargetSeen(k, n)' \in AliveTo(k)'
      BY DEF TargetsAlive, PointsAlive
    <3> QED
      BY <2>3, <2>4 DEF RefInv, TargetsAlive, PointsAlive
  <2> QED
    BY <1>1, <2>1, <2>5, <2>6, <2>7, <2>8 DEF RefInv
<1>3. ASSUME NEW h \in RefHandles, NEW n \in RefNodes, DeleteRefused(h, n) PROVE RefInv'
  <2>1. n \in nodesAlive
    BY <1>3, KnownAlive DEF DeleteRefused
  <2> QED
    BY <1>1, <1>3, <2>1, LockKeeps DEF DeleteRefused, Running, memVars
<1>4. ASSUME NEW h \in RefHandles, NEW n \in RefNodes, WriteNull(h, n) PROVE RefInv'
  BY <1>2, <1>4 DEF WriteNull, memVars
<1> QED
  BY <1>1, <1>2, <1>3, <1>4, BeginKeeps, CommitKeeps, AbortKeeps, CreateKeeps, DeleteKeeps,
     WriteKeeps, WriteFailsKeeps DEF RefNext, refVars, memVars

(* Deletions are committed by whoever has the node locked, and its lock is too
   new for all that run then. *)
LEMMA FoundKept ==
  ASSUME RefInv, FoundInv, [RefNext]_refVars
  PROVE  FoundInv'
<1>1. /\ found \in [RefHandles -> SUBSET RefNodes] /\ tooNew \in [RefHandles -> SUBSET RefNodes]
      /\ refStatus \in [RefHandles -> {"idle", "run", "failed"}]
      /\ lockedBy \in [RefNodes -> RefHandles \cup {Null}] /\ Null \notin RefHandles
      /\ nodesAlive \subseteq RefNodes /\ LogsLocked
  BY RefAssumption DEF FoundInv, RefInv, RefTypes
<1>2. /\ \A n \in RefNodes : lockedBy[n] # Null => n \in nodesAlive
      /\ \A h \in RefHandles : refStatus[h] # "idle" => found[h] \subseteq nodesAlive \cup tooNew[h]
  BY DEF FoundInv
<1>3. CASE UNCHANGED refVars
  BY <1>1, <1>2, <1>3 DEF FoundInv, refVars
<1>4. ASSUME NEW h \in RefHandles, RefBegin(h) PROVE FoundInv'
  BY <1>1, <1>2, <1>4 DEF FoundInv, RefBegin
<1>5. ASSUME NEW h \in RefHandles, NEW n \in RefNodes, CreateNode(h, n) PROVE FoundInv'
  <2>1. /\ nodesAlive' = nodesAlive \cup {n} /\ tooNew' = tooNew /\ refStatus' = refStatus
        /\ found' = [k \in RefHandles |-> IF refStatus[k] = "idle" THEN {} ELSE found[k] \cup {n}]
        /\ lockedBy' = [k \in RefNodes |-> IF k \in {n} THEN h ELSE lockedBy[k]]
    BY <1>5 DEF CreateNode, Taken
  <2> QED
    BY <1>1, <1>2, <2>1 DEF FoundInv
<1>6. ASSUME NEW h \in RefHandles, NEW S, Taken(h, S), \A n \in S \cap RefNodes : n \in nodesAlive,
             UNCHANGED <<nodesAlive, tooNew, found>>,
             \A k \in RefHandles : refStatus'[k] # "idle" => refStatus[k] # "idle"
      PROVE  FoundInv'
  BY <1>1, <1>2, <1>6 DEF FoundInv, Taken
<1>7. ASSUME NEW h \in RefHandles, NEW n \in RefNodes,
             WriteNull(h, n) \/ DeleteRefused(h, n) \/ DeleteNode(h, n)
      PROVE  FoundInv'
  <2>1. CASE WriteNull(h, n)
    BY <1>1, <1>2, <2>1 DEF FoundInv, WriteNull
  <2>2. CASE DeleteRefused(h, n) \/ DeleteNode(h, n)
    <3>1. n \in nodesAlive
      BY <2>2, KnownAlive DEF DeleteRefused, DeleteNode
    <3>2. Taken(h, {n}) /\ UNCHANGED <<nodesAlive, tooNew, found, refStatus>>
      BY <2>2 DEF DeleteRefused, DeleteNode
    <3> QED
      BY <1>6, <3>1, <3>2
  <2> QED
    BY <1>7, <2>1, <2>2
<1>8. ASSUME NEW h \in RefHandles, NEW n \in nodesAlive, Locks(h, n), Releases(h, n)
      PROVE  \A x \in OldTarget(n) : x \in nodesAlive
  <2>1. ASSUME NEW x \in OldTarget(n) PROVE x \in nodesAlive
    BY <1>8, <2>1, KnownIs DEF OldTarget, AliveTo
  <2> QED
    BY <2>1
<1>9. ASSUME NEW h \in RefHandles, NEW n \in RefNodes, NEW m \in RefNodes, WritePointer(h, n, m)
      PROVE  FoundInv'
  <2>1. Running(h) /\ n \in Known(h) /\ m \in Known(h) /\ Locks(h, n) /\ Locks(h, m) /\ Releases(h, n)
    BY <1>9 DEF WritePointer
  <2>2. n \in nodesAlive /\ m \in nodesAlive
    BY <2>1, KnownAlive
  <2>3. \A x \in {n, m} \cup OldTarget(n) : x \in nodesAlive
    BY <1>8, <2>1, <2>2
  <2>4. Taken(h, {n, m} \cup OldTarget(n)) /\ UNCHANGED <<nodesAlive, tooNew, found, refStatus>>
    BY <1>9 DEF WritePointer
  <2> QED
    BY <1>6, <2>3, <2>4
<1>10. ASSUME NEW h \in RefHandles, NEW n \in RefNodes, NEW m \in RefNodes, WritePointerFails(h, n, m)
       PROVE  FoundInv'
  <2>1. /\ Running(h) /\ n \in Known(h) /\ UNCHANGED <<nodesAlive, tooNew, found>>
        /\ refStatus' = [refStatus EXCEPT ![h] = "failed"]
    BY <1>10 DEF WritePointerFails, Fails
  <2>2. \A k \in RefHandles : refStatus'[k] # "idle" => refStatus[k] # "idle"
    BY <1>1, <2>1 DEF Running
  <2>3. CASE lockedBy' = lockedBy
    BY <1>1, <1>2, <2>1, <2>2, <2>3 DEF FoundInv
  <2>4. CASE Locks(h, n) /\ Taken(h, {n})
    <3>1. n \in nodesAlive
      BY <2>1, <2>4, KnownAlive
    <3> QED
      BY <1>6, <2>1, <2>2, <2>4, <3>1
  <2>5. CASE Locks(h, n) /\ Releases(h, n) /\ Taken(h, {n} \cup OldTarget(n))
    <3>1. n \in nodesAlive
      BY <2>1, <2>5, KnownAlive
    <3>2. \A x \in {n} \cup OldTarget(n) : x \in nodesAlive
      BY <1>8, <2>5, <3>1
    <3> QED
      BY <1>6, <2>1, <2>2, <2>5, <3>2
  <2> QED
    BY <1>10, <2>3, <2>4, <2>5 DEF WritePointerFails
<1>11. ASSUME NEW h \in RefHandles, EndsRefs(h), NEW gone, gone \subseteq Held(h),
              nodesAlive' = nodesAlive \ gone
       PROVE  FoundInv'
  <2>1. /\ lockedBy' = [n \in RefNodes |-> IF n \in Held(h) THEN Null ELSE lockedBy[n]]
        /\ tooNew' = [k \in RefHandles |-> IF k = h \/ refStatus[k] = "idle"
                                            THEN {} ELSE tooNew[k] \cup Held(h)]
        /\ found' = [found EXCEPT ![h] = {}]
        /\ refStatus' = [refStatus EXCEPT ![h] = "idle"]
        /\ Held(h) \subseteq RefNodes
    BY <1>11 DEF EndsRefs, Held
  <2>2. found' \in [RefHandles -> SUBSET RefNodes] /\ tooNew' \in [RefHandles -> SUBSET RefNodes]
    BY <1>1, <2>1
  <2>3. ASSUME NEW n \in RefNodes, lockedBy'[n] # Null PROVE n \in nodesAlive'
    BY <1>2, <1>11, <2>1, <2>3
  <2>4. ASSUME NEW k \in RefHandles, refStatus'[k] # "idle"
        PROVE  found'[k] \subseteq nodesAlive' \cup tooNew'[k]
    <3>1. k # h /\ refStatus[k] # "idle"
      BY <1>1, <2>1, <2>4
    <3>2. found'[k] = found[k] /\ tooNew'[k] = tooNew[k] \cup Held(h)
      BY <1>1, <2>1, <3>1
    <3> QED
      BY <1>2, <1>11, <3>1, <3>2
  <2> QED
    BY <2>2, <2>3, <2>4 DEF FoundInv
<1>12. ASSUME NEW h \in RefHandles, CommitRefs(h) PROVE FoundInv'
  <2>1. ASSUME NEW n \in nodesAlive \cap Deleting(h) PROVE n \in Held(h)
    BY <1>1, <2>1, DeletingLocked DEF Held
  <2>2. nodesAlive' = nodesAlive \ (nodesAlive \cap Deleting(h)) /\ EndsRefs(h)
    BY <1>12 DEF CommitRefs
  <2> QED
    BY <1>11, <2>1, <2>2
<1>13. ASSUME NEW h \in RefHandles, AbortRefs(h) PROVE FoundInv'
  <2> DEFINE gone == {n \in nodesAlive : Entries(h, "alloc", n) # {}}
  <2>1. ASSUME NEW n \in gone PROVE n \in Held(h)
    BY <1>1, <2>1, OnlyLocked DEF Held
  <2>2. nodesAlive' = nodesAlive \ gone /\ EndsRefs(h)
    BY <1>13 DEF AbortRefs
  <2> HIDE DEF gone
  <2> QED
    BY <1>11, <2>1, <2>2
<1> QED
  BY <1>3, <1>4, <1>5, <1>7, <1>9, <1>10, <1>12, <1>13 DEF RefNext

(* The invariant of the reference counts holds always, and that of what the
   handles have found. *)
LEMMA RefAlways == RefSpec => [](RefInv /\ FoundInv)
<1>1. RefInit => RefInv /\ FoundInv
  <2>1. RefInit => FoundInv
    BY DEF RefInit, FoundInv
  <2> QED
    BY <2>1, RefInitially
<1>2. RefInv /\ FoundInv /\ [RefNext]_refVars => (RefInv /\ FoundInv)'
  BY RefKept, FoundKept
<1> QED
  BY <1>1, <1>2, PTL DEF RefSpec

(* The count of a node nobody has locked is the number of the nodes that point
   to it, whatever transactions are running, have failed half way or were
   undone (database.include/node.c, attributes/defs.h). *)
THEOREM CountsAlwaysExact == RefSpec => []CountsAreExact
<1>1. ASSUME RefInv PROVE CountsAreExact
  <2> SUFFICES ASSUME NEW m \in nodesAlive, lockedBy[m] = Null
               PROVE  refCount[m] = Cardinality({n \in RefNodes : target[n] = m})
    BY DEF CountsAreExact
  <2>1. m \in RefNodes /\ ExactFor(Null)
    BY <1>1 DEF RefInv, RefTypes, CountsFit
  <2>2. CountSeen(Null, m) = refCount[m]
    BY DEF CountSeen
  <2>3. ASSUME NEW n \in RefNodes PROVE TargetSeen(Null, n) = m <=> target[n] = m
    <3>1. TargetSeen(Null, n) = target[n] \/ (TargetSeen(Null, n) = BaseTarget(n) /\ lockedBy[n] # Null)
      BY DEF TargetSeen
    <3>2. target[n] # BaseTarget(n) /\ (m = target[n] \/ m = BaseTarget(n)) => lockedBy[m] = lockedBy[n]
      BY <1>1, <2>1, RefAssumption DEF RefInv, EndsLocked
    <3> QED
      BY <3>1, <3>2
  <2>4. {n \in RefNodes : TargetSeen(Null, n) = m} = {n \in RefNodes : target[n] = m}
    BY <2>3
  <2> QED
    BY <2>1, <2>2, <2>4 DEF ExactFor
<1> QED
  BY <1>1, RefAlways, PTL

(* No node that is there points to one that is deleted, or that a running
   transaction is deleting (database.include/node.c:63): whatever a transaction
   has found before its deletion was committed, it cannot lock afterwards. *)
THEOREM PointersNeverDangle == RefSpec => []NoDanglingPointer
<1>1. ASSUME RefInv PROVE NoDanglingPointer
  <2> DEFINE gone == RefNodes \ (nodesAlive \ UNION {Deleting(h) : h \in RefHandles})
  <2> SUFFICES ASSUME NEW n \in RefNodes \ gone PROVE target[n] \notin gone
    BY DEF NoDanglingPointer
  <2>1. n \in nodesAlive /\ n \in RefNodes
    OBVIOUS
  <2> DEFINE y == target[n]
             k == lockedBy[n]
  <2>2. k \in RefHandles \cup {Null} /\ LogsLocked
    BY <1>1, <2>1 DEF RefInv, RefTypes
  <2>3. TargetSeen(k, n) = y
    BY DEF TargetSeen
  <2>4. n \in AliveTo(k)
    <3>1. \A j \in RefHandles \ {k} : Entries(j, "alloc", n) = {}
      BY <2>2, OnlyLocked
    <3> QED
      BY <2>1, <3>1 DEF AliveTo
  <2>5. y = Null \/ y \in AliveTo(k)
    BY <1>1, <2>2, <2>3, <2>4 DEF RefInv, TargetsAlive, PointsAlive
  <2>6. CASE y = Null
    BY <2>6, RefAssumption
  <2>7. CASE y \in AliveTo(k) /\ y # Null
    <3>1. y \in nodesAlive
      BY <2>7 DEF AliveTo
    <3>2. ASSUME NEW j \in RefHandles, y \in Deleting(j) PROVE FALSE
      <4>1. lockedBy[y] = j /\ TargetSeen(j, n) # y
        BY <1>1, <2>1, <2>2, <3>2, DeletingLocked DEF RefInv, DeletedFree, FreeFrom
      <4>2. j # k
        BY <2>3, <4>1
      <4>3. TargetSeen(j, n) = BaseTarget(n)
        BY <4>2 DEF TargetSeen
      <4>4. target[n] # BaseTarget(n)
        BY <4>1, <4>3
      <4>5. lockedBy[y] = lockedBy[n]
        BY <1>1, <2>1, <2>7, <4>4 DEF RefInv, EndsLocked
      <4> QED
        BY <4>1, <4>2, <4>5
    <3> QED
      BY <3>1, <3>2
  <2> QED
    BY <2>5, <2>6, <2>7
<1> QED
  BY <1>1, RefAlways, PTL

-----------------------------------------------------------------------------
(* The dictionary *)

(* Everything has the shape it should have. *)
DictTypes ==
  /\ dictSize \in Nat /\ capIndex \in 1 .. Len(Capacities) - 1
  /\ cellKey \in [Cells -> Nat] /\ cellVal = [c \in Cells |-> cellVal[c]]
  /\ \A p \in dictPages : p \subseteq Cells

(* B holds cells, each in the bucket its key is hashed to. *)
InBuckets(B, i, key, cells) ==
  /\ DOMAIN B = 0 .. Capacities[i] - 1
  /\ \A b \in DOMAIN B : B[b] = {c \in cells : Hash(Capacities[i], key[c]) = b}
  /\ i = 1 => cells = {}

(* A cell of a page is free or in a bucket, and no other cell is. *)
CellsShared ==
  /\ freeCells \cup Chained = UNION dictPages
  /\ freeCells \cap Chained = {}

(* The cells in the buckets are the entries, each of them once. *)
EntriesHeld ==
  /\ DOMAIN entries = {cellKey[c] : c \in Chained}
  /\ \A c \in Chained : entries[cellKey[c]] = cellVal[c]
  /\ \A c, d \in Chained : cellKey[c] = cellKey[d] => c = d
  /\ IsFiniteSet(DOMAIN entries)
  /\ dictSize = Cardinality(DOMAIN entries)

DictInv == /\ DictTypes /\ InBuckets(buckets, capIndex, cellKey, Chained)
           /\ CellsShared /\ EntriesHeld

(* A key is hashed to a bucket there is. *)
LEMMA HashInRange ==
  ASSUME NEW k \in Nat, NEW cap \in Nat, cap # 0
  PROVE  Hash(cap, k) \in 0 .. cap - 1
<1>1. k * HashFactor \in Nat
  BY DictAssumption
<1>2. \A x \in Nat : x % cap \in 0 .. cap - 1
  OBVIOUS
<1> QED
  BY <1>1, <1>2 DEF Hash

(* The capacity is zero before the first insertion only, and no index that is
   reached lies outside of the table. *)
LEMMA CapacityNat ==
  ASSUME NEW i \in 1 .. Len(Capacities)
  PROVE  /\ Capacities[i] \in Nat
         /\ Capacities[i] = 0 <=> i = 1 \/ i = Len(Capacities)
         /\ Len(Capacities) \in Nat /\ Len(Capacities) > 2
BY DictAssumption

(* One page more. *)
LEMMA PageMapped ==
  ASSUME NEW pages, NEW page, NEW after, after = (pages \cup {page}) \ {{}}
  PROVE  UNION after = (UNION pages) \cup page
<1>1. ASSUME NEW x \in UNION after PROVE x \in (UNION pages) \cup page
  <2>1. PICK p \in after : x \in p
    BY <1>1
  <2>2. p \in pages \/ p = page
    BY <2>1
  <2>3. CASE p \in pages
    <3>1. x \in UNION pages
      BY <2>1, <2>3
    <3> QED
      BY <3>1
  <2> QED
    BY <2>1, <2>2, <2>3
<1>2. ASSUME NEW x \in UNION pages PROVE x \in UNION after
  <2>1. PICK p \in pages : x \in p
    BY <1>2
  <2>2. p \in after
    BY <2>1
  <2> QED
    BY <2>1, <2>2
<1>3. ASSUME NEW x \in page PROVE x \in UNION after
  <2>1. page \in after
    BY <1>3
  <2> QED
    BY <1>3, <2>1
<1> PICK u : u = UNION pages
  OBVIOUS
<1> PICK v : v = UNION after
  OBVIOUS
<1>4. v \subseteq u \cup page
  BY <1>1
<1>5. u \cup page \subseteq v
  BY <1>2, <1>3
<1>6. v = u \cup page
  BY <1>4, <1>5
<1> QED
  BY <1>6

(* What is in the buckets altogether. *)
LEMMA BucketsUnion ==
  ASSUME NEW i \in 1 .. Len(Capacities) - 1, NEW B, NEW key \in [Cells -> Nat],
         NEW cells \in SUBSET Cells, InBuckets(B, i, key, cells)
  PROVE  /\ UNION {B[b] : b \in DOMAIN B} = cells
         /\ \A c \in cells : Hash(Capacities[i], key[c]) \in DOMAIN B
<1>1. /\ Capacities[i] \in Nat /\ (Capacities[i] = 0 => i = 1)
  BY CapacityNat
<1>2. ASSUME NEW c \in cells PROVE Hash(Capacities[i], key[c]) \in DOMAIN B
  BY <1>1, HashInRange DEF InBuckets
<1>3. ASSUME NEW c \in cells PROVE \E b \in DOMAIN B : c \in B[b]
  BY <1>2 DEF InBuckets
<1>4. ASSUME NEW b \in DOMAIN B PROVE B[b] \subseteq cells
  BY DEF InBuckets
<1> QED
  BY <1>2, <1>3, <1>4

(* All cells hashed anew. *)
LEMMA Resized ==
  ASSUME NEW i \in 2 .. Len(Capacities), NEW cells
  PROVE  InBuckets(Resize(cells, i), i, cellKey, cells)
BY DEF InBuckets, Resize

(* One cell more, with the key k. *)
LEMMA CellAdded ==
  ASSUME NEW i \in 2 .. Len(Capacities) - 1, NEW B, NEW key \in [Cells -> Nat],
         NEW cells \in SUBSET Cells, InBuckets(B, i, key, cells),
         NEW c \in Cells \ cells, NEW k \in Nat
  PROVE  InBuckets([B EXCEPT ![Hash(Capacities[i], k)] = @ \cup {c}], i,
                   [key EXCEPT ![c] = k], cells \cup {c})
<1> DEFINE h == Hash(Capacities[i], k)
           C == [B EXCEPT ![h] = @ \cup {c}]
           new == [key EXCEPT ![c] = k]
<1>1. h \in DOMAIN B
  <2>1. Capacities[i] \in Nat /\ Capacities[i] # 0
    BY CapacityNat
  <2> QED
    BY <2>1, HashInRange DEF InBuckets
<1>2. DOMAIN C = DOMAIN B
  OBVIOUS
<1>3. new[c] = k /\ \A d \in cells : new[d] = key[d]
  OBVIOUS
<1> HIDE DEF new
<1>4. ASSUME NEW b \in DOMAIN B
      PROVE  C[b] = {d \in cells \cup {c} : Hash(Capacities[i], new[d]) = b}
  <2>1. B[b] = {d \in cells : Hash(Capacities[i], key[d]) = b}
    BY DEF InBuckets
  <2>2. C[b] = IF b = h THEN B[b] \cup {c} ELSE B[b]
    OBVIOUS
  <2> HIDE DEF C
  <2> QED
    BY <1>3, <2>1, <2>2
<1> QED
  BY <1>2, <1>4 DEF InBuckets, new

(* One cell less. *)
LEMMA CellRemoved ==
  ASSUME NEW i \in 2 .. Len(Capacities) - 1, NEW B, NEW key,
         NEW cells, InBuckets(B, i, key, cells), NEW c \in cells
  PROVE  InBuckets([B EXCEPT ![Hash(Capacities[i], key[c])] = @ \ {c}], i, key, cells \ {c})
<1> DEFINE h == Hash(Capacities[i], key[c])
           C == [B EXCEPT ![h] = @ \ {c}]
<1>1. DOMAIN C = DOMAIN B
  OBVIOUS
<1>2. ASSUME NEW b \in DOMAIN B
      PROVE  C[b] = {d \in cells \ {c} : Hash(Capacities[i], key[d]) = b}
  <2>1. B[b] = {d \in cells : Hash(Capacities[i], key[d]) = b}
    BY DEF InBuckets
  <2>2. C[b] = IF b = h THEN B[b] \ {c} ELSE B[b]
    OBVIOUS
  <2> HIDE DEF C
  <2> QED
    BY <2>1, <2>2
<1> QED
  BY <1>1, <1>2 DEF InBuckets

(* The cells a bucket is searched for. *)
LEMMA FoundCells ==
  ASSUME DictInv, NEW k \in Nat
  PROVE  GetNode(k) = {c \in Chained : cellKey[c] = k}
<1>1. capIndex \in 1 .. Len(Capacities) - 1 /\ Len(Capacities) \in Nat
  BY CapacityNat, DictAssumption DEF DictInv, DictTypes
<1>2. CASE Capacity = 0
  BY <1>1, <1>2, CapacityNat DEF GetNode, Capacity, DictInv, InBuckets
<1>3. CASE Capacity # 0
  <2>1. Hash(Capacity, k) \in DOMAIN buckets
    <3>1. Capacity \in Nat
      BY <1>1, CapacityNat DEF Capacity
    <3> QED
      BY <1>3, <3>1, HashInRange DEF Capacity, DictInv, InBuckets
  <2> QED
    BY <1>3, <2>1 DEF GetNode, Capacity, DictInv, InBuckets
<1> QED
  BY <1>2, <1>3

(* A new dictionary has no bucket and no entry. *)
LEMMA DictInitOk ==
  ASSUME DictInit
  PROVE  DictInv
<1>1. Len(Capacities) \in Nat /\ Len(Capacities) > 2 /\ Capacities[1] = 0
  BY DictAssumption, CapacityNat
<1>2. DOMAIN buckets = {} /\ DOMAIN entries = {} /\ Chained = {}
  BY DEF DictInit, Chained
<1>3. DictTypes
  BY <1>1 DEF DictInit, DictTypes
<1>4. InBuckets(buckets, capIndex, cellKey, Chained)
  BY <1>1, <1>2 DEF DictInit, InBuckets
<1>5. CellsShared
  BY <1>2 DEF DictInit, CellsShared
<1>6. EntriesHeld
  BY <1>2, FS_EmptySet DEF DictInit, EntriesHeld
<1> QED
  BY <1>3, <1>4, <1>5, <1>6 DEF DictInv

(* num_dictionary_destroy leaves a new dictionary. *)
LEMMA DestroyOk ==
  ASSUME DictInv, Destroy
  PROVE  DictInv'
<1>1. Len(Capacities) \in Nat /\ Len(Capacities) > 2 /\ Capacities[1] = 0
  BY DictAssumption, CapacityNat
<1>2. DOMAIN buckets' = {} /\ DOMAIN entries' = {} /\ Chained' = {}
  BY DEF Destroy, Chained
<1>3. DictTypes'
  BY <1>1 DEF Destroy, DictTypes, DictInv
<1>4. InBuckets(buckets, capIndex, cellKey, Chained)'
  BY <1>1, <1>2 DEF Destroy, InBuckets
<1>5. CellsShared'
  BY <1>2 DEF Destroy, CellsShared
<1>6. EntriesHeld'
  BY <1>2, FS_EmptySet DEF Destroy, EntriesHeld
<1> QED
  BY <1>3, <1>4, <1>5, <1>6 DEF DictInv

(* num_dictionary_insert, with or without growing. *)
LEMMA InsertOk ==
  ASSUME DictInv, NEW k \in Keys, NEW v \in Vals, Insert(k, v)
  PROVE  DictInv'
<1>1. PICK page \in NewPages : \E c \in freeCells \cup page : 
    /\ dictPages' = (dictPages \cup {page}) \ {{}}
    /\ cellKey' = [cellKey EXCEPT ![c] = k]
    /\ cellVal' = [cellVal EXCEPT ![c] = v]
    /\ IF GetNode(k) # {}
       THEN /\ freeCells' = freeCells \cup page
            /\ UNCHANGED <<dictSize, capIndex, buckets, entries>>
       ELSE LET grow  == Capacity < 2 * dictSize + 1
                i     == IF grow THEN capIndex + 1 ELSE capIndex
                wider == IF grow THEN Resize(Chained, i) ELSE buckets
            IN  /\ Capacities[i] # 0
                /\ capIndex' = i
                /\ buckets' = [wider EXCEPT ![Hash(Capacities[i], k)] = @ \cup {c}]
                /\ dictSize' = dictSize + 1
                /\ freeCells' = (freeCells \cup page) \ {c}
                /\ entries' = [x \in DOMAIN entries \cup {k} |->
                                 IF x = k THEN v ELSE entries[x]]
  BY DEF Insert
<1>2. PICK c \in freeCells \cup page : 
    /\ dictPages' = (dictPages \cup {page}) \ {{}}
    /\ cellKey' = [cellKey EXCEPT ![c] = k]
    /\ cellVal' = [cellVal EXCEPT ![c] = v]
    /\ IF GetNode(k) # {}
       THEN /\ freeCells' = freeCells \cup page
            /\ UNCHANGED <<dictSize, capIndex, buckets, entries>>
       ELSE LET grow  == Capacity < 2 * dictSize + 1
                i     == IF grow THEN capIndex + 1 ELSE capIndex
                wider == IF grow THEN Resize(Chained, i) ELSE buckets
            IN  /\ Capacities[i] # 0
                /\ capIndex' = i
                /\ buckets' = [wider EXCEPT ![Hash(Capacities[i], k)] = @ \cup {c}]
                /\ dictSize' = dictSize + 1
                /\ freeCells' = (freeCells \cup page) \ {c}
                /\ entries' = [x \in DOMAIN entries \cup {k} |->
                                 IF x = k THEN v ELSE entries[x]]
  BY <1>1
<1>3. k \in Nat /\ page \subseteq Cells /\ page \cap UNION dictPages = {}
  BY DictAssumption DEF NewPages
<1>4. /\ UNION dictPages' = (UNION dictPages) \cup page
      /\ \A p \in dictPages' : p \subseteq Cells
  <2>1. UNION dictPages' = (UNION dictPages) \cup page
    <3>1. dictPages' = (dictPages \cup {page}) \ {{}}
      BY <1>2
    <3> QED
      BY <3>1, PageMapped
  <2>2. \A p \in dictPages' : p \in dictPages \/ p = page
    BY <1>2
  <2> QED
    BY <1>3, <2>1, <2>2 DEF DictInv, DictTypes
<1>5. /\ c \in Cells /\ c \notin Chained
      /\ Chained \subseteq Cells /\ freeCells \subseteq Cells
  BY <1>2, <1>3 DEF DictInv, DictTypes, CellsShared
<1>6. /\ cellKey' \in [Cells -> Nat] /\ cellVal' = [d \in Cells |-> cellVal'[d]]
      /\ cellKey'[c] = k /\ cellVal'[c] = v
      /\ \A d \in Chained : cellKey'[d] = cellKey[d] /\ cellVal'[d] = cellVal[d]
  BY <1>2, <1>3, <1>5 DEF DictInv, DictTypes
<1>7. GetNode(k) = {d \in Chained : cellKey[d] = k}
  BY <1>3, FoundCells
<1>8. CASE GetNode(k) # {}
  <2>1. /\ freeCells' = freeCells \cup page
        /\ UNCHANGED <<dictSize, capIndex, buckets, entries>>
    BY <1>2, <1>8
  <2>2. Chained' = Chained
    BY <2>1 DEF Chained
  <2>3. DictTypes'
    BY <1>4, <1>6, <2>1 DEF DictInv, DictTypes
  <2>4. InBuckets(buckets, capIndex, cellKey, Chained)'
    BY <1>6, <2>1, <2>2 DEF DictInv, InBuckets
  <2>5. CellsShared'
    <3>1. freeCells' \cup Chained' = UNION dictPages'
      <4> PICK all : all = UNION dictPages
        OBVIOUS
      <4>1. freeCells \cup Chained = all
        BY DEF DictInv, CellsShared
      <4>2. (freeCells \cup page) \cup Chained = all \cup page
        BY <4>1
      <4> QED
        BY <1>4, <2>1, <2>2, <4>2
    <3>2. freeCells' \cap Chained' = {}
      BY <1>3, <2>1, <2>2 DEF DictInv, CellsShared
    <3> QED
      BY <3>1, <3>2 DEF CellsShared
  <2>6. EntriesHeld'
    BY <1>6, <2>1, <2>2 DEF DictInv, EntriesHeld
  <2> QED
    BY <2>3, <2>4, <2>5, <2>6 DEF DictInv
<1>9. CASE GetNode(k) = {}
  <2> DEFINE grow == Capacity < 2 * dictSize + 1
             wider == IF grow THEN Resize(Chained, capIndex') ELSE buckets
  <2>1. /\ Capacities[capIndex'] # 0
        /\ capIndex' = IF grow THEN capIndex + 1 ELSE capIndex
        /\ buckets' = [wider EXCEPT ![Hash(Capacities[capIndex'], k)] = @ \cup {c}]
        /\ dictSize' = dictSize + 1
        /\ freeCells' = (freeCells \cup page) \ {c}
        /\ entries' = [x \in DOMAIN entries \cup {k} |-> IF x = k THEN v ELSE entries[x]]
    BY <1>2, <1>9
  <2>2. /\ capIndex' \in 2 .. Len(Capacities) - 1 /\ Len(Capacities) \in Nat
    <3>1. /\ capIndex \in 1 .. Len(Capacities) - 1 /\ Len(Capacities) \in Nat
      BY CapacityNat, DictAssumption DEF DictInv, DictTypes
    <3>2. capIndex' \in 1 .. Len(Capacities)
      BY <2>1, <3>1
    <3> QED
      BY <2>1, <3>1, <3>2, CapacityNat
  <2>3. InBuckets(wider, capIndex', cellKey, Chained)
    <3>1. CASE grow
      BY <2>2, <3>1, Resized
    <3>2. CASE ~grow
      BY <2>1, <3>2 DEF DictInv
    <3> QED
      BY <3>1, <3>2
  <2> HIDE DEF wider, grow
  <2>4. InBuckets(buckets', capIndex', cellKey', Chained \cup {c})
    BY <1>2, <1>3, <1>5, <2>1, <2>2, <2>3, CellAdded DEF DictInv, DictTypes
  <2>5. Chained' = Chained \cup {c}
    <3>1. capIndex' \in 1 .. Len(Capacities) - 1 /\ Chained \cup {c} \in SUBSET Cells
      BY <1>5, <2>2
    <3>2. UNION {buckets'[b] : b \in DOMAIN buckets'} = Chained \cup {c}
      BY <1>6, <2>4, <3>1, BucketsUnion
    <3> QED
      BY <3>2 DEF Chained
  <2>6. DictTypes'
    BY <1>4, <1>6, <2>1, <2>2 DEF DictInv, DictTypes
  <2>7. CellsShared'
    BY <1>2, <1>3, <1>4, <1>5, <2>1, <2>5 DEF DictInv, CellsShared
  <2>8. EntriesHeld'
    <3>1. k \notin DOMAIN entries
      BY <1>7, <1>9 DEF DictInv, EntriesHeld
    <3>2. /\ DOMAIN entries' = DOMAIN entries \cup {k}
          /\ entries'[k] = v /\ \A x \in DOMAIN entries : entries'[x] = entries[x]
      BY <2>1, <3>1
    <3>3. IsFiniteSet(DOMAIN entries') /\ dictSize' = Cardinality(DOMAIN entries')
      BY <2>1, <3>1, <3>2, FS_AddElement DEF DictInv, EntriesHeld
    <3>4. DOMAIN entries' = {cellKey'[d] : d \in Chained'}
      BY <1>6, <2>5, <3>2 DEF DictInv, EntriesHeld
    <3>5. \A d \in Chained' : entries'[cellKey'[d]] = cellVal'[d]
      BY <1>6, <2>5, <3>2 DEF DictInv, EntriesHeld
    <3>6. \A d, e \in Chained' : cellKey'[d] = cellKey'[e] => d = e
      BY <1>6, <1>7, <1>9, <2>5 DEF DictInv, EntriesHeld
    <3> QED
      BY <3>3, <3>4, <3>5, <3>6 DEF EntriesHeld
  <2> QED
    BY <2>4, <2>5, <2>6, <2>7, <2>8 DEF DictInv
<1> QED
  BY <1>8, <1>9

(* num_dictionary_remove, with or without shrinking. *)
LEMMA RemoveOk ==
  ASSUME DictInv, NEW k \in Keys, RemoveKey(k)
  PROVE  DictInv'
<1> DEFINE shrink == Capacity > 4 * (dictSize - 1) /\ Capacities[capIndex - 1] # 0
<1>1. PICK c \in GetNode(k) :
        /\ capIndex' = IF shrink THEN capIndex - 1 ELSE capIndex
        /\ buckets' = IF shrink THEN Resize(Chained \ {c}, capIndex - 1)
                      ELSE [buckets EXCEPT ![Hash(Capacity, k)] = @ \ {c}]
        /\ dictSize' = dictSize - 1
        /\ freeCells' = freeCells \cup {c}
        /\ entries' = [x \in DOMAIN entries \ {k} |-> entries[x]]
        /\ UNCHANGED <<cellKey, cellVal, dictPages>>
  BY DEF RemoveKey
<1>2. c \in Chained /\ cellKey[c] = k /\ Capacity # 0
  BY DictAssumption, <1>1, FoundCells DEF GetNode
<1>3. capIndex \in 2 .. Len(Capacities) - 1 /\ Len(Capacities) \in Nat
  BY <1>2, CapacityNat, DictAssumption DEF DictInv, DictTypes, Capacity
<1>4. capIndex' \in 2 .. Len(Capacities) - 1
  BY <1>1, <1>3, CapacityNat
<1>5. /\ Chained \subseteq Cells /\ freeCells \subseteq Cells /\ cellKey \in [Cells -> Nat]
  BY DEF DictInv, DictTypes, CellsShared
<1>6. InBuckets(buckets', capIndex', cellKey, Chained \ {c})
  <2>1. CASE shrink
    BY <1>1, <1>4, <2>1, Resized
  <2>2. CASE ~shrink
    BY <1>1, <1>2, <1>3, <2>2, CellRemoved DEF DictInv, Capacity
  <2> QED
    BY <2>1, <2>2
<1> HIDE DEF shrink
<1>7. Chained' = Chained \ {c}
  <2>1. capIndex' \in 1 .. Len(Capacities) - 1 /\ Chained \ {c} \in SUBSET Cells
    BY <1>3, <1>4, <1>5
  <2>2. UNION {buckets'[b] : b \in DOMAIN buckets'} = Chained \ {c}
    BY <1>5, <1>6, <2>1, BucketsUnion
  <2> QED
    BY <2>2 DEF Chained
<1>8. DOMAIN entries' = DOMAIN entries \ {k} /\ k \in DOMAIN entries
      /\ \A x \in DOMAIN entries' : entries'[x] = entries[x]
  BY <1>1, <1>2 DEF DictInv, EntriesHeld
<1>9. EntriesHeld'
  <2>1. /\ IsFiniteSet(DOMAIN entries')
        /\ dictSize' = Cardinality(DOMAIN entries') /\ dictSize' \in Nat
    <3>1. IsFiniteSet(DOMAIN entries) /\ dictSize = Cardinality(DOMAIN entries)
      BY DEF DictInv, EntriesHeld
    <3>2. IsFiniteSet(DOMAIN entries') /\ Cardinality(DOMAIN entries') = dictSize - 1
      BY <1>8, <3>1, FS_RemoveElement
    <3> QED
      BY <1>1, <3>2, FS_CardinalityType
  <2>2. DOMAIN entries' = {cellKey'[d] : d \in Chained'}
    BY <1>1, <1>2, <1>7, <1>8 DEF DictInv, EntriesHeld
  <2>3. \A d \in Chained' : entries'[cellKey'[d]] = cellVal'[d]
    BY <1>1, <1>7, <1>8, <2>2 DEF DictInv, EntriesHeld
  <2>4. \A d, e \in Chained' : cellKey'[d] = cellKey'[e] => d = e
    BY <1>1, <1>7 DEF DictInv, EntriesHeld
  <2> QED
    BY <2>1, <2>2, <2>3, <2>4 DEF EntriesHeld
<1>10. dictSize' \in Nat
  BY <1>9, FS_CardinalityType DEF EntriesHeld
<1>11. DictTypes'
  BY <1>1, <1>4, <1>10 DEF DictInv, DictTypes
<1>12. CellsShared'
  BY <1>1, <1>2, <1>7 DEF DictInv, CellsShared
<1> QED
  BY <1>1, <1>6, <1>7, <1>9, <1>11, <1>12 DEF DictInv

(* What the invariant is for. *)
LEMMA DictInvIsMap ==
  ASSUME DictInv
  PROVE  DictionaryIsMap
<1>1. ASSUME NEW k \in Keys
      PROVE  {cellVal[c] : c \in GetNode(k)} =
               IF k \in DOMAIN entries THEN {entries[k]} ELSE {}
  <2>1. GetNode(k) = {c \in Chained : cellKey[c] = k}
    BY DictAssumption, FoundCells
  <2>2. CASE k \in DOMAIN entries
    <3>1. PICK c \in Chained : cellKey[c] = k /\ cellVal[c] = entries[k]
      BY <2>2 DEF DictInv, EntriesHeld
    <3>2. GetNode(k) = {c}
      BY <2>1, <3>1 DEF DictInv, EntriesHeld
    <3> QED
      BY <2>2, <3>1, <3>2
  <2>3. CASE k \notin DOMAIN entries
    BY <2>1, <2>3 DEF DictInv, EntriesHeld
  <2> QED
    BY <2>2, <2>3
<1>2. ASSUME NEW c \in UNION dictPages
      PROVE  Cardinality({b \in DOMAIN buckets : c \in buckets[b]})
               = IF c \in freeCells THEN 0 ELSE 1
  <2>1. CASE c \in freeCells
    <3>1. {b \in DOMAIN buckets : c \in buckets[b]} = {}
      BY <2>1 DEF DictInv, CellsShared, Chained
    <3> QED
      BY <2>1, <3>1, FS_EmptySet
  <2>2. CASE c \notin freeCells
    <3>1. c \in Chained
      BY <1>2, <2>2 DEF DictInv, CellsShared
    <3>2. {b \in DOMAIN buckets : c \in buckets[b]} = {Hash(Capacities[capIndex], cellKey[c])}
      BY <3>1 DEF DictInv, InBuckets, Chained
    <3> QED
      BY <2>2, <3>2, FS_Singleton
  <2> QED
    BY <2>1, <2>2
<1> QED
  BY <1>1, <1>2 DEF DictionaryIsMap, DictInv, EntriesHeld

(* The dictionary holds what was inserted and not removed, and every cell is found
   in the bucket of its key, however it has grown and shrunk
   (utils/num_dictionary.h). *)
THEOREM DictionaryAlwaysMap == DictSpec => []DictionaryIsMap
<1>1. DictInv /\ [DictNext]_dictVars => DictInv'
  <2> SUFFICES ASSUME DictInv, [DictNext]_dictVars PROVE DictInv'
    OBVIOUS
  <2>1. CASE DictNext
    BY <2>1, InsertOk, RemoveOk, DestroyOk DEF DictNext
  <2>2. CASE UNCHANGED dictVars
    <3>1. Chained' = Chained
      BY <2>2 DEF dictVars, Chained
    <3>2. DictTypes' /\ CellsShared'
      BY <2>2, <3>1 DEF dictVars, DictInv, DictTypes, CellsShared
    <3>3. InBuckets(buckets, capIndex, cellKey, Chained)'
      BY <2>2, <3>1 DEF dictVars, DictInv, InBuckets
    <3>4. EntriesHeld'
      BY <2>2, <3>1 DEF dictVars, DictInv, EntriesHeld
    <3> QED
      BY <3>2, <3>3, <3>4 DEF DictInv
  <2> QED
    BY <2>1, <2>2
<1> QED
  BY <1>1, DictInitOk, DictInvIsMap, PTL DEF DictSpec

-----------------------------------------------------------------------------
(* Stacks: numbers *)

(* Some numbers have a least one. *)
LEMMA LeastExists ==
  ASSUME NEW W, W \subseteq Nat, W # {}
  PROVE  \E i \in W : \A k \in W : i <= k
BY LeastChosen

(* What is true of 0 and stays true from each number to the next is true of all
   numbers up to n. *)
LEMMA AllUpTo ==
  ASSUME NEW n \in Nat, NEW P, 0 \in P, \A k \in 1 .. n : k - 1 \in P => k \in P
  PROVE  \A k \in 0 .. n : k \in P
<1> DEFINE bad == {k \in 0 .. n : k \notin P}
<1>1. SUFFICES ASSUME bad # {} PROVE FALSE
  OBVIOUS
<1>4. bad \subseteq Nat
  OBVIOUS
<1> HIDE DEF bad
<1>2. PICK i \in bad : \A k \in bad : i <= k
  BY <1>1, <1>4, LeastExists
<1> USE DEF bad
<1>3. i \in 1 .. n /\ i - 1 \notin bad
  BY <1>2
<1> QED
  BY <1>2, <1>3

(* Pages before a page end before it begins. *)
LEMMA PagesBefore ==
  ASSUME NEW B \in Nat, NEW j \in Nat, NEW k \in Nat, j < k
  PROVE  j * B \in Nat /\ k * B \in Nat /\ j * B + B <= k * B
<1>1. PICK d \in Nat : k = j + 1 + d
  <2>1. k - j - 1 \in Nat /\ k = j + 1 + (k - j - 1)
    OBVIOUS
  <2> QED
    BY <2>1
<1>2. k * B = j * B + B + d * B
  BY <1>1
<1>3. j * B \in Nat /\ d * B \in Nat /\ k * B \in Nat
  BY <1>1
<1> QED
  BY <1>2, <1>3

(* A place in the pages, by its page and the cell in the page, is one place. *)
LEMMA PlaceIsOne ==
  ASSUME NEW B \in Nat, NEW j \in Nat, NEW k \in Nat, NEW a \in 1 .. B, NEW b \in 1 .. B
  PROVE  /\ j * B + a \in Nat \ {0} /\ k * B + b \in Nat \ {0}
         /\ j < k => j * B + a < k * B + b
         /\ j * B + a = k * B + b => j = k /\ a = b
<1>1. j * B \in Nat /\ k * B \in Nat
  OBVIOUS
<1>2. j < k => j * B + a < k * B + b
  <2>1. SUFFICES ASSUME j < k PROVE j * B + a < k * B + b
    OBVIOUS
  <2>2. j * B + B <= k * B
    BY <2>1, PagesBefore
  <2> DEFINE x == j * B
             y == k * B
  <2> HIDE DEF x, y
  <2>3. x \in Nat /\ y \in Nat /\ x + B <= y
    BY <1>1, <2>2 DEF x, y
  <2>4. x + a < y + b
    BY <2>3
  <2> QED
    BY <2>4 DEF x, y
<1>3. k < j => k * B + b < j * B + a
  <2>1. SUFFICES ASSUME k < j PROVE k * B + b < j * B + a
    OBVIOUS
  <2>2. k * B + B <= j * B
    BY <2>1, PagesBefore
  <2> DEFINE x == k * B
             y == j * B
  <2> HIDE DEF x, y
  <2>3. x \in Nat /\ y \in Nat /\ x + B <= y
    BY <1>1, <2>2 DEF x, y
  <2>4. x + b < y + a
    BY <2>3
  <2> QED
    BY <2>4 DEF x, y
<1>4. j = k => (j * B + a = k * B + b => a = b)
  <2>1. SUFFICES ASSUME j = k, j * B + a = k * B + b PROVE a = b
    OBVIOUS
  <2> DEFINE x == j * B
  <2>2. x \in Nat /\ k * B = x
    BY <1>1, <2>1
  <2> HIDE DEF x
  <2>3. x + a = x + b
    BY <2>1, <2>2 DEF x
  <2> QED
    BY <2>2, <2>3
<1>5. j * B + a \in Nat \ {0} /\ k * B + b \in Nat \ {0}
  BY <1>1
<1> DEFINE x == j * B + a
           y == k * B + b
<1>6. x \in Nat \ {0} /\ y \in Nat \ {0}
  BY <1>5
<1>7. (j < k => x < y) /\ (k < j => y < x) /\ (j = k => (x = y => a = b))
  BY <1>2, <1>3, <1>4
<1> HIDE DEF x, y
<1>8. x = y => j = k /\ a = b
  BY <1>6, <1>7
<1> QED
  BY <1>2, <1>5, <1>8 DEF x, y

-----------------------------------------------------------------------------
(* Stacks: lists *)

(* A list as its head and its pages are met, all around. *)
Ring(h, q, k) == IF k \in 1 .. Len(q) THEN q[k] ELSE h

OneToOne(q) == \A j, k \in 1 .. Len(q) : q[j] = q[k] => j = k

(* f and g link the pages of q, and no page twice, behind the head h. *)
OnRing(f, g, h, q) ==
  /\ q \in Seq(BlockPages) /\ OneToOne(q) /\ h \notin BlockPages
  /\ \A k \in 0 .. Len(q) :
       /\ f[Ring(h, q, k)] = Ring(h, q, k + 1)
       /\ g[Ring(h, q, k + 1)] = Ring(h, q, k)

(* Blocks, of any pointers. *)
Steps(w, f, h, n) == w = [k \in 0 .. n |-> IF k = 0 THEN f[h] ELSE f[w[k - 1]]]
Walk(w, f, h) == Steps(w, f, h, Cardinality(BlockPages))
Inside(w) ==
  Cardinality({k \in DOMAIN w : \A j \in 0 .. k : w[j] \in BlockPages})
Follow(f, h) ==
  LET w == CHOOSE w : Walk(w, f, h)
  IN  [k \in 1 .. Inside(w) |-> w[k - 1]]

(* How many steps one can take. *)
LEMMA WalkExists ==
  ASSUME NEW f, NEW h, NEW n \in Nat
  PROVE  \E w : Steps(w, f, h, n)
<1> DEFINE P == {k \in Nat : \E w : Steps(w, f, h, k)}
<1>1. 0 \in P
  <2> DEFINE w == [j \in 0 .. 0 |-> f[h]]
  <2>1. Steps(w, f, h, 0)
    BY DEF Steps
  <2> QED
    BY <2>1
<1>2. ASSUME NEW k \in 1 .. n, k - 1 \in P PROVE k \in P
  <2>1. PICK w : Steps(w, f, h, k - 1)
    BY <1>2
  <2> DEFINE g == [j \in 0 .. k |-> IF j = k THEN f[w[k - 1]] ELSE w[j]]
  <2>2. ASSUME NEW j \in 0 .. k
        PROVE  g[j] = IF j = 0 THEN f[h] ELSE f[g[j - 1]]
    <3>1. CASE j = k
      <4>1. g[j - 1] = w[k - 1] /\ g[j] = f[w[k - 1]] /\ j # 0
        BY <3>1
      <4> HIDE DEF g
      <4> QED
        BY <4>1
    <3>2. CASE j # k
      <4>1. j \in 0 .. k - 1 /\ g[j] = w[j] /\ (j # 0 => g[j - 1] = w[j - 1])
        BY <3>2
      <4>2. w[j] = IF j = 0 THEN f[h] ELSE f[w[j - 1]]
        BY <2>1, <4>1 DEF Steps
      <4> HIDE DEF g
      <4> QED
        BY <4>1, <4>2
    <3> QED
      BY <3>1, <3>2
  <2>3. g = [j \in 0 .. k |-> g[j]]
    OBVIOUS
  <2> HIDE DEF g
  <2>4. Steps(g, f, h, k)
    BY <2>2, <2>3 DEF Steps
  <2> QED
    BY <2>4
<1> HIDE DEF P
<1>3. n \in P
  BY <1>1, <1>2, AllUpTo
<1> QED
  BY <1>3 DEF P

(* Following a list meets its pages. *)
LEMMA FollowIs ==
  ASSUME NEW f, NEW g, NEW h, NEW q, OnRing(f, g, h, q)
  PROVE  Follow(f, h) = q
<1> DEFINE w == CHOOSE w : Walk(w, f, h)
           C == Cardinality(BlockPages)
           n == Len(q)
<1>1. C \in Nat
  BY StacksAssumption, FS_CardinalityType
<1>2. Walk(w, f, h)
  <2>1. \E x : Steps(x, f, h, Cardinality(BlockPages))
    BY <1>1, WalkExists
  <2>2. \E x : Walk(x, f, h)
    BY <2>1 DEF Walk
  <2> QED
    BY <2>2
<1>3. n \in Nat /\ q = [k \in 1 .. n |-> q[k]] /\ \A k \in 1 .. n : q[k] \in BlockPages
  BY DEF OnRing
<1> HIDE DEF w, C, n
<1>4. n <= C
  <2>1. q \in Injection(1 .. n, BlockPages)
    BY <1>3 DEF OnRing, OneToOne, Injection, IsInjective, n
  <2>2. Cardinality(1 .. n) <= C
    BY <2>1, FS_Injection, StacksAssumption DEF C
  <2>3. Cardinality(1 .. n) = IF 1 > n THEN 0 ELSE n - 1 + 1
    BY <1>3, FS_Interval
  <2> QED
    BY <1>1, <1>3, <2>2, <2>3
<1>5. DOMAIN w = 0 .. C /\ w[0] = f[h] /\ \A k \in 1 .. C : w[k] = f[w[k - 1]]
  BY <1>1, <1>2 DEF Walk, Steps, C
<1>6. \A k \in 0 .. n : w[k] = Ring(h, q, k + 1)
  <2> DEFINE P == {k \in 0 .. n : w[k] = Ring(h, q, k + 1)}
  <2>1. 0 \in P
    <3>1. Ring(h, q, 0) = h
      BY DEF Ring
    <3>2. f[Ring(h, q, 0)] = Ring(h, q, 0 + 1)
      BY <1>3 DEF OnRing, n
    <3> QED
      BY <1>3, <1>5, <3>1, <3>2
  <2>2. ASSUME NEW k \in 1 .. n, k - 1 \in P PROVE k \in P
    <3>1. w[k - 1] = Ring(h, q, k) /\ k \in 0 .. n /\ k \in 1 .. C
      BY <1>1, <1>3, <1>4, <2>2
    <3>2. f[Ring(h, q, k)] = Ring(h, q, k + 1)
      BY <3>1 DEF OnRing, n
    <3> QED
      BY <1>5, <3>1, <3>2
  <2> HIDE DEF P
  <2>3. \A k \in 0 .. n : k \in P
    BY <1>3, <2>1, <2>2, AllUpTo
  <2> QED
    BY <2>3 DEF P
<1>7. \A k \in 0 .. n - 1 : w[k] = q[k + 1] /\ w[k] \in BlockPages
  <2> TAKE k \in 0 .. n - 1
  <2>1. k \in 0 .. n /\ k + 1 \in 1 .. Len(q)
    BY <1>3 DEF n
  <2> QED
    BY <1>3, <1>6, <2>1 DEF Ring, n
<1>8. w[n] \notin BlockPages
  <2>1. n + 1 \notin 1 .. Len(q) /\ n \in 0 .. n
    BY <1>3 DEF n
  <2>2. w[n] = h
    BY <1>6, <2>1 DEF Ring
  <2> QED
    BY <2>2 DEF OnRing
<1>9. {k \in DOMAIN w : \A j \in 0 .. k : w[j] \in BlockPages} = 0 .. n - 1
  <2>1. ASSUME NEW k \in 0 .. C, \A j \in 0 .. k : w[j] \in BlockPages
        PROVE  k \in 0 .. n - 1
    <3>1. n \notin 0 .. k
      BY <1>8, <2>1
    <3> QED
      BY <1>1, <1>3, <3>1
  <2>2. ASSUME NEW k \in 0 .. n - 1
        PROVE  k \in 0 .. C /\ \A j \in 0 .. k : w[j] \in BlockPages
    <3>1. \A j \in 0 .. k : j \in 0 .. n - 1
      BY <1>3
    <3> QED
      BY <1>1, <1>3, <1>4, <1>7, <3>1
  <2> QED
    BY <1>5, <2>1, <2>2
<1>10. Inside(w) = n
  <2>1. Cardinality(0 .. n - 1) = IF 0 > n - 1 THEN 0 ELSE n - 1 - 0 + 1
    BY <1>3, FS_Interval
  <2>2. Inside(w) = Cardinality(0 .. n - 1)
    BY <1>9, Zenon DEF Inside
  <2> QED
    BY <1>3, <2>1, <2>2
<1>11. Follow(f, h) = [k \in 1 .. Inside(w) |-> w[k - 1]]
  BY DEF Follow, w
<1>12. \A k \in 1 .. n : w[k - 1] = q[k]
  <2> TAKE k \in 1 .. n
  <2>1. k - 1 \in 0 .. n - 1 /\ k - 1 + 1 = k
    BY <1>3
  <2> QED
    BY <1>7, <2>1
<1> QED
  BY <1>3, <1>10, <1>11, <1>12

(* It is how Blocks goes. *)
LEMMA BlocksFollow == \A h : Blocks(h) = Follow(nextOf, h)
BY DEF Blocks, Follow, Walk, Steps, Inside
(* and after a step. *)
LEMMA BlocksFollowNext == \A h : Blocks(h)' = Follow(nextOf', h)
BY DEF Blocks, Follow, Walk, Steps, Inside

(* All but the last member of a sequence *)
LEMMA FrontIs ==
  ASSUME NEW S, NEW q \in Seq(S), q # <<>>
  PROVE  /\ Front(q) \in Seq(S) /\ Len(q) \in Nat \ {0} /\ Len(Front(q)) = Len(q) - 1
         /\ \A k \in 1 .. Len(q) - 1 : Front(q)[k] = q[k]
<1>1. Len(q) \in Nat \ {0}
  OBVIOUS
<1>2. Front(q) = [k \in 1 .. Len(q) - 1 |-> q[k]]
  <2>1. Front(q) = [k \in 1 .. Len(q) - 1 - 1 + 1 |-> q[k + 1 - 1]]
    BY <1>1 DEF Front
  <2>2. Len(q) - 1 - 1 + 1 = Len(q) - 1 /\ \A k \in 1 .. Len(q) - 1 : k + 1 - 1 = k
    BY <1>1
  <2> QED
    BY <2>1, <2>2
<1>3. Front(q) \in Seq(S)
  BY <1>1, <1>2
<1>4. Len(Front(q)) = Len(q) - 1
  BY <1>1, <1>2
<1> QED
  BY <1>1, <1>2, <1>3, <1>4

(* What a list is around its head. *)
LEMMA RingIs ==
  ASSUME NEW f, NEW g, NEW h, NEW q, OnRing(f, g, h, q)
  PROVE  /\ Len(q) \in Nat /\ Ring(h, q, 0) = h /\ Ring(h, q, Len(q) + 1) = h
         /\ \A k \in 1 .. Len(q) : Ring(h, q, k) = q[k] /\ q[k] \in BlockPages /\ q[k] # h
         /\ \A j, k \in 0 .. Len(q) : Ring(h, q, j) = Ring(h, q, k) => j = k
         /\ f[h] = Ring(h, q, 1) /\ g[h] = Ring(h, q, Len(q))
<1>1. Len(q) \in Nat /\ \A k \in 1 .. Len(q) : q[k] \in BlockPages
  BY DEF OnRing
<1>2. Ring(h, q, 0) = h /\ Ring(h, q, Len(q) + 1) = h
  BY <1>1 DEF Ring
<1>3. \A k \in 1 .. Len(q) : Ring(h, q, k) = q[k] /\ q[k] \in BlockPages /\ q[k] # h
  BY <1>1 DEF Ring, OnRing
<1>4. ASSUME NEW j \in 0 .. Len(q), NEW k \in 0 .. Len(q), Ring(h, q, j) = Ring(h, q, k)
      PROVE  j = k
  <2>1. CASE j # 0 /\ k # 0
    <3>1. j \in 1 .. Len(q) /\ k \in 1 .. Len(q)
      BY <1>1, <2>1
    <3>2. q[j] = q[k]
      BY <1>3, <1>4, <3>1
    <3> QED
      BY <3>1, <3>2 DEF OnRing, OneToOne
  <2>2. CASE j = 0 /\ k # 0
    <3>1. k \in 1 .. Len(q)
      BY <1>1, <2>2
    <3> QED
      BY <1>2, <1>3, <1>4, <2>2, <3>1
  <2>3. CASE j # 0 /\ k = 0
    <3>1. j \in 1 .. Len(q)
      BY <1>1, <2>3
    <3> QED
      BY <1>2, <1>3, <1>4, <2>3, <3>1
  <2> QED
    BY <2>1, <2>2, <2>3
<1>5. f[h] = Ring(h, q, 1)
  <2>1. f[Ring(h, q, 0)] = Ring(h, q, 0 + 1)
    BY <1>1 DEF OnRing
  <2> QED
    BY <1>2, <2>1
<1>6. g[h] = Ring(h, q, Len(q))
  <2>1. g[Ring(h, q, Len(q) + 1)] = Ring(h, q, Len(q))
    BY <1>1 DEF OnRing
  <2> QED
    BY <1>2, <2>1
<1> QED
  BY <1>1, <1>2, <1>3, <1>4, <1>5, <1>6

(* To show a list one shows its order. *)
LEMMA ChainIs ==
  ASSUME NEW f, NEW g, NEW h, NEW q \in Seq(BlockPages), h \notin BlockPages, OneToOne(q),
         \A k \in 0 .. Len(q) : f[Ring(h, q, k)] = Ring(h, q, k + 1),
         \A k \in 0 .. Len(q) : g[Ring(h, q, k + 1)] = Ring(h, q, k)
  PROVE  OnRing(f, g, h, q)
BY DEF OnRing

(* Pointers elsewhere do not matter. *)
Agree(f, g, h, q) == f[h] = g[h] /\ \A k \in 1 .. Len(q) : f[q[k]] = g[q[k]]

(* A list stays as it is where the pointers of its head and its pages do. *)
LEMMA ChainKept ==
  ASSUME NEW f, NEW g, NEW h, NEW q, OnRing(f, g, h, q),
         NEW F, NEW G, Agree(F, f, h, q), Agree(G, g, h, q)
  PROVE  OnRing(F, G, h, q)
<1>1. /\ Len(q) \in Nat
      /\ \A k \in 0 .. Len(q) + 1 : F[Ring(h, q, k)] = f[Ring(h, q, k)]
                                    /\ G[Ring(h, q, k)] = g[Ring(h, q, k)]
  BY RingIs DEF Agree, Ring
<1>2. \A k \in 0 .. Len(q) : k \in 0 .. Len(q) + 1 /\ k + 1 \in 0 .. Len(q) + 1
  BY <1>1
<1> QED
  BY <1>1, <1>2 DEF OnRing

(* An empty list *)
LEMMA ChainNone ==
  ASSUME NEW f, NEW g, NEW h, h \notin BlockPages, f[h] = h, g[h] = h
  PROVE  OnRing(f, g, h, <<>>)
<1>1. Len(<<>>) = 0 /\ <<>> \in Seq(BlockPages) /\ OneToOne(<<>>)
  BY DEF OneToOne
<1>2. \A k \in 0 .. Len(<<>>) : Ring(h, <<>>, k) = h /\ Ring(h, <<>>, k + 1) = h
  BY <1>1 DEF Ring
<1> QED
  BY <1>1, <1>2, ChainIs

(* Pointers between heads and pages *)
Ends == StackNames \cup BlockPages
Links == [Ends -> Ends]

(* list_add_end *)
LEMMA ChainAdd ==
  ASSUME NEW f \in Links, NEW g \in Links, NEW h \in StackNames, NEW q, OnRing(f, g, h, q),
         NEW p \in BlockPages, \A k \in 1 .. Len(q) : q[k] # p
  PROVE  OnRing([f EXCEPT ![g[h]] = p, ![p] = h], [g EXCEPT ![p] = g[h], ![h] = p],
                 h, Append(q, p))
<1> DEFINE n == Len(q)
           r == Append(q, p)
           F == [f EXCEPT ![g[h]] = p, ![p] = h]
           G == [g EXCEPT ![p] = g[h], ![h] = p]
<1>1. /\ n \in Nat /\ Ring(h, q, 0) = h /\ Ring(h, q, n + 1) = h
      /\ \A k \in 1 .. n : Ring(h, q, k) = q[k] /\ q[k] \in BlockPages /\ q[k] # h
      /\ \A j, k \in 0 .. n : Ring(h, q, j) = Ring(h, q, k) => j = k
      /\ g[h] = Ring(h, q, n)
  BY RingIs
<1>2. q \in Seq(BlockPages) /\ OneToOne(q) /\ h \notin BlockPages
  BY DEF OnRing
<1>3. r \in Seq(BlockPages) /\ Len(r) = n + 1 /\ r[n + 1] = p /\ \A k \in 1 .. n : r[k] = q[k]
  BY <1>2
<1>4. OneToOne(r)
  <2> SUFFICES ASSUME NEW j \in 1 .. n + 1, NEW k \in 1 .. n + 1, r[j] = r[k] PROVE j = k
    BY <1>3 DEF OneToOne
  <2>1. CASE j \in 1 .. n /\ k \in 1 .. n
    BY <1>2, <1>3, <2>1 DEF OneToOne
  <2>2. CASE ~(j \in 1 .. n /\ k \in 1 .. n)
    BY <1>1, <1>3, <2>2
  <2> QED
    BY <2>1, <2>2
<1>5. /\ \A k \in 0 .. n : Ring(h, r, k) = Ring(h, q, k)
      /\ Ring(h, r, n + 1) = p /\ Ring(h, r, n + 2) = h
  <2> HIDE DEF r
  <2> QED
    BY <1>1, <1>3 DEF Ring
<1>6. /\ g[h] \in Ends /\ p \in Ends /\ h \in Ends /\ p # h /\ g[h] # p
      /\ \A k \in 0 .. n : Ring(h, q, k) # p /\ Ring(h, q, k) \in Ends
  <2>1. \A k \in 0 .. n : Ring(h, q, k) # p /\ Ring(h, q, k) \in Ends
    <3> TAKE k \in 0 .. n
    <3>1. CASE k = 0
      BY <1>1, <1>2, <3>1 DEF Ends
    <3>2. CASE k \in 1 .. n
      BY <1>1, <3>2 DEF Ends
    <3> QED
      BY <1>1, <3>1, <3>2
  <2> QED
    BY <1>1, <1>2, <2>1 DEF Ends
<1>7. /\ F[p] = h /\ F[g[h]] = p /\ \A x \in Ends \ {p, g[h]} : F[x] = f[x]
      /\ G[h] = p /\ G[p] = g[h] /\ \A x \in Ends \ {p, h} : G[x] = g[x]
  BY <1>6 DEF Links
<1> HIDE DEF F, G, r
<1>8. \A k \in 0 .. n + 1 : F[Ring(h, r, k)] = Ring(h, r, k + 1)
  <2> TAKE k \in 0 .. n + 1
  <2>1. CASE k = n + 1
    <3>1. k + 1 = n + 2
      BY <1>1, <2>1
    <3> QED
      BY <1>5, <1>7, <2>1, <3>1
  <2>2. CASE k = n
    <3>1. k \in 0 .. n
      BY <1>1, <2>2
    <3> QED
      BY <1>1, <1>5, <1>7, <2>2, <3>1
  <2>3. CASE k # n /\ k # n + 1
    <3>1. k \in 0 .. n /\ k + 1 \in 0 .. n /\ n \in 0 .. n
      BY <1>1, <2>3
    <3>2. Ring(h, q, k) # g[h] /\ Ring(h, q, k) \in Ends \ {p, g[h]}
      BY <1>1, <1>6, <2>3, <3>1
    <3>3. f[Ring(h, q, k)] = Ring(h, q, k + 1)
      BY <3>1 DEF OnRing
    <3> QED
      BY <1>5, <1>7, <3>1, <3>2, <3>3
  <2> QED
    BY <2>1, <2>2, <2>3
<1>9. \A k \in 0 .. n + 1 : G[Ring(h, r, k + 1)] = Ring(h, r, k)
  <2> TAKE k \in 0 .. n + 1
  <2>1. CASE k = n + 1
    <3>1. k + 1 = n + 2
      BY <1>1, <2>1
    <3> QED
      BY <1>5, <1>7, <2>1, <3>1
  <2>2. CASE k = n
    <3>1. k \in 0 .. n
      BY <1>1, <2>2
    <3> QED
      BY <1>1, <1>5, <1>7, <2>2, <3>1
  <2>3. CASE k # n /\ k # n + 1
    <3>1. k \in 0 .. n /\ k + 1 \in 0 .. n /\ k + 1 \in 1 .. n
      BY <1>1, <2>3
    <3>2. Ring(h, q, k + 1) \in Ends \ {p, h}
      BY <1>1, <1>6, <3>1
    <3>3. g[Ring(h, q, k + 1)] = Ring(h, q, k)
      BY <3>1 DEF OnRing
    <3> QED
      BY <1>5, <1>7, <3>1, <3>2, <3>3
  <2> QED
    BY <2>1, <2>2, <2>3
<1>10. OnRing(F, G, h, r)
  BY <1>2, <1>3, <1>4, <1>8, <1>9, ChainIs
<1> QED
  BY <1>10 DEF F, G, r

(* list_remove of the last page *)
LEMMA ChainRemove ==
  ASSUME NEW f \in Links, NEW g \in Links, NEW h \in StackNames, NEW q, OnRing(f, g, h, q),
         q # <<>>, NEW p, p = g[h]
  PROVE  /\ OnRing([f EXCEPT ![g[p]] = f[p]], [g EXCEPT ![f[p]] = g[p]], h, Front(q))
         /\ p = q[Len(q)] /\ f[p] = h
<1> DEFINE n == Len(q)
           r == Front(q)
           F == [f EXCEPT ![g[p]] = f[p]]
           G == [g EXCEPT ![f[p]] = g[p]]
<1>1. /\ n \in Nat /\ Ring(h, q, 0) = h /\ Ring(h, q, n + 1) = h
      /\ \A k \in 1 .. n : Ring(h, q, k) = q[k] /\ q[k] \in BlockPages /\ q[k] # h
      /\ \A j, k \in 0 .. n : Ring(h, q, j) = Ring(h, q, k) => j = k
      /\ p = Ring(h, q, n)
  BY RingIs
<1>2. q \in Seq(BlockPages) /\ OneToOne(q) /\ h \notin BlockPages /\ n \in 1 .. n /\ p = q[n]
  <2>1. q \in Seq(BlockPages) /\ OneToOne(q) /\ h \notin BlockPages
    BY DEF OnRing
  <2>2. n \in 1 .. n
    BY <2>1
  <2> HIDE DEF n
  <2> QED
    BY <1>1, <2>1, <2>2
<1>3. r \in Seq(BlockPages) /\ Len(r) = n - 1 /\ \A k \in 1 .. n - 1 : r[k] = q[k]
  <2>1. q # <<>>
    OBVIOUS
  <2> QED
    BY <1>2, <2>1, FrontIs
<1>4. OneToOne(r)
  BY <1>2, <1>3 DEF OneToOne
<1>5. /\ \A k \in 0 .. n - 1 : Ring(h, r, k) = Ring(h, q, k)
      /\ Ring(h, r, n) = h
  <2> HIDE DEF r
  <2> QED
    BY <1>1, <1>2, <1>3 DEF Ring
<1>6. f[p] = h /\ g[p] = Ring(h, q, n - 1)
  <2>1. f[Ring(h, q, n)] = Ring(h, q, n + 1)
    BY <1>1, <1>2 DEF OnRing
  <2>2. n - 1 \in 0 .. n /\ n - 1 + 1 = n
    BY <1>1, <1>2
  <2>3. g[Ring(h, q, n - 1 + 1)] = Ring(h, q, n - 1)
    BY <2>2 DEF OnRing
  <2> QED
    BY <1>1, <2>1, <2>2, <2>3
<1>7. \A k \in 0 .. n : Ring(h, q, k) \in Ends
  <2> TAKE k \in 0 .. n
  <2>1. k = 0 \/ k \in 1 .. n
    BY <1>1
  <2> QED
    BY <1>1, <2>1 DEF Ends
<1>8. g[p] \in Ends /\ h \in Ends
  <2>1. n - 1 \in 0 .. n
    BY <1>1, <1>2
  <2> QED
    BY <1>6, <1>7, <2>1 DEF Ends
<1>9. /\ F[g[p]] = h /\ \A x \in Ends \ {g[p]} : F[x] = f[x]
      /\ G[h] = g[p] /\ \A x \in Ends \ {h} : G[x] = g[x]
  BY <1>6, <1>8 DEF Links
<1> HIDE DEF F, G, r
<1>10. \A k \in 0 .. n - 1 : F[Ring(h, r, k)] = Ring(h, r, k + 1)
  <2> TAKE k \in 0 .. n - 1
  <2>1. CASE k = n - 1
    <3>1. k + 1 = n
      BY <1>1, <2>1
    <3> QED
      BY <1>5, <1>6, <1>9, <2>1, <3>1
  <2>2. CASE k # n - 1
    <3>1. k \in 0 .. n /\ k + 1 \in 0 .. n - 1 /\ n - 1 \in 0 .. n
      BY <1>1, <2>2
    <3>2. Ring(h, q, k) \in Ends \ {g[p]}
      BY <1>1, <1>6, <1>7, <2>2, <3>1
    <3>3. f[Ring(h, q, k)] = Ring(h, q, k + 1)
      BY <3>1 DEF OnRing
    <3> QED
      BY <1>5, <1>9, <3>1, <3>2, <3>3
  <2> QED
    BY <2>1, <2>2
<1>11. \A k \in 0 .. n - 1 : G[Ring(h, r, k + 1)] = Ring(h, r, k)
  <2> TAKE k \in 0 .. n - 1
  <2>1. CASE k = n - 1
    <3>1. k + 1 = n
      BY <1>1, <2>1
    <3> QED
      BY <1>5, <1>6, <1>9, <2>1, <3>1
  <2>2. CASE k # n - 1
    <3>1. k \in 0 .. n /\ k + 1 \in 0 .. n /\ k + 1 \in 0 .. n - 1 /\ k + 1 \in 1 .. n
      BY <1>1, <2>2
    <3>2. Ring(h, q, k + 1) \in Ends \ {h}
      BY <1>1, <1>7, <3>1
    <3>3. g[Ring(h, q, k + 1)] = Ring(h, q, k)
      BY <3>1 DEF OnRing
    <3> QED
      BY <1>5, <1>9, <3>1, <3>2, <3>3
  <2> QED
    BY <2>1, <2>2
<1>12. OnRing(F, G, h, r)
  BY <1>2, <1>3, <1>4, <1>10, <1>11, ChainIs
<1> QED
  BY <1>2, <1>6, <1>12 DEF F, G, r

(* All pages but the first are taken off. *)
LEMMA ChainFirst ==
  ASSUME NEW f \in Links, NEW g \in Links, NEW h \in StackNames, NEW q, OnRing(f, g, h, q),
         q # <<>>
  PROVE  OnRing([f EXCEPT ![q[1]] = h], [g EXCEPT ![h] = q[1]], h, <<q[1]>>)
<1> DEFINE p == q[1]
           F == [f EXCEPT ![p] = h]
           G == [g EXCEPT ![h] = p]
           r == <<p>>
<1>1. Len(q) \in Nat /\ 1 \in 1 .. Len(q) /\ h \notin BlockPages /\ q \in Seq(BlockPages)
  BY DEF OnRing
<1>2. p \in BlockPages /\ p # h /\ f[h] = p
  <2>1. f[h] = Ring(h, q, 1) /\ Ring(h, q, 1) = q[1] /\ q[1] \in BlockPages /\ q[1] # h
    BY <1>1, RingIs
  <2> QED
    BY <2>1
<1>3. g[p] = h
  <2>1. g[Ring(h, q, 0 + 1)] = Ring(h, q, 0)
    BY <1>1 DEF OnRing
  <2>2. Ring(h, q, 0) = h /\ Ring(h, q, 1) = p
    BY <1>1 DEF Ring
  <2> QED
    BY <2>1, <2>2
<1>4. F[p] = h /\ F[h] = p /\ G[h] = p /\ G[p] = h
  BY <1>2, <1>3 DEF Links, Ends
<1> HIDE DEF F, G, p
<1>5. r \in Seq(BlockPages) /\ Len(r) = 1 /\ r[1] = p /\ OneToOne(r)
  BY <1>2 DEF OneToOne
<1> HIDE DEF r
<1>6. Ring(h, r, 0) = h /\ Ring(h, r, 1) = p /\ Ring(h, r, 2) = h
  BY <1>5 DEF Ring
<1>7. \A k \in 0 .. 1 : (k = 0 /\ k + 1 = 1) \/ (k = 1 /\ k + 1 = 2)
  OBVIOUS
<1>8. OnRing(F, G, h, r)
  BY <1>1, <1>4, <1>5, <1>6, <1>7, ChainIs
<1> QED
  BY <1>8 DEF F, G, r, p

(* A list that changes its head *)
NewHead(F, G, f, g, t, q, s) ==
  /\ q = <<>> => F[s] = s /\ G[s] = s
  /\ q # <<>> => F[s] = f[t] /\ F[g[t]] = s /\ G[s] = g[t] /\ G[f[t]] = s
  /\ \A k \in 1 .. Len(q) - 1 : F[q[k]] = f[q[k]]
  /\ \A k \in 2 .. Len(q) : G[q[k]] = g[q[k]]

(* It is the same list behind the new head. *)
LEMMA ChainMoved ==
  ASSUME NEW f, NEW g, NEW t, NEW q, OnRing(f, g, t, q), NEW F, NEW G, NEW s,
         s \notin BlockPages, NewHead(F, G, f, g, t, q, s)
  PROVE  OnRing(F, G, s, q)
<1> DEFINE n == Len(q)
<1>1. /\ n \in Nat /\ Ring(t, q, 0) = t /\ Ring(t, q, n + 1) = t
      /\ \A k \in 1 .. n : Ring(t, q, k) = q[k] /\ q[k] \in BlockPages /\ q[k] # t
      /\ f[t] = Ring(t, q, 1) /\ g[t] = Ring(t, q, n)
  BY RingIs
<1>2. q \in Seq(BlockPages) /\ OneToOne(q) /\ t \notin BlockPages
  BY DEF OnRing
<1>3. Ring(s, q, 0) = s /\ Ring(s, q, n + 1) = s /\ \A k \in 1 .. n : Ring(s, q, k) = q[k]
  BY <1>1 DEF Ring
<1>4. CASE q = <<>>
  <2>1. F[s] = s /\ G[s] = s
    BY <1>4 DEF NewHead
  <2> QED
    BY <1>4, <2>1, ChainNone
<1>5. CASE q # <<>>
  <2>1. 1 \in 1 .. n /\ n \in 1 .. n
    BY <1>1, <1>2, <1>5
  <2>2. F[s] = q[1] /\ F[q[n]] = s /\ G[s] = q[n] /\ G[q[1]] = s
    BY <1>1, <1>5, <2>1 DEF NewHead
  <2>3. \A k \in 0 .. n : F[Ring(s, q, k)] = Ring(s, q, k + 1)
    <3> TAKE k \in 0 .. n
    <3>1. CASE k = 0
      BY <1>3, <2>1, <2>2, <3>1
    <3>2. CASE k = n
      BY <1>3, <2>1, <2>2, <3>2
    <3>3. CASE k # 0 /\ k # n
      <4>1. k \in 1 .. n - 1 /\ k \in 1 .. n /\ k + 1 \in 1 .. n
        BY <1>1, <3>3
      <4>2. f[Ring(t, q, k)] = Ring(t, q, k + 1)
        BY DEF OnRing
      <4>3. F[q[k]] = f[q[k]]
        BY <4>1 DEF NewHead
      <4> QED
        BY <1>1, <1>3, <4>1, <4>2, <4>3
    <3> QED
      BY <3>1, <3>2, <3>3
  <2>4. \A k \in 0 .. n : G[Ring(s, q, k + 1)] = Ring(s, q, k)
    <3> TAKE k \in 0 .. n
    <3>1. CASE k = 0
      <4>1. k + 1 = 1
        BY <3>1
      <4> QED
        BY <1>3, <2>1, <2>2, <3>1, <4>1
    <3>2. CASE k = n
      BY <1>3, <2>1, <2>2, <3>2
    <3>3. CASE k # 0 /\ k # n
      <4>1. k + 1 \in 2 .. n /\ k \in 1 .. n /\ k + 1 \in 1 .. n
        BY <1>1, <3>3
      <4>2. g[Ring(t, q, k + 1)] = Ring(t, q, k)
        BY DEF OnRing
      <4>3. G[q[k + 1]] = g[q[k + 1]]
        BY <4>1 DEF NewHead
      <4> QED
        BY <1>1, <1>3, <4>1, <4>2, <4>3
    <3> QED
      BY <3>1, <3>2, <3>3
  <2> QED
    BY <1>2, <2>3, <2>4, ChainIs
<1> QED
  BY <1>4, <1>5

-----------------------------------------------------------------------------
(* Stacks: contents *)

(* A piece of a sequence, of n members after the first m *)
Piece(P, m, n) == [i \in 1 .. n |-> P[m + i]]

(* is a subsequence, *)
LEMMA PieceIs ==
  ASSUME NEW S, NEW P \in Seq(S), NEW m \in Nat, NEW n \in Nat, m + n <= Len(P)
  PROVE  Piece(P, m, n) \in Seq(S) /\ Len(Piece(P, m, n)) = n
<1>1. \A i \in 1 .. n : m + i \in 1 .. Len(P)
  OBVIOUS
<1>2. \A i \in 1 .. n : P[m + i] \in S
  BY <1>1
<1> QED
  BY <1>2 DEF Piece

(* and what begins where it ends makes it longer. *)
LEMMA PiecesJoin ==
  ASSUME NEW S, NEW P \in Seq(S), NEW m \in Nat, NEW n \in Nat, m + n <= Len(P)
  PROVE  Piece(P, 0, m) \o Piece(P, m, n) = Piece(P, 0, m + n)
<1> DEFINE a == Piece(P, 0, m)
           b == Piece(P, m, n)
           c == Piece(P, 0, m + n)
<1>0. Len(P) \in Nat
  OBVIOUS
<1>1. a \in Seq(S) /\ Len(a) = m /\ \A i \in 1 .. m : a[i] = P[i]
  <2>1. 0 + m <= Len(P) /\ \A i \in 1 .. m : 0 + i = i
    BY <1>0
  <2> QED
    BY <2>1, PieceIs DEF Piece
<1>2. b \in Seq(S) /\ Len(b) = n /\ \A i \in 1 .. n : b[i] = P[m + i]
  BY PieceIs DEF Piece
<1>3. c \in Seq(S) /\ Len(c) = m + n /\ \A i \in 1 .. m + n : c[i] = P[i]
  <2>1. 0 + (m + n) <= Len(P) /\ m + n \in Nat /\ \A i \in 1 .. m + n : 0 + i = i
    BY <1>0
  <2> QED
    BY <2>1, PieceIs DEF Piece
<1> HIDE DEF a, b, c
<1>4. /\ a \o b \in Seq(S) /\ Len(a \o b) = m + n
      /\ \A i \in 1 .. m + n : (a \o b)[i] = IF i <= m THEN a[i] ELSE b[i - m]
  <2>1. a \in Seq(S) /\ b \in Seq(S)
    BY <1>1, <1>2
  <2>2. /\ a \o b \in Seq(S) /\ Len(a \o b) = Len(a) + Len(b)
        /\ \A i \in 1 .. Len(a) + Len(b) :
             (a \o b)[i] = IF i <= Len(a) THEN a[i] ELSE b[i - Len(a)]
    BY <2>1, ConcatProperties
  <2> QED
    BY <1>1, <1>2, <2>2
<1>5. \A i \in 1 .. m + n : (a \o b)[i] = c[i]
  <2> TAKE i \in 1 .. m + n
  <2>1. CASE i <= m
    <3>1. i \in 1 .. m
      BY <2>1
    <3> QED
      BY <1>1, <1>3, <1>4, <2>1, <3>1
  <2>2. CASE ~(i <= m)
    <3>1. i - m \in 1 .. n /\ m + (i - m) = i
      BY <2>2
    <3> QED
      BY <1>2, <1>3, <1>4, <2>2, <3>1
  <2> QED
    BY <2>1, <2>2
<1>6. a \o b = c
  <2>1. a \o b \in Seq(S) /\ c \in Seq(S) /\ Len(a \o b) = Len(c)
        /\ \A i \in 1 .. Len(a \o b) : (a \o b)[i] = c[i]
    BY <1>3, <1>4, <1>5
  <2> QED
    BY <2>1, SeqEqual
<1> QED
  BY <1>6 DEF a, b, c

(* How FlattenSeq goes through pieces. *)
Flatten(f, c, n) == f = [i \in 1 .. n |-> IF i = 1 THEN c[i] ELSE f[i - 1] \o c[i]]

(* They are put together piece by piece. *)
LEMMA FlattenIs ==
  ASSUME NEW c, NEW n \in Nat \ {0}, Len(c) = n, NEW w, Flatten(w, c, n)
  PROVE  FlattenSeq(c) = w[n]
<1> DEFINE f == CHOOSE f : Flatten(f, c, n)
<1>1. Flatten(f, c, n)
  OBVIOUS
<1>2. FlattenSeq(c) = f[n]
  BY DEF FlattenSeq, Flatten
<1> HIDE DEF f
<1>3. f[n] = w[n]
  <2> DEFINE P == {k \in 0 .. n : k = 0 \/ f[k] = w[k]}
  <2>1. 0 \in P
    OBVIOUS
  <2>2. ASSUME NEW k \in 1 .. n, k - 1 \in P PROVE k \in P
    <3>1. /\ f[k] = IF k = 1 THEN c[k] ELSE f[k - 1] \o c[k]
          /\ w[k] = IF k = 1 THEN c[k] ELSE w[k - 1] \o c[k]
      BY <1>1 DEF Flatten
    <3>2. k = 1 \/ f[k - 1] = w[k - 1]
      BY <2>2
    <3> QED
      BY <3>1, <3>2
  <2> HIDE DEF P
  <2>3. n \in P
    BY <2>1, <2>2, AllUpTo
  <2> QED
    BY <2>3 DEF P
<1> QED
  BY <1>2, <1>3

(* A sequence cut into b pages of B members, the last with t of them, *)
Cut(P, B, b, t, c) ==
  /\ Len(P) = (b - 1) * B + t
  /\ c = [k \in 1 .. b |-> Piece(P, (k - 1) * B, IF k = b THEN t ELSE B)]

(* is what the pages hold one after another. *)
LEMMA CutFlattens ==
  ASSUME NEW S, NEW P \in Seq(S), NEW B \in Nat \ {0}, NEW b \in Nat \ {0}, NEW t \in 1 .. B,
         NEW c, Cut(P, B, b, t, c)
  PROVE  FlattenSeq(c) = P
<1> DEFINE end(k) == (k - 1) * B + (IF k = b THEN t ELSE B)
           w == [k \in 1 .. b |-> Piece(P, 0, end(k))]
<1>1. Len(c) = b /\ \A k \in 1 .. b : c[k] = Piece(P, (k - 1) * B, IF k = b THEN t ELSE B)
  BY DEF Cut
<1>2. /\ Len(P) \in Nat /\ Len(P) = end(b)
  BY DEF Cut
<1>3. ASSUME NEW k \in 1 .. b
      PROVE  (k - 1) * B \in Nat /\ end(k) <= Len(P) /\ end(k) \in Nat
  <2>1. k - 1 \in Nat /\ b - 1 \in Nat
    OBVIOUS
  <2>2. (k - 1) * B \in Nat /\ (b - 1) * B \in Nat
    BY <2>1
  <2>3. CASE k = b
    BY <1>2, <2>2, <2>3
  <2>4. CASE k # b
    <3>1. k - 1 < b - 1
      BY <2>4
    <3>2. (k - 1) * B + B <= (b - 1) * B
      BY <2>1, <3>1, PagesBefore
    <3> QED
      BY <1>2, <2>2, <2>4, <3>2
  <2> QED
    BY <2>3, <2>4
<1>4. ASSUME NEW k \in 1 .. b
      PROVE  w[k] = IF k = 1 THEN c[k] ELSE w[k - 1] \o c[k]
  <2> DEFINE n == IF k = b THEN t ELSE B
  <2>1. w[k] = Piece(P, 0, end(k)) /\ c[k] = Piece(P, (k - 1) * B, n) /\ n \in Nat
    BY <1>1
  <2>2. CASE k = 1
    <3>1. (k - 1) * B = 0 /\ end(k) = n
      BY <2>2
    <3> QED
      BY <2>1, <2>2, <3>1
  <2>3. CASE k # 1
    <3>1. k - 1 \in 1 .. b /\ k - 1 # b
      BY <2>3
    <3>2. end(k - 1) = (k - 1) * B
      BY <3>1
    <3>3. w[k - 1] = Piece(P, 0, (k - 1) * B)
      BY <3>1, <3>2
    <3>4. (k - 1) * B \in Nat /\ (k - 1) * B + n <= Len(P)
      BY <1>3
    <3> HIDE DEF n, w
    <3>5. Piece(P, 0, (k - 1) * B) \o Piece(P, (k - 1) * B, n) = Piece(P, 0, (k - 1) * B + n)
      BY <2>1, <3>4, PiecesJoin
    <3>6. end(k) = (k - 1) * B + n
      BY DEF n
    <3> QED
      BY <2>1, <2>3, <3>3, <3>5, <3>6
  <2> QED
    BY <2>2, <2>3
<1>5. Flatten(w, c, b)
  BY <1>4 DEF Flatten
<1>6. FlattenSeq(c) = w[b]
  BY <1>1, <1>5, FlattenIs
<1>7. w[b] = Piece(P, 0, Len(P))
  BY <1>2
<1>8. Piece(P, 0, Len(P)) = P
  BY <1>2 DEF Piece
<1> QED
  BY <1>6, <1>7, <1>8

-----------------------------------------------------------------------------
(* One stack *)

(* The place of cell i of page k on a stack *)
At(k, i) == (k - 1) * BlockSize + i

(* On the pages q, of which it uses n, a stack holds P: the base is b and the
   pointer t cells behind it, and the cells are c. *)
Fits(q, n, b, t, c, P) ==
  /\ n \in Nat /\ t \in 1 .. BlockSize /\ q \in Seq(BlockPages) /\ P \in Seq(StackItems)
  /\ Len(q) = n \/ (n = 0 /\ Len(q) = 1)
  /\ n = 0 => t = BlockSize
  /\ n # 0 => b = q[n]
  /\ Len(P) = At(n, t)
  /\ \A k \in 1 .. n, i \in 1 .. BlockSize : At(k, i) <= Len(P) => c[q[k]][i] = P[At(k, i)]

(* Places are numbered from 1. *)
LEMMA AtNat ==
  /\ BlockSize \in Nat \ {0} /\ At(0, BlockSize) = 0 /\ At(1, 1) = 1
  /\ \A k \in Nat \ {0}, i \in 1 .. BlockSize : At(k, i) \in Nat \ {0}
<1>1. BlockSize \in Nat \ {0}
  BY StacksAssumption
<1>2. ASSUME NEW k \in Nat \ {0}, NEW i \in 1 .. BlockSize
      PROVE  At(k, i) \in Nat \ {0}
  <2>1. k - 1 \in Nat
    OBVIOUS
  <2>2. (k - 1) * BlockSize \in Nat
    BY <1>1, <2>1
  <2> QED
    BY <1>1, <2>2 DEF At
<1>3. At(0, BlockSize) = 0 /\ At(1, 1) = 1
  BY <1>1 DEF At
<1> QED
  BY <1>1, <1>2, <1>3

(* Those of a page come before those of the next, *)
LEMMA AtBefore ==
  ASSUME NEW k \in Nat \ {0}, NEW m \in Nat \ {0}, NEW i \in 1 .. BlockSize,
         NEW j \in 1 .. BlockSize, k < m
  PROVE  At(k, i) < At(m, j)
<1>1. k - 1 \in Nat /\ m - 1 \in Nat /\ k - 1 < m - 1 /\ BlockSize \in Nat
  BY StacksAssumption
<1> QED
  BY <1>1, PlaceIsOne DEF At

(* no two are the same, *)
LEMMA AtOne ==
  ASSUME NEW k \in Nat \ {0}, NEW m \in Nat \ {0}, NEW i \in 1 .. BlockSize,
         NEW j \in 1 .. BlockSize, At(k, i) = At(m, j)
  PROVE  k = m /\ i = j
<1>1. k - 1 \in Nat /\ m - 1 \in Nat /\ BlockSize \in Nat
  BY StacksAssumption
<1>2. k - 1 = m - 1 /\ i = j
  BY <1>1, PlaceIsOne DEF At
<1> QED
  BY <1>2

(* and one follows another. *)
LEMMA AtNext ==
  ASSUME NEW k \in Nat
  PROVE  /\ At(k + 1, 1) = At(k, BlockSize) + 1
         /\ \A i \in Int : At(k, i + 1) = At(k, i) + 1
<1>1. BlockSize \in Int /\ (k - 1) * BlockSize \in Int
  BY StacksAssumption
<1>2. k * BlockSize = (k - 1) * BlockSize + BlockSize
  BY <1>1
<1>3. k + 1 - 1 = k
  OBVIOUS
<1> DEFINE x == (k - 1) * BlockSize
           y == k * BlockSize
<1>4. x \in Int /\ y = x + BlockSize /\ At(k + 1, 1) = y + 1 /\ At(k, BlockSize) = x + BlockSize
      /\ \A i \in Int : At(k, i + 1) = x + (i + 1) /\ At(k, i) = x + i
  BY <1>1, <1>2, <1>3 DEF At
<1> HIDE DEF x, y
<1> QED
  BY <1>1, <1>4

(* The cells of a page are in order. *)
LEMMA AtOrder ==
  ASSUME NEW k \in Nat, NEW i \in Int, NEW j \in Int
  PROVE  At(k, i) \in Int /\ (i < j <=> At(k, i) < At(k, j))
<1> DEFINE x == (k - 1) * BlockSize
<1>1. BlockSize \in Int /\ k - 1 \in Int
  BY StacksAssumption
<1>2. x \in Int
  BY <1>1
<1>3. At(k, i) = x + i /\ At(k, j) = x + j
  BY DEF At
<1> HIDE DEF x
<1> QED
  BY <1>2, <1>3

(* A stack has items if it uses pages. *)
LEMMA FitsSize ==
  ASSUME NEW q, NEW n, NEW b, NEW t, NEW c, NEW P, Fits(q, n, b, t, c, P)
  PROVE  /\ Len(P) \in Nat /\ (n = 0 => P = <<>>)
         /\ n # 0 => Len(P) \in Nat \ {0} /\ P # <<>> /\ q # <<>>
<1>1. n \in Nat /\ t \in 1 .. BlockSize /\ P \in Seq(StackItems) /\ Len(P) = At(n, t)
      /\ q \in Seq(BlockPages)
  BY DEF Fits
<1>2. CASE n = 0
  <2>1. Len(P) = 0
    BY <1>1, <1>2, AtNat DEF Fits
  <2> QED
    BY <1>1, <1>2, <2>1
<1>3. CASE n # 0
  <2>1. Len(P) \in Nat \ {0}
    BY <1>1, <1>3, AtNat
  <2>2. P # <<>>
    BY <2>1
  <2>3. Len(q) = n
    BY <1>3 DEF Fits
  <2>4. q # <<>>
    BY <1>3, <2>3
  <2> QED
    BY <1>3, <2>1, <2>2, <2>4
<1> QED
  BY <1>2, <1>3

(* Other cells do not matter, *)
LEMMA FitsKept ==
  ASSUME NEW q, NEW n, NEW b, NEW t, NEW c, NEW P, Fits(q, n, b, t, c, P),
         NEW d, \A k \in 1 .. Len(q) : d[q[k]] = c[q[k]]
  PROVE  Fits(q, n, b, t, d, P)
<1>1. \A k \in 1 .. n : k \in 1 .. Len(q)
  BY DEF Fits
<1> QED
  BY <1>1 DEF Fits

(* nor, while there are no items, the pages or the base. *)
LEMMA FitsNone ==
  ASSUME NEW q \in Seq(BlockPages), Len(q) \in 0 .. 1, NEW b, NEW c
  PROVE  Fits(q, 0, b, BlockSize, c, <<>>)
<1>1. BlockSize \in 1 .. BlockSize /\ <<>> \in Seq(StackItems) /\ Len(<<>>) = 0
  BY StacksAssumption
<1>2. At(0, BlockSize) = 0
  BY AtNat
<1> QED
  BY <1>1, <1>2 DEF Fits

(* A push: m pages and u cells of the last follow n pages and t cells. *)
Follows(n, t, m, u) ==
  \/ n # 0 /\ t < BlockSize /\ m = n /\ u = t + 1
  \/ t = BlockSize /\ m = n + 1 /\ u = 1

(* It is the next place. *)
LEMMA AtFollows ==
  ASSUME NEW n \in Nat, NEW t \in 1 .. BlockSize, NEW m, NEW u, Follows(n, t, m, u)
  PROVE  m \in Nat \ {0} /\ u \in 1 .. BlockSize /\ At(m, u) = At(n, t) + 1
<1>1. BlockSize \in Nat \ {0}
  BY StacksAssumption
<1>2. CASE n # 0 /\ t < BlockSize /\ m = n /\ u = t + 1
  BY <1>1, <1>2, AtNext
<1>3. CASE t = BlockSize /\ m = n + 1 /\ u = 1
  BY <1>1, <1>3, AtNext
<1> QED
  BY <1>2, <1>3 DEF Follows

(* The n pages of q are the first of r, and only cell u of page m becomes x. *)
Filled(q, n, c, r, m, u, d, x) ==
  /\ r \in Seq(BlockPages) /\ OneToOne(r) /\ Len(r) = m /\ \A k \in 1 .. n : r[k] = q[k]
  /\ x \in StackItems /\ d[r[m]][u] = x
  /\ \A k \in 1 .. m, i \in 1 .. BlockSize : k # m \/ i # u => d[r[k]][i] = c[r[k]][i]

(* What is pushed is on top of the items there were. *)
LEMMA FitsPush ==
  ASSUME NEW q, NEW n, NEW b, NEW t, NEW c, NEW P, Fits(q, n, b, t, c, P),
         NEW m, NEW u, Follows(n, t, m, u), NEW r, NEW d, NEW x, Filled(q, n, c, r, m, u, d, x)
  PROVE  Fits(r, m, r[m], u, d, Append(P, x))
<1> DEFINE Q == Append(P, x)
<1>0. /\ r \in Seq(BlockPages) /\ OneToOne(r) /\ Len(r) = m /\ x \in StackItems
      /\ d[r[m]][u] = x
      /\ \A k \in 1 .. m, i \in 1 .. BlockSize : k # m \/ i # u => d[r[k]][i] = c[r[k]][i]
      /\ \A k \in 1 .. n : r[k] = q[k]
  BY DEF Filled
<1>1. n \in Nat /\ t \in 1 .. BlockSize /\ P \in Seq(StackItems) /\ Len(P) = At(n, t)
      /\ BlockSize \in Nat \ {0}
  BY StacksAssumption DEF Fits
<1>2. m \in Nat \ {0} /\ u \in 1 .. BlockSize /\ At(m, u) = Len(P) + 1
  BY <1>1, AtFollows
<1>3. /\ Len(P) \in Nat /\ Q \in Seq(StackItems) /\ Len(Q) = At(m, u) /\ Q[At(m, u)] = x
      /\ \A k \in 1 .. Len(P) : Q[k] = P[k]
  BY <1>0, <1>1, <1>2
<1> HIDE DEF Q
<1>4. ASSUME NEW k \in 1 .. m, NEW i \in 1 .. BlockSize, At(k, i) <= Len(Q)
      PROVE  d[r[k]][i] = Q[At(k, i)]
  <2>1. CASE k = m /\ i = u
    BY <1>0, <1>3, <2>1
  <2>2. CASE k # m \/ i # u
    <3>1. k \in Nat \ {0} /\ At(k, i) \in Nat \ {0}
      <4>1. k \in Nat \ {0} /\ i \in 1 .. BlockSize
        BY <1>2
      <4> QED
        BY ONLY <4>1, AtNat
    <3>2. At(k, i) # At(m, u)
      BY <1>2, <2>2, <3>1, AtOne
    <3>3. At(k, i) \in 1 .. Len(P)
      BY <1>2, <1>3, <1>4, <3>1, <3>2
    <3>4. k \in 1 .. n
      <4>1. CASE n = m
        BY <4>1
      <4>2. CASE n # m
        <5>1. m = n + 1 /\ u = 1
          BY <4>2 DEF Follows
        <5>2. k # m
          <6> SUFFICES ASSUME k = m PROVE FALSE
            OBVIOUS
          <6>1. i # 1 /\ 1 < i
            BY <2>2, <5>1, <1>1
          <6>2. m \in Nat /\ 1 \in Int /\ i \in Int /\ 1 < i
            BY <1>1, <1>2, <6>1
          <6>3. At(m, 1) \in Int /\ At(m, 1) < At(m, i)
            BY ONLY <6>2, AtOrder
          <6> QED
            BY <1>2, <3>3, <5>1, <6>3
        <5> QED
          BY <1>1, <5>1, <5>2
      <4> QED
        BY <4>1, <4>2
    <3>5. c[q[k]][i] = P[At(k, i)]
      BY <3>3, <3>4 DEF Fits
    <3>6. d[r[k]][i] = c[r[k]][i] /\ r[k] = q[k]
      BY <1>0, <2>2, <3>4
    <3> QED
      BY <1>3, <3>3, <3>5, <3>6
  <2> QED
    BY <2>1, <2>2
<1>5. Fits(r, m, r[m], u, d, Q)
  BY <1>0, <1>2, <1>3, <1>4 DEF Fits
<1> QED
  BY <1>5 DEF Q

(* A pop: n pages and t cells of the last follow m pages and u cells.  The m pages
   are the first of r, and what is in them stays. *)
Emptied(q, n, t, c, r, m, u, d, e) ==
  /\ r \in Seq(BlockPages) /\ m \in Nat /\ u \in 1 .. BlockSize /\ Follows(m, u, n, t)
  /\ Len(r) = m \/ (m = 0 /\ Len(r) = 1)
  /\ \A k \in 1 .. m : r[k] = q[k]
  /\ \A k \in 1 .. m : d[r[k]] = c[r[k]]
  /\ m # 0 => e = r[m]

(* All items but the last are there when the pointer is behind the one before. *)
LEMMA FitsPop ==
  ASSUME NEW q, NEW n, NEW b, NEW t, NEW c, NEW P, Fits(q, n, b, t, c, P),
         NEW r, NEW m, NEW u, NEW d, NEW e, Emptied(q, n, t, c, r, m, u, d, e)
  PROVE  Fits(r, m, e, u, d, Front(P))
<1> DEFINE Q == Front(P)
<1>0. /\ r \in Seq(BlockPages) /\ m \in Nat /\ u \in 1 .. BlockSize /\ Follows(m, u, n, t)
      /\ Len(r) = m \/ (m = 0 /\ Len(r) = 1)
      /\ \A k \in 1 .. m : r[k] = q[k]
      /\ \A k \in 1 .. m : d[r[k]] = c[r[k]]
      /\ m # 0 => e = r[m]
  BY DEF Emptied
<1>1. n \in Nat /\ t \in 1 .. BlockSize /\ P \in Seq(StackItems) /\ Len(P) = At(n, t)
  BY DEF Fits
<1>2. n \in Nat \ {0} /\ At(n, t) = At(m, u) + 1 /\ (m = n \/ n = m + 1)
  BY <1>0, <1>1, AtFollows DEF Follows
<1>3. P # <<>>
  BY <1>0, <1>2, FitsSize
<1>4. /\ Len(P) \in Nat \ {0} /\ Q \in Seq(StackItems) /\ Len(Q) = Len(P) - 1
      /\ \A k \in 1 .. Len(Q) : Q[k] = P[k]
  BY <1>0, <1>1, <1>3, FrontIs
<1> HIDE DEF Q
<1>5. Len(Q) = At(m, u)
  <2>1. m \in Nat /\ u \in Int
    BY <1>0
  <2>2. At(m, u) \in Int
    BY ONLY <2>1, StacksAssumption DEF At
  <2> QED
    BY <1>1, <1>2, <1>4, <2>2
<1>6. ASSUME NEW k \in 1 .. m, NEW i \in 1 .. BlockSize, At(k, i) <= Len(Q)
      PROVE  d[r[k]][i] = Q[At(k, i)]
  <2>1. k \in 1 .. n /\ k \in Nat \ {0}
    BY <1>0, <1>2
  <2>2. At(k, i) \in 1 .. Len(Q) /\ At(k, i) <= Len(P)
    <3>1. k \in Nat \ {0} /\ i \in 1 .. BlockSize
      BY <1>0, <2>1
    <3>2. At(k, i) \in Nat \ {0}
      BY ONLY <3>1, AtNat
    <3> QED
      BY <1>0, <1>4, <1>6, <3>2
  <2>3. c[q[k]][i] = P[At(k, i)]
    BY <1>0, <2>1, <2>2 DEF Fits
  <2> QED
    BY <1>0, <1>4, <2>2, <2>3
<1>7. m = 0 => u = BlockSize
  BY <1>0 DEF Follows
<1>8. Fits(r, m, e, u, d, Q)
  BY <1>0, <1>4, <1>5, <1>6, <1>7 DEF Fits
<1> QED
  BY <1>0, <1>8 DEF Q

-----------------------------------------------------------------------------
(* All FastStacks *)

FastTypes ==
  /\ nextOf \in Links /\ prevOf \in Links
  /\ cellOf \in [BlockPages -> [1 .. BlockSize -> StackItems \cup {NoItem}]]
  /\ blockCount \in [StackNames -> Nat]
  /\ base \in [StackNames -> Ends]
  /\ top \in [StackNames -> 1 .. BlockSize]
  /\ pushed \in [StackNames -> Seq(StackItems)]

(* No page is on two stacks, or on one and free for it. *)
NotOn(p, q) == \A k \in 1 .. Len(q) : q[k] # p
Apart(q, r) == \A k \in 1 .. Len(q) : NotOn(q[k], r)

(* Each stack is right on its pages L[s]. *)
Right(L) ==
  /\ L \in [StackNames -> Seq(BlockPages)]
  /\ \A s \in StackNames :
       /\ OnRing(nextOf, prevOf, s, L[s])
       /\ Fits(L[s], blockCount[s], base[s], top[s], cellOf, pushed[s])
  /\ \A s, t \in StackNames : s # t => Apart(L[s], L[t])

(* Where the item at depth d is on the pages q *)
Placed(q, d, place) ==
  IF d = 0 THEN place = <<>>
  ELSE \E k \in 1 .. Len(q), i \in 1 .. BlockSize : d = At(k, i) /\ place = <<q[k], i>>

(* Nested transactions are of one handle, each within the next, and remember
   places of its stack. *)
Marks == [stack : StackNames, place : {<<>>} \cup (Ends \X (1 .. BlockSize)), depth : Nat]
Marked(L) ==
  /\ marks \in Seq(Marks)
  /\ \A j, k \in 1 .. Len(marks) :
       marks[j].stack = marks[k].stack /\ (j <= k => marks[j].depth <= marks[k].depth)
  /\ \A k \in 1 .. Len(marks) :
       /\ marks[k].depth <= Len(pushed[marks[k].stack])
       /\ Placed(L[marks[k].stack], marks[k].depth, marks[k].place)

FastInv == FastTypes /\ \E L : Right(L) /\ Marked(L)

(* What is remembered *)
LEMMA MarkIs ==
  ASSUME NEW L, Marked(L)
  PROVE  /\ Len(marks) \in Nat /\ DOMAIN marks = 1 .. Len(marks)
         /\ \A k \in 1 .. Len(marks) :
              marks[k] \in Marks /\ marks[k].stack \in StackNames /\ marks[k].depth \in Nat
<1>1. marks \in Seq(Marks)
  BY DEF Marked
<1>2. Len(marks) \in Nat /\ DOMAIN marks = 1 .. Len(marks)
  BY <1>1
<1>3. \A k \in 1 .. Len(marks) : marks[k] \in Marks
  BY <1>1
<1>4. \A m \in Marks : m.stack \in StackNames /\ m.depth \in Nat
  BY DEF Marks
<1> QED
  BY <1>2, <1>3, <1>4

(* The pages of a stack are those Blocks finds. *)
LEMMA BlocksAre ==
  ASSUME NEW L, Right(L)
  PROVE  \A s \in StackNames : Blocks(s) = L[s]
<1> TAKE s \in StackNames
<1>1. OnRing(nextOf, prevOf, s, L[s])
  BY DEF Right
<1>2. Follow(nextOf, s) = L[s]
  BY <1>1, FollowIs
<1> QED
  BY <1>2, BlocksFollow

(* The item on top is in the cell under the pointer. *)
LEMMA TopIs ==
  ASSUME NEW L, Right(L), FastTypes, NEW s \in StackNames
  PROVE  /\ TopPlace(s) \in {<<>>} \cup (Ends \X (1 .. BlockSize))
         /\ Len(pushed[s]) \in Nat
         /\ \A place : Placed(L[s], Len(pushed[s]), place) <=> place = TopPlace(s)
<1> DEFINE q == L[s]
           n == blockCount[s]
           d == Len(pushed[s])
<1>1. Fits(q, n, base[s], top[s], cellOf, pushed[s])
  BY DEF Right
<1>2. TopPlace(s) \in {<<>>} \cup (Ends \X (1 .. BlockSize))
  BY DEF TopPlace, FastTypes
<1>3. d \in Nat /\ (n = 0 => pushed[s] = <<>>) /\ (n # 0 => d \in Nat \ {0})
  BY <1>1, FitsSize
<1>4. CASE n = 0
  <2>1. d = 0 /\ TopPlace(s) = <<>>
    BY <1>3, <1>4 DEF TopPlace
  <2> QED
    BY <1>2, <1>3, <2>1 DEF Placed
<1>5. CASE n # 0
  <2>1. /\ n \in Nat \ {0} /\ Len(q) = n /\ top[s] \in 1 .. BlockSize /\ base[s] = q[n]
        /\ d = At(n, top[s]) /\ d # 0
    BY <1>1, <1>3, <1>5 DEF Fits
  <2>2. TopPlace(s) = <<q[n], top[s]>>
    BY <1>5, <2>1 DEF TopPlace
  <2>3. ASSUME NEW place, Placed(q, d, place)
        PROVE  place = TopPlace(s)
    <3>1. PICK k \in 1 .. Len(q), i \in 1 .. BlockSize : d = At(k, i) /\ place = <<q[k], i>>
      BY <2>1, <2>3 DEF Placed
    <3>2. k \in Nat \ {0} /\ n \in Nat \ {0} /\ i \in 1 .. BlockSize /\ top[s] \in 1 .. BlockSize
          /\ At(k, i) = At(n, top[s])
      BY <2>1, <3>1
    <3>3. k = n /\ i = top[s]
      BY ONLY <3>2, AtOne
    <3> QED
      BY <2>2, <3>1, <3>3
  <2>4. Placed(q, d, TopPlace(s))
    <3>1. n \in 1 .. Len(q)
      BY <2>1
    <3> QED
      BY <2>1, <2>2, <3>1 DEF Placed
  <2> QED
    BY <1>2, <1>3, <2>3, <2>4
<1> QED
  BY <1>4, <1>5

(* and no item below it is. *)
LEMMA TopIsOne ==
  ASSUME NEW L, Right(L), FastTypes, NEW s \in StackNames, NEW d, Placed(L[s], d, TopPlace(s))
  PROVE  d = Len(pushed[s])
<1> DEFINE q == L[s]
           n == blockCount[s]
<1>1. Fits(q, n, base[s], top[s], cellOf, pushed[s]) /\ OneToOne(q)
  BY DEF Right, OnRing
<1>2. Len(pushed[s]) \in Nat /\ (n = 0 => pushed[s] = <<>>) /\ (n # 0 => Len(pushed[s]) # 0)
  BY <1>1, FitsSize
<1>3. CASE d = 0
  <2>1. TopPlace(s) = <<>>
    BY <1>3 DEF Placed
  <2>2. n = 0
    BY <2>1 DEF TopPlace
  <2> QED
    BY <1>2, <1>3, <2>2
<1>4. CASE d # 0
  <2>1. PICK k \in 1 .. Len(q), i \in 1 .. BlockSize : d = At(k, i) /\ TopPlace(s) = <<q[k], i>>
    BY <1>4 DEF Placed
  <2>2. n # 0 /\ <<base[s], top[s]>> = <<q[k], i>>
    BY <2>1 DEF TopPlace
  <2>3. n \in 1 .. Len(q) /\ base[s] = q[n] /\ Len(pushed[s]) = At(n, top[s])
    BY <1>1, <2>2 DEF Fits
  <2>4. q[k] = q[n] /\ i = top[s]
    BY <2>2, <2>3
  <2>5. k = n
    BY <1>1, <2>1, <2>3, <2>4 DEF OneToOne
  <2> QED
    BY <2>1, <2>3, <2>4, <2>5
<1> QED
  BY <1>3, <1>4

(* What is met from the bottom is what was pushed. *)
LEMMA ContentIs ==
  ASSUME NEW L, Right(L), FastTypes, NEW s \in StackNames
  PROVE  StackContent(s) = pushed[s]
<1> DEFINE q == L[s]
           n == blockCount[s]
           t == top[s]
           P == pushed[s]
<1>1. Fits(q, n, base[s], t, cellOf, P)
  BY DEF Right
<1>2. Blocks(s) = q
  BY BlocksAre
<1>3. n \in Nat /\ t \in 1 .. BlockSize /\ P \in Seq(StackItems) /\ q \in Seq(BlockPages)
      /\ Len(P) = At(n, t) /\ BlockSize \in Nat \ {0}
  BY <1>1, StacksAssumption DEF Fits
<1>4. CASE n = 0
  <2>1. P = <<>>
    BY <1>1, <1>4, FitsSize
  <2> QED
    BY <1>4, <2>1 DEF StackContent
<1>5. CASE n # 0
  <2> DEFINE c == [k \in 1 .. Len(q) |->
                     IF k = Len(q) THEN SubSeq(cellOf[q[k]], 1, t) ELSE cellOf[q[k]]]
  <2>1. StackContent(s) = FlattenSeq(c)
    BY <1>2, <1>5 DEF StackContent
  <2>2. Len(q) = n /\ n \in Nat \ {0}
    BY <1>1, <1>3, <1>5 DEF Fits
  <2>3. ASSUME NEW k \in 1 .. n
        PROVE  c[k] = Piece(P, (k - 1) * BlockSize, IF k = n THEN t ELSE BlockSize)
    <3> DEFINE m == IF k = n THEN t ELSE BlockSize
               a == cellOf[q[k]]
    <3>1. m \in 1 .. BlockSize /\ k \in Nat \ {0}
      BY <1>3
    <3>2. q[k] \in BlockPages
      BY <1>3, <2>2
    <3>3. a \in [1 .. BlockSize -> StackItems \cup {NoItem}]
      BY <3>2 DEF FastTypes
    <3>4. c[k] = [i \in 1 .. m |-> a[i]]
      <4>1. CASE k = n
        <5>1. c[k] = SubSeq(a, 1, t)
          BY <2>2, <4>1
        <5>2. a \in Seq(StackItems \cup {NoItem}) /\ Len(a) = BlockSize
          <6> HIDE DEF a
          <6>1. BlockSize \in Nat
            BY StacksAssumption
          <6> QED
            BY ONLY <3>3, <6>1
        <5>3. t \in 0 .. Len(a)
          BY <1>3, <5>2
        <5>4. SubSeq(a, 1, t) = Restrict(a, 1 .. t)
          BY ONLY <5>2, <5>3, SubSeqRestrict
        <5>5. Restrict(a, 1 .. t) = [i \in 1 .. t |-> a[i]]
          BY DEF Restrict
        <5> QED
          BY <4>1, <5>1, <5>4, <5>5
      <4>2. CASE k # n
        BY <2>2, <3>3, <4>2
      <4> QED
        BY <4>1, <4>2
    <3>5. m \in Nat /\ (k = n => m = t)
      BY <1>3
    <3> HIDE DEF m
    <3>6. ASSUME NEW i \in 1 .. m PROVE a[i] = P[(k - 1) * BlockSize + i]
      <4>1. i \in 1 .. BlockSize /\ i <= m
        BY <1>3, <3>1, <3>5
      <4>2. At(k, i) <= Len(P)
        <5>1. CASE k = n
          <6>1. k \in Nat /\ i \in Int /\ t \in Int /\ i <= t
            BY <1>3, <3>1, <3>5, <4>1, <5>1
          <6>2. At(k, t) \in Int /\ (t < i <=> At(k, t) < At(k, i))
            BY ONLY <6>1, AtOrder
          <6>3. At(k, i) \in Int
            BY ONLY <6>1, AtOrder
          <6> QED
            BY <1>3, <5>1, <6>1, <6>2, <6>3
        <5>2. CASE k # n
          <6>1. k \in Nat \ {0} /\ n \in Nat \ {0} /\ i \in 1 .. BlockSize /\ t \in 1 .. BlockSize
                /\ k < n
            BY <1>3, <2>2, <3>1, <4>1, <5>2
          <6>2. At(k, i) < At(n, t) /\ At(k, i) \in Nat \ {0} /\ At(n, t) \in Nat \ {0}
            BY ONLY <6>1, AtBefore, AtNat
          <6> QED
            BY <1>3, <6>2
        <5> QED
          BY <5>1, <5>2
      <4>3. a[i] = P[At(k, i)]
        BY <1>1, <4>1, <4>2 DEF Fits
      <4> QED
        BY <4>3 DEF At
    <3> QED
      BY <3>4, <3>6 DEF Piece, m
  <2>4. c = [k \in 1 .. n |-> Piece(P, (k - 1) * BlockSize, IF k = n THEN t ELSE BlockSize)]
    BY <2>2, <2>3
  <2>5. Len(P) = (n - 1) * BlockSize + t
    BY <1>3 DEF At
  <2> HIDE DEF c
  <2>6. Cut(P, BlockSize, n, t, c)
    BY <2>4, <2>5 DEF Cut
  <2>7. FlattenSeq(c) = P
    BY <1>3, <2>2, <2>6, CutFlattens
  <2> QED
    BY <2>1, <2>7
<1> QED
  BY <1>4, <1>5

(* What StacksHold says of FastStacks *)
FastHold ==
  /\ \A s \in StackNames :
       /\ StackContent(s) = pushed[s]
       /\ (blockCount[s] - 1) * BlockSize + top[s] = Len(pushed[s])
       /\ \A t \in StackNames \ {s} : ToSet(Blocks(s)) \cap ToSet(Blocks(t)) = {}
  /\ \A k \in DOMAIN marks :
       LET m == marks[k]
       IN  Len(pushed[m.stack]) = m.depth <=> TopPlace(m.stack) = m.place

(* FastInv is enough for it. *)
LEMMA FastHolds == FastInv => FastHold
<1> SUFFICES ASSUME FastInv PROVE FastHold
  OBVIOUS
<1>1. PICK L : Right(L) /\ Marked(L)
  BY DEF FastInv
<1>2. FastTypes
  BY DEF FastInv
<1>3. ASSUME NEW s \in StackNames
      PROVE  (blockCount[s] - 1) * BlockSize + top[s] = Len(pushed[s])
  <2>1. Len(pushed[s]) = At(blockCount[s], top[s])
    BY <1>1 DEF Right, Fits
  <2> QED
    BY <2>1 DEF At
<1>4. ASSUME NEW s \in StackNames, NEW t \in StackNames \ {s}
      PROVE  ToSet(Blocks(s)) \cap ToSet(Blocks(t)) = {}
  <2>1. Blocks(s) = L[s] /\ Blocks(t) = L[t]
    BY <1>1, BlocksAre
  <2>2. L[s] \in Seq(BlockPages) /\ L[t] \in Seq(BlockPages) /\ Apart(L[s], L[t])
    BY <1>1 DEF Right
  <2> QED
    BY <2>1, <2>2 DEF ToSet, Apart, NotOn
<1>5. ASSUME NEW k \in DOMAIN marks
      PROVE  Len(pushed[marks[k].stack]) = marks[k].depth <=> TopPlace(marks[k].stack) = marks[k].place
  <2>1. k \in 1 .. Len(marks) /\ marks[k].stack \in StackNames
    BY <1>1, MarkIs
  <2>2. Placed(L[marks[k].stack], marks[k].depth, marks[k].place)
    BY <1>1, <2>1 DEF Marked
  <2> DEFINE s == marks[k].stack
             d == marks[k].depth
             p == marks[k].place
  <2>3. s \in StackNames /\ Placed(L[s], d, p)
    BY <2>1, <2>2
  <2> HIDE DEF s, d, p
  <2>4. Len(pushed[s]) = d => p = TopPlace(s)
    BY <1>1, <1>2, <2>3, TopIs
  <2>5. TopPlace(s) = p => Len(pushed[s]) = d
    BY <1>1, <1>2, <2>3, TopIsOne
  <2> QED
    BY <2>4, <2>5 DEF s, d, p
<1>6. \A s \in StackNames : StackContent(s) = pushed[s]
  BY <1>1, <1>2, ContentIs
<1> QED
  BY <1>3, <1>4, <1>5, <1>6 DEF FastHold

-----------------------------------------------------------------------------
(* Steps of one stack *)

(* What is remembered stays where it is while its pages stay. *)
LEMMA PlacedStays ==
  ASSUME NEW q, NEW d \in Nat, NEW place, Placed(q, d, place),
         NEW r, NEW m, NEW e, NEW u, NEW c, NEW P, Fits(r, m, e, u, c, P), d <= Len(P),
         \A k \in 1 .. Len(q) : k <= m => r[k] = q[k]
  PROVE  Placed(r, d, place)
<1>1. CASE d = 0
  BY <1>1 DEF Placed
<1>2. CASE d # 0
  <2>1. PICK k \in 1 .. Len(q), i \in 1 .. BlockSize : d = At(k, i) /\ place = <<q[k], i>>
    BY <1>2 DEF Placed
  <2>2. /\ m \in Nat /\ u \in 1 .. BlockSize /\ Len(P) = At(m, u) /\ k \in Nat \ {0}
        /\ Len(P) \in Nat /\ (m = 0 => Len(P) = 0)
        /\ m # 0 => Len(r) = m
    <3>1. Len(P) \in Nat /\ (m = 0 => P = <<>>)
      BY FitsSize
    <3>2. /\ m \in Nat /\ u \in 1 .. BlockSize /\ Len(P) = At(m, u)
          /\ m # 0 => Len(r) = m
      BY DEF Fits
    <3>3. m = 0 => Len(P) = 0
      BY <3>1
    <3> QED
      BY <3>1, <3>2, <3>3
  <2>3. m # 0
    BY <1>2, <2>2
  <2>4. k <= m
    <3> SUFFICES ASSUME m < k PROVE FALSE
      BY <2>2
    <3>1. /\ m \in Nat \ {0} /\ k \in Nat \ {0} /\ u \in 1 .. BlockSize /\ i \in 1 .. BlockSize
          /\ m < k
      BY <2>2, <2>3
    <3>2. At(m, u) < At(k, i) /\ At(m, u) \in Nat \ {0} /\ At(k, i) \in Nat \ {0}
      BY ONLY <3>1, AtBefore, AtNat
    <3> QED
      BY <2>1, <2>2, <3>2
  <2>5. k \in 1 .. Len(r) /\ r[k] = q[k]
    BY <2>2, <2>3, <2>4
  <2> QED
    BY <1>2, <2>1, <2>5 DEF Placed
<1> QED
  BY <1>1, <1>2

(* Nothing happens to other stacks than s. *)
Others(L, s) ==
  \A u \in StackNames \ {s} :
    /\ blockCount'[u] = blockCount[u] /\ base'[u] = base[u] /\ top'[u] = top[u]
    /\ pushed'[u] = pushed[u]
    /\ Agree(nextOf', nextOf, u, L[u]) /\ Agree(prevOf', prevOf, u, L[u])
    /\ \A k \in 1 .. Len(L[u]) : cellOf'[L[u][k]] = cellOf[L[u][k]]

(* The pages of s are r now, and it is right on them. *)
Becomes(L, s, r) ==
  /\ r \in Seq(BlockPages) /\ OnRing(nextOf', prevOf', s, r)
  /\ Fits(r, blockCount'[s], base'[s], top'[s], cellOf', pushed'[s])
  /\ \A u \in StackNames \ {s} : Apart(r, L[u]) /\ Apart(L[u], r)

(* Then all stacks are right, on the pages they had or r. *)
LEMMA OneChanges ==
  ASSUME NEW L, Right(L), NEW s \in StackNames, NEW r, Others(L, s), Becomes(L, s, r)
  PROVE  Right([L EXCEPT ![s] = r])'
<1> DEFINE M == [L EXCEPT ![s] = r]
<1>1. /\ M \in [StackNames -> Seq(BlockPages)] /\ M[s] = r
      /\ \A u \in StackNames \ {s} : M[u] = L[u]
  BY DEF Right, Becomes
<1> HIDE DEF M
<1>2. ASSUME NEW u \in StackNames
      PROVE  /\ OnRing(nextOf', prevOf', u, M[u])
             /\ Fits(M[u], blockCount'[u], base'[u], top'[u], cellOf', pushed'[u])
  <2>1. CASE u = s
    BY <1>1, <2>1 DEF Becomes
  <2>2. CASE u # s
    <3>1. M[u] = L[u] /\ u \in StackNames \ {s}
      BY <1>1, <2>2
    <3>2. /\ OnRing(nextOf, prevOf, u, L[u])
          /\ Fits(L[u], blockCount[u], base[u], top[u], cellOf, pushed[u])
      BY DEF Right
    <3>3. Agree(nextOf', nextOf, u, L[u]) /\ Agree(prevOf', prevOf, u, L[u])
      BY <3>1 DEF Others
    <3>4. OnRing(nextOf', prevOf', u, L[u])
      BY <3>2, <3>3, ChainKept
    <3>5. Fits(L[u], blockCount[u], base[u], top[u], cellOf', pushed[u])
      BY <3>1, <3>2, FitsKept DEF Others
    <3> QED
      BY <3>1, <3>4, <3>5 DEF Others
  <2> QED
    BY <2>1, <2>2
<1>3. ASSUME NEW u \in StackNames, NEW v \in StackNames, u # v
      PROVE  Apart(M[u], M[v])
  <2>1. CASE u = s
    <3>1. Apart(r, L[v]) /\ M[v] = L[v]
      BY <1>1, <1>3, <2>1 DEF Becomes
    <3> QED
      BY <1>1, <2>1, <3>1
  <2>2. CASE v = s
    <3>1. Apart(L[u], r) /\ M[u] = L[u]
      BY <1>1, <1>3, <2>2 DEF Becomes
    <3> QED
      BY <1>1, <2>2, <3>1
  <2>3. CASE u # s /\ v # s
    <3>1. Apart(L[u], L[v]) /\ M[u] = L[u] /\ M[v] = L[v]
      BY <1>1, <1>3, <2>3 DEF Right
    <3> QED
      BY <3>1
  <2> QED
    BY <2>1, <2>2, <2>3
<1>4. Right(M)'
  BY <1>1, <1>2, <1>3 DEF Right
<1> QED
  BY <1>4 DEF M

(* The pages that stay in use stay where they are, and the items that nested
   transactions have found are still there. *)
Keeps(L, s, r) ==
  /\ marks' = marks
  /\ \A k \in 1 .. Len(L[s]) : k <= blockCount'[s] => r[k] = L[s][k]
  /\ \A k \in 1 .. Len(marks) :
       marks[k].stack = s => marks[k].depth <= Len(pushed'[s])

(* The invariant is kept if what is remembered is still among the items. *)
LEMMA StackChanges ==
  ASSUME FastTypes', NEW L, Right(L), Marked(L), NEW s \in StackNames, NEW r,
         Others(L, s), Becomes(L, s, r), Keeps(L, s, r)
  PROVE  FastInv'
<1> DEFINE M == [L EXCEPT ![s] = r]
<1>1. Right(M)'
  BY OneChanges
<1>2. M[s] = r /\ \A u \in StackNames \ {s} : M[u] = L[u]
  BY DEF Right
<1> HIDE DEF M
<1>3. ASSUME NEW k \in 1 .. Len(marks)
      PROVE  /\ marks[k].depth <= Len(pushed'[marks[k].stack])
             /\ Placed(M[marks[k].stack], marks[k].depth, marks[k].place)
  <2> DEFINE u == marks[k].stack
             d == marks[k].depth
             p == marks[k].place
  <2>1. u \in StackNames /\ d \in Nat
    BY MarkIs
  <2>2. d <= Len(pushed[u]) /\ Placed(L[u], d, p)
    BY DEF Marked
  <2>3. u = s => d <= Len(pushed'[s])
    BY DEF Keeps
  <2> HIDE DEF u, d, p
  <2>4. CASE u = s
    <3>1. Fits(r, blockCount'[s], base'[s], top'[s], cellOf', pushed'[s])
      BY DEF Becomes
    <3>2. \A j \in 1 .. Len(L[s]) : j <= blockCount'[s] => r[j] = L[s][j]
      BY DEF Keeps
    <3>3. Placed(L[s], d, p) /\ d <= Len(pushed'[s])
      BY <2>2, <2>3, <2>4
    <3>4. Placed(r, d, p)
      BY <2>1, <3>1, <3>2, <3>3, PlacedStays
    <3> QED
      BY <1>2, <2>4, <3>3, <3>4 DEF u, d, p
  <2>5. CASE u # s
    <3>1. u \in StackNames \ {s} /\ M[u] = L[u] /\ pushed'[u] = pushed[u]
      BY <1>2, <2>1, <2>5 DEF Others
    <3> QED
      BY <2>2, <3>1 DEF u, d, p
  <2> QED
    BY <2>4, <2>5
<1>4. Marked(M)'
  <2>1. marks' = marks
    BY DEF Keeps
  <2>2. /\ marks \in Seq(Marks)
        /\ \A j, k \in 1 .. Len(marks) :
             marks[j].stack = marks[k].stack /\ (j <= k => marks[j].depth <= marks[k].depth)
    BY DEF Marked
  <2>3. Marks' = Marks
    BY DEF Marks, Ends
  <2> QED
    BY <1>3, <2>1, <2>2, <2>3 DEF Marked
<1> QED
  BY <1>1, <1>4 DEF FastInv

(* A page that nobody has *)
LEMMA PageFree ==
  ASSUME NEW L, Right(L), NEW p, p \notin UsedPages, NEW u \in StackNames
  PROVE  NotOn(p, L[u])
<1>1. p \notin ToSet(Blocks(u))
  BY DEF UsedPages
<1>2. Blocks(u) = L[u] /\ L[u] \in Seq(BlockPages)
  BY BlocksAre DEF Right
<1> QED
  BY <1>1, <1>2 DEF ToSet, NotOn

(* and one of a stack are not on the others. *)
LEMMA PageElsewhere ==
  ASSUME NEW L, Right(L), NEW s \in StackNames, NEW p \in BlockPages,
         p \notin UsedPages \/ \E k \in 1 .. Len(L[s]) : p = L[s][k],
         NEW u \in StackNames, u # s
  PROVE  p # u /\ NotOn(p, L[u])
<1>1. p # u
  BY StacksAssumption
<1>2. CASE \E k \in 1 .. Len(L[s]) : p = L[s][k]
  <2>1. Apart(L[s], L[u])
    BY DEF Right
  <2> QED
    BY <1>1, <1>2, <2>1 DEF Apart
<1>3. CASE p \notin UsedPages
  BY <1>1, <1>3, PageFree
<1> QED
  BY <1>2, <1>3

(* Where a push goes: the pages are r, m of them in use, and the item is in
   cell u of the last. *)
Expands(L, s, r, m, u) ==
  /\ r \in Seq(BlockPages) /\ OnRing(nextOf', prevOf', s, r) /\ Len(r) = m
  /\ Follows(blockCount[s], top[s], m, u)
  /\ blockCount' = [blockCount EXCEPT ![s] = m] /\ top' = [top EXCEPT ![s] = u]
  /\ base' = [base EXCEPT ![s] = r[m]]
  /\ nextOf' \in Links /\ prevOf' \in Links
  /\ Len(L[s]) <= m /\ \A k \in 1 .. Len(L[s]) : r[k] = L[s][k]
  /\ \A v \in StackNames \ {s} :
       /\ Apart(r, L[v]) /\ Apart(L[v], r)
       /\ Agree(nextOf', nextOf, v, L[v]) /\ Agree(prevOf', prevOf, v, L[v])

(* Three ways to find room for an item *)
LEMMA PushExpands ==
  ASSUME FastTypes, NEW L, Right(L), NEW s \in StackNames, NEW x \in StackItems, StackPush(s, x)
  PROVE  \E r, m, u : Expands(L, s, r, m, u)
<1> DEFINE q == L[s]
           n == blockCount[s]
           t == top[s]
<1>1. /\ OnRing(nextOf, prevOf, s, q) /\ Fits(q, n, base[s], t, cellOf, pushed[s])
      /\ q \in Seq(BlockPages)
  BY DEF Right
<1>2. /\ n \in Nat /\ t \in 1 .. BlockSize /\ (Len(q) = n \/ (n = 0 /\ Len(q) = 1))
      /\ (n = 0 => t = BlockSize) /\ (n # 0 => base[s] = q[n]) /\ BlockSize \in Nat
  BY <1>1, StacksAssumption DEF Fits
<1>3. ASSUME NEW v \in StackNames \ {s}
      PROVE  Apart(q, L[v]) /\ Apart(L[v], q)
  BY DEF Right
<1>4. /\ blockCount \in [StackNames -> Nat] /\ top \in [StackNames -> 1 .. BlockSize]
      /\ base \in [StackNames -> Ends] /\ nextOf \in Links /\ prevOf \in Links
  BY DEF FastTypes
<1>5. CASE t < BlockSize
  <2>1. /\ top' = [top EXCEPT ![s] = t + 1]
        /\ nextOf' = nextOf /\ prevOf' = prevOf /\ blockCount' = blockCount /\ base' = base
    BY <1>5 DEF StackPush
  <2>2. n # 0 /\ Len(q) = n /\ base[s] = q[n]
    BY <1>2, <1>5
  <2>3. Follows(n, t, n, t + 1)
    BY <1>5, <2>2 DEF Follows
  <2>4. /\ blockCount' = [blockCount EXCEPT ![s] = n] /\ base' = [base EXCEPT ![s] = q[n]]
    BY <1>4, <2>1, <2>2
  <2>5. \A v \in StackNames \ {s} :
          Agree(nextOf', nextOf, v, L[v]) /\ Agree(prevOf', prevOf, v, L[v])
    BY <2>1 DEF Agree
  <2>6. Len(q) <= n /\ OnRing(nextOf', prevOf', s, q) /\ nextOf' \in Links /\ prevOf' \in Links
    BY <1>1, <1>2, <1>4, <2>1, <2>2
  <2>7. Expands(L, s, q, n, t + 1)
    BY <1>1, <1>3, <2>1, <2>2, <2>3, <2>4, <2>5, <2>6 DEF Expands
  <2> QED
    BY <2>7
<1>6. CASE ~(t < BlockSize)
  <2>1. /\ blockCount' = [blockCount EXCEPT ![s] = n + 1] /\ top' = [top EXCEPT ![s] = 1]
        /\ base' = [base EXCEPT ![s] = prevOf'[s]]
    BY <1>6 DEF StackPush
  <2>2. t = BlockSize /\ Follows(n, t, n + 1, 1)
    BY <1>2, <1>6 DEF Follows
  <2>3. CASE n = 0 /\ nextOf[s] # s
    <3>1. nextOf' = nextOf /\ prevOf' = prevOf
      BY <1>6, <2>3 DEF StackPush
    <3>2. q # <<>>
      <4> SUFFICES ASSUME q = <<>> PROVE FALSE
        OBVIOUS
      <4>1. nextOf[s] = Ring(s, q, 1)
        BY <1>1, RingIs
      <4>2. Ring(s, q, 1) = s
        BY DEF Ring
      <4> QED
        BY <2>3, <4>1, <4>2
    <3>3. Len(q) = n + 1 /\ n + 1 = 1
      BY <1>1, <1>2, <2>3, <3>2
    <3>4. prevOf'[s] = q[n + 1]
      <4>1. prevOf[s] = Ring(s, q, Len(q))
        BY <1>1, RingIs
      <4>2. Len(q) \in 1 .. Len(q)
        BY <3>3
      <4> QED
        BY <3>1, <3>3, <4>1, <4>2 DEF Ring
    <3>5. \A v \in StackNames \ {s} :
            Agree(nextOf', nextOf, v, L[v]) /\ Agree(prevOf', prevOf, v, L[v])
      BY <3>1 DEF Agree
    <3>6. /\ Len(q) <= n + 1 /\ OnRing(nextOf', prevOf', s, q)
          /\ nextOf' \in Links /\ prevOf' \in Links
      BY <1>1, <1>2, <1>4, <3>1, <3>3
    <3>7. Expands(L, s, q, n + 1, 1)
      BY <1>1, <1>3, <2>1, <2>2, <3>3, <3>4, <3>5, <3>6 DEF Expands
    <3> QED
      BY <3>7
  <2>4. CASE ~(n = 0 /\ nextOf[s] # s)
    <3>1. PICK p \in BlockPages \ UsedPages : ListAddEnd(s, p)
      BY <1>6, <2>4 DEF StackPush
    <3>2. Len(q) = n
      <4> SUFFICES ASSUME Len(q) # n PROVE FALSE
        OBVIOUS
      <4>1. n = 0 /\ Len(q) = 1
        BY <1>2
      <4>2. nextOf[s] = Ring(s, q, 1) /\ Ring(s, q, 1) = q[1] /\ q[1] # s
        BY <1>1, <4>1, RingIs
      <4> QED
        BY <2>4, <4>1, <4>2
    <3> DEFINE r == Append(q, p)
    <3>3. /\ r \in Seq(BlockPages) /\ Len(r) = n + 1 /\ r[n + 1] = p
          /\ \A k \in 1 .. Len(q) : r[k] = q[k]
      BY <1>1, <1>2, <3>2
    <3>4. NotOn(p, q)
      BY <3>1, PageFree
    <3>5. /\ nextOf' = [nextOf EXCEPT ![prevOf[s]] = p, ![p] = s]
          /\ prevOf' = [prevOf EXCEPT ![p] = prevOf[s], ![s] = p]
      BY <3>1 DEF ListAddEnd
    <3>6. OnRing(nextOf', prevOf', s, r)
      BY <1>1, <1>4, <3>1, <3>4, <3>5, ChainAdd DEF NotOn
    <3>7. /\ s \in Ends /\ p \in Ends /\ prevOf[s] \in Ends /\ p # s
          /\ prevOf[s] = s \/ (prevOf[s] \in BlockPages /\ \E k \in 1 .. Len(q) : prevOf[s] = q[k])
      <4>1. s \in Ends /\ p \in Ends /\ prevOf[s] \in Ends /\ p # s
        BY <1>4, <3>1, StacksAssumption DEF Ends, Links
      <4>2. prevOf[s] = Ring(s, q, Len(q))
        BY <1>1, RingIs
      <4>3. q \in Seq(BlockPages)
        BY <1>1
      <4> QED
        BY <4>1, <4>2, <4>3 DEF Ring
    <3>8. nextOf' \in Links /\ prevOf' \in Links /\ prevOf'[s] = p
      BY <1>4, <3>5, <3>7 DEF Links
    <3>9. ASSUME NEW v \in StackNames \ {s}
          PROVE  /\ Agree(nextOf', nextOf, v, L[v]) /\ Agree(prevOf', prevOf, v, L[v])
                 /\ NotOn(p, L[v])
      <4>1. p # v /\ NotOn(p, L[v])
        BY <3>1, PageElsewhere
      <4>2. prevOf[s] # v /\ NotOn(prevOf[s], L[v])
        <5>1. OnRing(nextOf, prevOf, v, L[v])
          BY DEF Right
        <5>2. CASE prevOf[s] = s
          <6>1. \A k \in 1 .. Len(L[v]) : L[v][k] \in BlockPages
            BY <5>1, RingIs
          <6> QED
            BY <5>2, <6>1, StacksAssumption DEF NotOn
        <5>3. CASE prevOf[s] # s
          <6>1. prevOf[s] \in BlockPages /\ \E k \in 1 .. Len(q) : prevOf[s] = q[k]
            BY <3>7, <5>3
          <6> QED
            BY <6>1, PageElsewhere
        <5> QED
          BY <5>2, <5>3
      <4>3. NotOn(s, L[v]) /\ v # s
        <5>1. OnRing(nextOf, prevOf, v, L[v])
          BY DEF Right
        <5>2. \A k \in 1 .. Len(L[v]) : L[v][k] \in BlockPages
          BY <5>1, RingIs
        <5> QED
          BY <5>2, StacksAssumption DEF NotOn
      <4>4. \A y \in Ends \ {p, s, prevOf[s]} : nextOf'[y] = nextOf[y] /\ prevOf'[y] = prevOf[y]
        BY <1>4, <3>5, <3>7 DEF Links
      <4>5. v \in Ends /\ \A k \in 1 .. Len(L[v]) : L[v][k] \in Ends
        <5>1. OnRing(nextOf, prevOf, v, L[v])
          BY DEF Right
        <5> QED
          BY <5>1, RingIs DEF Ends
      <4>6. v \in Ends \ {p, s, prevOf[s]}
            /\ \A k \in 1 .. Len(L[v]) : L[v][k] \in Ends \ {p, s, prevOf[s]}
        BY <4>1, <4>2, <4>3, <4>5 DEF NotOn
      <4> QED
        BY <4>1, <4>4, <4>6 DEF Agree
    <3>10. ASSUME NEW v \in StackNames \ {s}
           PROVE  Apart(r, L[v]) /\ Apart(L[v], r)
      <4>1. Apart(q, L[v]) /\ NotOn(p, L[v]) /\ Len(q) \in Nat
        BY <1>2, <1>3, <3>9
      <4> HIDE DEF r
      <4>2. \A k \in 1 .. Len(r) : k \in 1 .. Len(q) \/ k = n + 1
        BY <1>2, <3>2, <3>3
      <4>3. \A k \in 1 .. Len(r) : NotOn(r[k], L[v])
        BY <3>3, <4>1, <4>2 DEF Apart
      <4> QED
        BY <4>3 DEF Apart, NotOn
    <3> HIDE DEF r
    <3>11. base' = [base EXCEPT ![s] = r[n + 1]]
      BY <2>1, <3>3, <3>8
    <3>12. Len(q) <= n + 1
      BY <1>2, <3>2
    <3>13. Expands(L, s, r, n + 1, 1)
      BY <2>1, <2>2, <3>3, <3>6, <3>8, <3>9, <3>10, <3>11, <3>12 DEF Expands
    <3> QED
      BY <3>13
  <2> QED
    BY <2>3, <2>4
<1> QED
  BY <1>5, <1>6

(* A push *)
LEMMA PushHolds ==
  ASSUME FastInv, NEW s \in StackNames, NEW x \in StackItems, StackPush(s, x)
  PROVE  FastInv'
<1>1. PICK L : Right(L) /\ Marked(L)
  BY DEF FastInv
<1>2. FastTypes
  BY DEF FastInv
<1>3. PICK r, m, u : Expands(L, s, r, m, u)
  BY <1>1, <1>2, PushExpands
<1> DEFINE q == L[s]
           n == blockCount[s]
           t == top[s]
           P == pushed[s]
<1>4. OnRing(nextOf, prevOf, s, q) /\ Fits(q, n, base[s], t, cellOf, P)
  BY <1>1 DEF Right
<1>5. /\ cellOf' = [cellOf EXCEPT ![base'[s]][top'[s]] = x]
      /\ pushed' = [pushed EXCEPT ![s] = Append(P, x)] /\ marks' = marks
  BY DEF StackPush
<1>6. /\ blockCount \in [StackNames -> Nat] /\ top \in [StackNames -> 1 .. BlockSize]
      /\ base \in [StackNames -> Ends] /\ pushed \in [StackNames -> Seq(StackItems)]
      /\ cellOf \in [BlockPages -> [1 .. BlockSize -> StackItems \cup {NoItem}]]
  BY <1>2 DEF FastTypes
<1>7. /\ r \in Seq(BlockPages) /\ OnRing(nextOf', prevOf', s, r) /\ Len(r) = m
      /\ Follows(n, t, m, u)
      /\ blockCount' = [blockCount EXCEPT ![s] = m] /\ top' = [top EXCEPT ![s] = u]
      /\ base' = [base EXCEPT ![s] = r[m]] /\ nextOf' \in Links /\ prevOf' \in Links
      /\ Len(q) <= m /\ \A k \in 1 .. Len(q) : r[k] = q[k]
  BY <1>3 DEF Expands
<1>8. m \in Nat \ {0} /\ u \in 1 .. BlockSize
  BY <1>6, <1>7, AtFollows
<1>9. r[m] \in BlockPages /\ OneToOne(r) /\ m \in 1 .. m
  <2>1. m \in 1 .. Len(r)
    BY <1>7, <1>8
  <2> QED
    BY <1>7, <2>1 DEF OnRing
<1>10. blockCount'[s] = m /\ top'[s] = u /\ base'[s] = r[m] /\ pushed'[s] = Append(P, x)
  BY <1>5, <1>6, <1>7
<1>11. /\ cellOf'[r[m]][u] = x /\ cellOf'[r[m]] \in [1 .. BlockSize -> StackItems \cup {NoItem}]
       /\ \A i \in 1 .. BlockSize : i # u => cellOf'[r[m]][i] = cellOf[r[m]][i]
       /\ \A p \in BlockPages \ {r[m]} : cellOf'[p] = cellOf[p]
       /\ DOMAIN cellOf' = BlockPages /\ cellOf' = [p \in BlockPages |-> cellOf'[p]]
  <2>1. cellOf' = [cellOf EXCEPT ![r[m]] = [cellOf[r[m]] EXCEPT ![u] = x]]
    BY <1>5, <1>10
  <2> DEFINE a == cellOf[r[m]]
             p == r[m]
  <2>2. p \in BlockPages /\ a \in [1 .. BlockSize -> StackItems \cup {NoItem}]
    BY <1>6, <1>9
  <2> DEFINE b == [a EXCEPT ![u] = x]
  <2>3. /\ b \in [1 .. BlockSize -> StackItems \cup {NoItem}] /\ b[u] = x
        /\ \A i \in 1 .. BlockSize : i # u => b[i] = a[i]
    BY <1>8, <2>2
  <2>4. cellOf' = [cellOf EXCEPT ![p] = b]
    BY <2>1
  <2> HIDE DEF a, b, p
  <2>5. /\ cellOf'[p] = b /\ \A y \in BlockPages \ {p} : cellOf'[y] = cellOf[y]
        /\ DOMAIN cellOf' = BlockPages /\ cellOf' = [y \in BlockPages |-> cellOf'[y]]
    BY <1>6, <2>2, <2>4
  <2> QED
    BY <2>3, <2>5 DEF a, p
<1>12. FastTypes'
  <2>1. cellOf' \in [BlockPages -> [1 .. BlockSize -> StackItems \cup {NoItem}]]
    <3>1. \A p \in BlockPages : cellOf'[p] \in [1 .. BlockSize -> StackItems \cup {NoItem}]
      BY <1>6, <1>11
    <3> QED
      BY <1>11, <3>1
  <2>2. blockCount' \in [StackNames -> Nat] /\ top' \in [StackNames -> 1 .. BlockSize]
    BY <1>6, <1>7, <1>8
  <2>3. base' \in [StackNames -> Ends]
    BY <1>6, <1>7, <1>9 DEF Ends
  <2>4. pushed' \in [StackNames -> Seq(StackItems)]
    <3>1. Append(P, x) \in Seq(StackItems)
      BY <1>6
    <3> QED
      BY <1>5, <1>6, <3>1
  <2> QED
    BY <1>7, <2>1, <2>2, <2>3, <2>4 DEF FastTypes, Links, Ends, NoItem
<1>13. Becomes(L, s, r)
  <2>1. \A k \in 1 .. n : r[k] = q[k]
    <3>1. \A k \in 1 .. n : k \in 1 .. Len(q)
      BY <1>4 DEF Fits
    <3> QED
      BY <1>7, <3>1
  <2>2. \A k \in 1 .. m, i \in 1 .. BlockSize :
          k # m \/ i # u => cellOf'[r[k]][i] = cellOf[r[k]][i]
    <3> TAKE k \in 1 .. m, i \in 1 .. BlockSize
    <3> HAVE k # m \/ i # u
    <3>1. k \in 1 .. Len(r) /\ m \in 1 .. Len(r) /\ r[k] \in BlockPages
      BY <1>7, <1>9
    <3>2. CASE k = m
      BY <1>11, <3>2
    <3>3. CASE k # m
      <4>1. r[k] # r[m]
        BY <1>9, <3>1, <3>3 DEF OneToOne
      <4> QED
        BY <1>11, <3>1, <4>1
    <3> QED
      BY <3>2, <3>3
  <2>3. Fits(r, m, r[m], u, cellOf', Append(P, x))
    <3>1. Filled(q, n, cellOf, r, m, u, cellOf', x)
      BY <1>7, <1>9, <1>11, <2>1, <2>2 DEF Filled
    <3> QED
      BY ONLY <1>4, <1>7, <3>1, FitsPush
  <2>4. \A v \in StackNames \ {s} : Apart(r, L[v]) /\ Apart(L[v], r)
    BY <1>3 DEF Expands
  <2> QED
    BY <1>7, <1>10, <2>3, <2>4 DEF Becomes
<1>14. Others(L, s)
  <2> SUFFICES ASSUME NEW v \in StackNames \ {s}
               PROVE  /\ blockCount'[v] = blockCount[v] /\ base'[v] = base[v] /\ top'[v] = top[v]
                      /\ pushed'[v] = pushed[v]
                      /\ Agree(nextOf', nextOf, v, L[v]) /\ Agree(prevOf', prevOf, v, L[v])
                      /\ \A k \in 1 .. Len(L[v]) : cellOf'[L[v][k]] = cellOf[L[v][k]]
    BY DEF Others
  <2>1. /\ blockCount'[v] = blockCount[v] /\ base'[v] = base[v] /\ top'[v] = top[v]
        /\ pushed'[v] = pushed[v]
    BY <1>5, <1>6, <1>7
  <2>2. Agree(nextOf', nextOf, v, L[v]) /\ Agree(prevOf', prevOf, v, L[v]) /\ Apart(r, L[v])
    BY <1>3 DEF Expands
  <2>3. \A k \in 1 .. Len(L[v]) : cellOf'[L[v][k]] = cellOf[L[v][k]]
    <3> TAKE k \in 1 .. Len(L[v])
    <3>1. L[v][k] \in BlockPages
      BY <1>1, RingIs DEF Right
    <3>2. L[v][k] # r[m]
      BY <1>7, <1>9, <2>2 DEF Apart, NotOn
    <3> QED
      BY <1>11, <3>1, <3>2
  <2> QED
    BY <2>1, <2>2, <2>3
<1>15. Keeps(L, s, r)
  <2>1. ASSUME NEW k \in 1 .. Len(marks), marks[k].stack = s
        PROVE  marks[k].depth <= Len(pushed'[s])
    <3>1. marks[k].depth <= Len(P) /\ marks[k].depth \in Nat
      BY <1>1, <2>1, MarkIs DEF Marked
    <3>2. Len(Append(P, x)) = Len(P) + 1 /\ Len(P) \in Nat
      BY <1>6
    <3> QED
      BY <1>10, <3>1, <3>2
  <2> QED
    BY <1>5, <1>7, <2>1 DEF Keeps
<1> QED
  BY <1>1, <1>12, <1>13, <1>14, <1>15, StackChanges

(* What the nested transactions of a stack have found is no more than Depth. *)
LEMMA DepthIs ==
  ASSUME NEW L, Marked(L), NEW s \in StackNames
  PROVE  /\ Depth(s) \in Nat
         /\ \A k \in 1 .. Len(marks) : marks[k].stack = s => marks[k].depth <= Depth(s)
<1>1. /\ Len(marks) \in Nat /\ \A k \in 1 .. Len(marks) : marks[k].depth \in Nat
      /\ marks \in Seq(Marks)
  BY MarkIs DEF Marked
<1>2. CASE marks = <<>>
  BY <1>2 DEF Depth
<1>3. CASE marks # <<>>
  <2> DEFINE n == Len(marks)
  <2>1. n \in 1 .. n /\ Last(marks) = marks[n]
    BY <1>1, <1>3 DEF Last
  <2>2. \A k \in 1 .. n : marks[k].stack = marks[n].stack /\ marks[k].depth <= marks[n].depth
    <3>1. \A k \in 1 .. n : k <= n
      BY <1>1
    <3> QED
      BY <2>1, <3>1 DEF Marked
  <2>3. Depth(s) = IF marks[n].stack = s THEN marks[n].depth ELSE 0
    BY <1>3, <2>1 DEF Depth
  <2> HIDE DEF n
  <2>4. CASE marks[n].stack = s
    BY <1>1, <2>1, <2>2, <2>3, <2>4 DEF n
  <2>5. CASE marks[n].stack # s
    BY <1>1, <2>1, <2>2, <2>3, <2>5 DEF n
  <2> QED
    BY <2>4, <2>5
<1> QED
  BY <1>2, <1>3

(* What goes back to the allocator *)
LEMMA GivenIs ==
  ASSUME FastTypes, NEW pages, Given(pages)
  PROVE  /\ cellOf' \in [BlockPages -> [1 .. BlockSize -> StackItems \cup {NoItem}]]
         /\ \A p \in BlockPages \ pages : cellOf'[p] = cellOf[p]
<1> DEFINE junk == [i \in 1 .. BlockSize |-> NoItem]
<1>1. cellOf' = [p \in BlockPages |-> IF p \in pages THEN junk ELSE cellOf[p]]
  BY DEF Given
<1>2. junk \in [1 .. BlockSize -> StackItems \cup {NoItem}]
  OBVIOUS
<1> HIDE DEF junk
<1> QED
  BY <1>1, <1>2 DEF FastTypes

(* What a pop leaves: the pages are r, m of them in use, and the pointer is
   behind cell u. *)
Contracts(L, s, r, m, u) ==
  /\ r \in Seq(BlockPages) /\ OnRing(nextOf', prevOf', s, r)
  /\ m \in Nat /\ u \in 1 .. BlockSize /\ (Len(r) = m \/ (m = 0 /\ Len(r) = 1))
  /\ Follows(m, u, blockCount[s], top[s])
  /\ blockCount' = [blockCount EXCEPT ![s] = m] /\ top' = [top EXCEPT ![s] = u]
  /\ base' \in [StackNames -> Ends] /\ (m # 0 => base'[s] = r[m])
  /\ nextOf' \in Links /\ prevOf' \in Links
  /\ cellOf' \in [BlockPages -> [1 .. BlockSize -> StackItems \cup {NoItem}]]
  /\ \A k \in 1 .. m : r[k] = L[s][k] /\ cellOf'[r[k]] = cellOf[r[k]]
  /\ \A v \in StackNames \ {s} :
       /\ Apart(r, L[v]) /\ Apart(L[v], r) /\ base'[v] = base[v]
       /\ Agree(nextOf', nextOf, v, L[v]) /\ Agree(prevOf', prevOf, v, L[v])
       /\ \A k \in 1 .. Len(L[v]) : cellOf'[L[v][k]] = cellOf[L[v][k]]

(* A pop moves the pointer back, or gives the last page back unless it is the only one. *)
LEMMA PopContracts ==
  ASSUME FastTypes, NEW L, Right(L), Marked(L), NEW s \in StackNames, StackPop(s)
  PROVE  \E r, m, u : Contracts(L, s, r, m, u)
<1> DEFINE q == L[s]
           n == blockCount[s]
           t == top[s]
           P == pushed[s]
<1>1. /\ OnRing(nextOf, prevOf, s, q) /\ Fits(q, n, base[s], t, cellOf, P)
      /\ q \in Seq(BlockPages)
  BY DEF Right
<1>2. P # <<>> /\ P \in Seq(StackItems)
  <2>1. Len(P) > Depth(s) /\ Depth(s) \in Nat
    BY DepthIs DEF StackPop
  <2>2. P \in Seq(StackItems)
    BY DEF FastTypes
  <2> QED
    BY <2>1, <2>2
<1>3. /\ n \in Nat \ {0} /\ t \in 1 .. BlockSize /\ Len(q) = n /\ base[s] = q[n]
      /\ BlockSize \in Nat \ {0} /\ q # <<>> /\ n \in 1 .. n
  <2>1. n # 0
    BY <1>1, <1>2, FitsSize
  <2>2. /\ n \in Nat \ {0} /\ t \in 1 .. BlockSize /\ Len(q) = n /\ base[s] = q[n]
        /\ BlockSize \in Nat \ {0}
    BY <1>1, <2>1, StacksAssumption DEF Fits
  <2>3. q # <<>>
    BY <2>2
  <2> QED
    BY <2>2, <2>3
<1>4. ASSUME NEW v \in StackNames \ {s}
      PROVE  Apart(q, L[v]) /\ Apart(L[v], q)
  BY DEF Right
<1>5. /\ blockCount \in [StackNames -> Nat] /\ top \in [StackNames -> 1 .. BlockSize]
      /\ base \in [StackNames -> Ends] /\ nextOf \in Links /\ prevOf \in Links
      /\ cellOf \in [BlockPages -> [1 .. BlockSize -> StackItems \cup {NoItem}]]
  BY DEF FastTypes
<1>6. CASE t # 1
  <2>1. /\ top' = [top EXCEPT ![s] = t - 1] /\ nextOf' = nextOf /\ prevOf' = prevOf
        /\ cellOf' = cellOf /\ blockCount' = blockCount /\ base' = base
    BY <1>6 DEF StackPop
  <2>2. t - 1 \in 1 .. BlockSize /\ Follows(n, t - 1, n, t)
    BY <1>3, <1>6 DEF Follows
  <2>3. blockCount' = [blockCount EXCEPT ![s] = n]
    BY <1>5, <2>1
  <2>4. \A v \in StackNames \ {s} :
          Agree(nextOf', nextOf, v, L[v]) /\ Agree(prevOf', prevOf, v, L[v])
    BY <2>1 DEF Agree
  <2>5. OnRing(nextOf', prevOf', s, q)
    BY <1>1, <2>1
  <2>6. Contracts(L, s, q, n, t - 1)
    BY <1>1, <1>3, <1>4, <1>5, <2>1, <2>2, <2>3, <2>4, <2>5 DEF Contracts
  <2> QED
    BY <2>6
<1>7. CASE t = 1
  <2>1. /\ blockCount' = [blockCount EXCEPT ![s] = n - 1] /\ top' = [top EXCEPT ![s] = BlockSize]
        /\ base' = [base EXCEPT ![s] = prevOf'[s]]
    BY <1>7 DEF StackPop, Shrink
  <2>2. n - 1 \in Nat /\ BlockSize \in 1 .. BlockSize /\ Follows(n - 1, BlockSize, n, t)
    BY <1>3, <1>7 DEF Follows
  <2>3. \A v \in StackNames \ {s} : base'[v] = base[v]
    BY <1>5, <2>1
  <2>4. CASE n = 1
    <3>1. nextOf' = nextOf /\ prevOf' = prevOf /\ cellOf' = cellOf
      BY <1>7, <2>4 DEF StackPop, Shrink
    <3>2. base' \in [StackNames -> Ends]
      <4>1. s \in Ends
        BY DEF Ends
      <4>2. prevOf'[s] \in Ends
        BY <1>5, <3>1, <4>1 DEF Links
      <4> QED
        BY <1>5, <2>1, <4>2
    <3>3. \A v \in StackNames \ {s} :
            Agree(nextOf', nextOf, v, L[v]) /\ Agree(prevOf', prevOf, v, L[v])
      BY <3>1 DEF Agree
    <3>4. OnRing(nextOf', prevOf', s, q) /\ n - 1 = 0
      BY <1>1, <2>4, <3>1
    <3>5. Contracts(L, s, q, n - 1, BlockSize)
      BY <1>1, <1>3, <1>4, <1>5, <2>1, <2>2, <2>3, <2>4, <3>1, <3>2, <3>3, <3>4 DEF Contracts
    <3> QED
      BY <3>5
  <2>5. CASE n # 1
    <3> DEFINE p == prevOf[s]
               r == Front(q)
    <3>1. ListRemove(p) /\ Given({p})
      BY <1>3, <1>7, <2>5 DEF StackPop, Shrink
    <3>2. /\ r \in Seq(BlockPages) /\ Len(r) = n - 1 /\ \A k \in 1 .. n - 1 : r[k] = q[k]
      BY <1>1, <1>3, FrontIs
    <3>3. /\ nextOf' = [nextOf EXCEPT ![prevOf[p]] = nextOf[p]]
          /\ prevOf' = [prevOf EXCEPT ![nextOf[p]] = prevOf[p]]
      BY <3>1 DEF ListRemove
    <3>4. OnRing(nextOf', prevOf', s, r) /\ p = q[n] /\ nextOf[p] = s
      <4>1. /\ OnRing([nextOf EXCEPT ![prevOf[p]] = nextOf[p]],
                       [prevOf EXCEPT ![nextOf[p]] = prevOf[p]], s, Front(q))
            /\ p = q[Len(q)] /\ nextOf[p] = s
        <5>1. /\ nextOf \in Links /\ prevOf \in Links /\ s \in StackNames
              /\ OnRing(nextOf, prevOf, s, q) /\ q # <<>>
          BY <1>1, <1>3, <1>5
        <5>2. p = prevOf[s]
          OBVIOUS
        <5> HIDE DEF q, p
        <5> QED
          BY ONLY <5>1, <5>2, ChainRemove DEF r
      <4> QED
        BY <1>3, <3>3, <4>1
    <3> HIDE DEF r, p
    <3>5. n - 1 \in 1 .. n - 1 /\ n - 1 \in 1 .. n
      BY <1>3, <2>5
    <3>6. p \in BlockPages /\ r[n - 1] \in BlockPages
      BY <1>1, <1>3, <3>2, <3>4, <3>5
    <3>7. prevOf'[s] = r[n - 1]
      <4>1. prevOf'[s] = Ring(s, r, Len(r))
        BY <3>4, RingIs
      <4> QED
        BY <3>2, <3>5, <4>1 DEF Ring
    <3>8. s \in Ends /\ p \in Ends /\ prevOf[p] \in Ends
      BY <1>5, <3>6 DEF Links, Ends
    <3>9. prevOf[p] = prevOf'[s] /\ nextOf' \in Links /\ prevOf' \in Links
      BY <1>5, <3>3, <3>4, <3>8 DEF Links
    <3>10. prevOf[p] = q[n - 1] /\ prevOf[p] \in BlockPages
      BY <3>2, <3>5, <3>6, <3>7, <3>9
    <3>11. /\ \A y \in Ends \ {s, prevOf[p]} : nextOf'[y] = nextOf[y] /\ prevOf'[y] = prevOf[y]
           /\ cellOf' \in [BlockPages -> [1 .. BlockSize -> StackItems \cup {NoItem}]]
           /\ \A y \in BlockPages \ {p} : cellOf'[y] = cellOf[y]
      BY <1>5, <3>1, <3>3, <3>4, <3>8, GivenIs DEF Links
    <3>12. ASSUME NEW v \in StackNames \ {s}
           PROVE  /\ Agree(nextOf', nextOf, v, L[v]) /\ Agree(prevOf', prevOf, v, L[v])
                  /\ \A k \in 1 .. Len(L[v]) : cellOf'[L[v][k]] = cellOf[L[v][k]]
      <4>1. p # v /\ NotOn(p, L[v])
        BY <1>3, <3>4, <3>6, PageElsewhere
      <4>2. prevOf[p] # v /\ NotOn(prevOf[p], L[v])
        BY <1>3, <3>5, <3>10, PageElsewhere
      <4>3. v # s /\ v \in Ends /\ \A k \in 1 .. Len(L[v]) : L[v][k] \in BlockPages
        <5>1. OnRing(nextOf, prevOf, v, L[v])
          BY DEF Right
        <5> QED
          BY <5>1, RingIs DEF Ends
      <4>4. \A k \in 1 .. Len(L[v]) : L[v][k] # s /\ L[v][k] \in Ends
        BY <4>3, StacksAssumption DEF Ends
      <4>5. v \in Ends \ {s, prevOf[p]}
            /\ \A k \in 1 .. Len(L[v]) : L[v][k] \in Ends \ {s, prevOf[p]}
                                         /\ L[v][k] \in BlockPages \ {p}
        BY <4>1, <4>2, <4>3, <4>4 DEF NotOn
      <4> QED
        BY <3>11, <4>5 DEF Agree
    <3>13. ASSUME NEW v \in StackNames \ {s}
           PROVE  Apart(r, L[v]) /\ Apart(L[v], r)
      <4>1. \A k \in 1 .. Len(r) : k \in 1 .. Len(q) /\ r[k] = q[k]
        BY <1>3, <3>2
      <4>2. Apart(r, L[v])
        BY <1>4, <4>1 DEF Apart
      <4> QED
        BY <4>2 DEF Apart, NotOn
    <3>14. \A k \in 1 .. n - 1 : r[k] = q[k] /\ cellOf'[r[k]] = cellOf[r[k]]
      <4> TAKE k \in 1 .. n - 1
      <4>1. k \in 1 .. Len(q) /\ n \in 1 .. Len(q) /\ k # n /\ r[k] = q[k]
        BY <1>3, <3>2
      <4>2. q[k] # p /\ q[k] \in BlockPages
        BY <1>1, <3>4, <4>1 DEF OnRing, OneToOne
      <4> QED
        BY <3>11, <4>1, <4>2
    <3>15. base' \in [StackNames -> Ends] /\ base'[s] = r[n - 1]
      BY <1>5, <2>1, <3>6, <3>7 DEF Ends
    <3>16. Contracts(L, s, r, n - 1, BlockSize)
      BY <2>1, <2>2, <2>3, <3>2, <3>4, <3>9, <3>11, <3>12, <3>13, <3>14, <3>15 DEF Contracts
    <3> QED
      BY <3>16
  <2> QED
    BY <2>4, <2>5
<1> QED
  BY <1>6, <1>7

(* A pop *)
LEMMA PopHolds ==
  ASSUME FastInv, NEW s \in StackNames, StackPop(s)
  PROVE  FastInv'
<1>1. PICK L : Right(L) /\ Marked(L)
  BY DEF FastInv
<1>2. FastTypes
  BY DEF FastInv
<1>3. PICK r, m, u : Contracts(L, s, r, m, u)
  BY <1>1, <1>2, PopContracts
<1> DEFINE q == L[s]
           n == blockCount[s]
           t == top[s]
           P == pushed[s]
<1>4. OnRing(nextOf, prevOf, s, q) /\ Fits(q, n, base[s], t, cellOf, P)
  BY <1>1 DEF Right
<1>5. pushed' = [pushed EXCEPT ![s] = Front(P)] /\ marks' = marks /\ Len(P) > Depth(s)
  BY DEF StackPop
<1>6. /\ blockCount \in [StackNames -> Nat] /\ top \in [StackNames -> 1 .. BlockSize]
      /\ pushed \in [StackNames -> Seq(StackItems)]
  BY <1>2 DEF FastTypes
<1>7. /\ r \in Seq(BlockPages) /\ m \in Nat /\ u \in 1 .. BlockSize /\ Follows(m, u, n, t)
      /\ Len(r) = m \/ (m = 0 /\ Len(r) = 1)
      /\ m # 0 => base'[s] = r[m]
      /\ \A k \in 1 .. m : r[k] = q[k]
      /\ \A k \in 1 .. m : cellOf'[r[k]] = cellOf[r[k]]
  BY <1>3 DEF Contracts
<1>8. /\ blockCount' = [blockCount EXCEPT ![s] = m] /\ top' = [top EXCEPT ![s] = u]
      /\ blockCount'[s] = m /\ top'[s] = u /\ pushed'[s] = Front(P)
  BY <1>3, <1>5, <1>6 DEF Contracts
<1>9. /\ Depth(s) \in Nat
      /\ \A k \in 1 .. Len(marks) : marks[k].stack = s => marks[k].depth <= Depth(s)
  BY <1>1, DepthIs
<1>10. /\ P # <<>> /\ Front(P) \in Seq(StackItems) /\ Len(Front(P)) = Len(P) - 1
       /\ Len(P) \in Nat \ {0}
  <2>1. P \in Seq(StackItems) /\ P # <<>>
    BY <1>5, <1>6, <1>9
  <2> QED
    BY <2>1, FrontIs
<1>11. FastTypes'
  <2>1. blockCount' \in [StackNames -> Nat] /\ top' \in [StackNames -> 1 .. BlockSize]
    BY <1>6, <1>7, <1>8
  <2>2. pushed' \in [StackNames -> Seq(StackItems)]
    BY <1>5, <1>6, <1>10
  <2> QED
    BY <1>3, <2>1, <2>2 DEF Contracts, FastTypes, Links, Ends, NoItem
<1>12. Becomes(L, s, r)
  <2>1. Fits(r, m, base'[s], u, cellOf', Front(P))
    <3>1. Emptied(q, n, t, cellOf, r, m, u, cellOf', base'[s])
      BY <1>7 DEF Emptied
    <3> QED
      BY ONLY <1>4, <3>1, FitsPop
  <2>2. OnRing(nextOf', prevOf', s, r) /\ \A v \in StackNames \ {s} : Apart(r, L[v]) /\ Apart(L[v], r)
    BY <1>3 DEF Contracts
  <2> QED
    BY <1>7, <1>8, <2>1, <2>2 DEF Becomes
<1>13. Others(L, s)
  BY <1>3, <1>5, <1>6, <1>8 DEF Contracts, Others
<1>14. Keeps(L, s, r)
  <2>1. ASSUME NEW k \in 1 .. Len(marks), marks[k].stack = s
        PROVE  marks[k].depth <= Len(pushed'[s])
    <3>1. marks[k].depth <= Depth(s) /\ marks[k].depth \in Nat
      BY <1>1, <1>9, <2>1, MarkIs
    <3> QED
      BY <1>5, <1>8, <1>9, <1>10, <3>1
  <2>2. \A k \in 1 .. Len(q) : k <= blockCount'[s] => r[k] = q[k]
    BY <1>7, <1>8
  <2> QED
    BY <1>5, <2>1, <2>2 DEF Keeps
<1> QED
  BY <1>1, <1>11, <1>12, <1>13, <1>14, StackChanges

(* What an erase or a destroy leaves: no items, at most one page r. *)
Clears(L, s, r) ==
  /\ r \in Seq(BlockPages) /\ Len(r) \in 0 .. 1 /\ OnRing(nextOf', prevOf', s, r)
  /\ \A k \in 1 .. Len(r) : \E j \in 1 .. Len(L[s]) : r[k] = L[s][j]
  /\ nextOf' \in Links /\ prevOf' \in Links
  /\ cellOf' \in [BlockPages -> [1 .. BlockSize -> StackItems \cup {NoItem}]]
  /\ \A y \in Ends : y # s /\ NotOn(y, L[s]) => nextOf'[y] = nextOf[y] /\ prevOf'[y] = prevOf[y]
  /\ \A y \in BlockPages : NotOn(y, L[s]) => cellOf'[y] = cellOf[y]
  /\ \E e \in Ends : base' = [base EXCEPT ![s] = e]
  /\ blockCount' = [blockCount EXCEPT ![s] = 0]
  /\ top' = [top EXCEPT ![s] = BlockSize]
  /\ pushed' = [pushed EXCEPT ![s] = <<>>]
  /\ marks = <<>> /\ marks' = marks

(* That keeps the invariant. *)
LEMMA ClearHolds ==
  ASSUME FastTypes, NEW L, Right(L), Marked(L), NEW s \in StackNames, NEW r, Clears(L, s, r)
  PROVE  FastInv'
<1> DEFINE q == L[s]
<1>1. /\ blockCount \in [StackNames -> Nat] /\ top \in [StackNames -> 1 .. BlockSize]
      /\ base \in [StackNames -> Ends] /\ pushed \in [StackNames -> Seq(StackItems)]
      /\ BlockSize \in 1 .. BlockSize
  BY StacksAssumption DEF FastTypes
<1>2. PICK e \in Ends : base' = [base EXCEPT ![s] = e]
  BY DEF Clears
<1>3. /\ blockCount' = [blockCount EXCEPT ![s] = 0] /\ top' = [top EXCEPT ![s] = BlockSize]
      /\ pushed' = [pushed EXCEPT ![s] = <<>>]
      /\ r \in Seq(BlockPages) /\ Len(r) \in 0 .. 1 /\ OnRing(nextOf', prevOf', s, r)
      /\ marks = <<>> /\ marks' = marks
  BY DEF Clears
<1>4. FastTypes'
  <2>1. /\ blockCount' \in [StackNames -> Nat] /\ top' \in [StackNames -> 1 .. BlockSize]
        /\ base' \in [StackNames -> Ends]
    BY <1>1, <1>2, <1>3
  <2>2. <<>> \in Seq(StackItems)
    OBVIOUS
  <2>3. pushed' \in [StackNames -> Seq(StackItems)]
    BY <1>1, <1>3, <2>2
  <2> QED
    BY <2>1, <2>3 DEF FastTypes, Clears, Links, Ends, NoItem
<1>5. ASSUME NEW v \in StackNames \ {s}
      PROVE  /\ Apart(r, L[v]) /\ Apart(L[v], r)
             /\ v \in Ends /\ v # s /\ NotOn(v, q)
             /\ \A k \in 1 .. Len(L[v]) : /\ L[v][k] \in Ends /\ L[v][k] \in BlockPages
                                          /\ L[v][k] # s /\ NotOn(L[v][k], q)
  <2>1. Apart(q, L[v]) /\ Apart(L[v], q) /\ q \in Seq(BlockPages) /\ L[v] \in Seq(BlockPages)
    BY DEF Right
  <2>2. \A k \in 1 .. Len(r) : \E j \in 1 .. Len(q) : r[k] = q[j]
    BY DEF Clears
  <2>3. Apart(r, L[v])
    BY <2>1, <2>2 DEF Apart
  <2>4. Apart(L[v], r)
    BY <2>3 DEF Apart, NotOn
  <2>5. \A k \in 1 .. Len(q) : q[k] \in BlockPages
    BY <2>1
  <2>6. NotOn(v, q)
    BY <2>5, StacksAssumption DEF NotOn
  <2>7. \A k \in 1 .. Len(L[v]) : L[v][k] \in BlockPages
    BY <2>1
  <2>8. \A k \in 1 .. Len(L[v]) : L[v][k] \in Ends /\ L[v][k] # s
    BY <2>7, StacksAssumption DEF Ends
  <2> QED
    BY <2>1, <2>3, <2>4, <2>6, <2>7, <2>8 DEF Apart, Ends
<1>6. Becomes(L, s, r)
  <2>1. /\ blockCount'[s] = 0 /\ top'[s] = BlockSize /\ pushed'[s] = <<>>
    BY <1>1, <1>3
  <2>2. Fits(r, 0, base'[s], BlockSize, cellOf', <<>>)
    BY <1>3, FitsNone
  <2> QED
    BY <1>3, <1>5, <2>1, <2>2 DEF Becomes
<1>7. Others(L, s)
  <2>1. ASSUME NEW v \in StackNames \ {s}
        PROVE  /\ blockCount'[v] = blockCount[v] /\ base'[v] = base[v] /\ top'[v] = top[v]
               /\ pushed'[v] = pushed[v]
    BY <1>1, <1>2, <1>3
  <2>2. ASSUME NEW v \in StackNames \ {s}
        PROVE  /\ Agree(nextOf', nextOf, v, L[v]) /\ Agree(prevOf', prevOf, v, L[v])
               /\ \A k \in 1 .. Len(L[v]) : cellOf'[L[v][k]] = cellOf[L[v][k]]
    BY <1>5 DEF Clears, Agree
  <2> QED
    BY <2>1, <2>2 DEF Others
<1>8. Keeps(L, s, r)
  <2>1. blockCount'[s] = 0 /\ q \in Seq(BlockPages)
    BY <1>1, <1>3 DEF Right
  <2>2. \A k \in 1 .. Len(q) : ~ (k <= 0)
    BY <2>1
  <2>3. 1 .. Len(marks) = {}
    BY <1>3
  <2> QED
    BY <1>3, <2>1, <2>2, <2>3 DEF Keeps
<1> QED
  BY <1>4, <1>6, <1>7, <1>8, StackChanges

(* An erase *)
LEMMA EraseHolds ==
  ASSUME FastInv, NEW s \in StackNames, StackErase(s)
  PROVE  FastInv'
<1>1. PICK L : Right(L) /\ Marked(L)
  BY DEF FastInv
<1>2. FastTypes
  BY DEF FastInv
<1> DEFINE q == L[s]
           p == q[1]
           r == <<p>>
<1>3. /\ OnRing(nextOf, prevOf, s, q) /\ q \in Seq(BlockPages) /\ Blocks(s) = q
      /\ Fits(q, blockCount[s], base[s], top[s], cellOf, pushed[s])
  BY <1>1, BlocksAre DEF Right
<1>4. q # <<>> /\ Len(q) \in Nat \ {0} /\ 1 \in 1 .. Len(q) /\ p \in BlockPages
  <2>1. blockCount[s] # 0
    BY <1>3, FitsSize DEF StackErase
  <2>2. blockCount[s] \in Nat /\ Len(q) = blockCount[s]
    BY <1>3, <2>1 DEF Fits
  <2>3. Len(q) \in Nat \ {0} /\ q # <<>>
    BY <1>3, <2>1, <2>2
  <2> QED
    BY <1>3, <2>3
<1>5. /\ nextOf' = [nextOf EXCEPT ![p] = s] /\ prevOf' = [prevOf EXCEPT ![s] = p]
      /\ Given(ToSet(q) \ {p}) /\ base' = [base EXCEPT ![s] = p]
  BY <1>3 DEF StackErase
<1>6. /\ blockCount' = [blockCount EXCEPT ![s] = 0] /\ top' = [top EXCEPT ![s] = BlockSize]
      /\ pushed' = [pushed EXCEPT ![s] = <<>>] /\ marks = <<>> /\ marks' = marks
  BY DEF StackErase
<1>7. nextOf \in Links /\ prevOf \in Links
  BY <1>2 DEF FastTypes
<1>8. OnRing(nextOf', prevOf', s, r)
  <2> HIDE DEF q
  <2>1. OnRing([nextOf EXCEPT ![q[1]] = s], [prevOf EXCEPT ![s] = q[1]], s, <<q[1]>>)
    BY ONLY <1>3, <1>4, <1>7, s \in StackNames, ChainFirst
  <2> QED
    BY <1>5, <2>1
<1>9. r \in Seq(BlockPages) /\ Len(r) = 1 /\ r[1] = p
  BY <1>4
<1> HIDE DEF r
<1>10. /\ cellOf' \in [BlockPages -> [1 .. BlockSize -> StackItems \cup {NoItem}]]
       /\ \A y \in BlockPages : NotOn(y, q) => cellOf'[y] = cellOf[y]
  <2>1. /\ cellOf' \in [BlockPages -> [1 .. BlockSize -> StackItems \cup {NoItem}]]
        /\ \A y \in BlockPages \ (ToSet(q) \ {p}) : cellOf'[y] = cellOf[y]
    BY <1>2, <1>5, GivenIs
  <2>2. \A y \in BlockPages : NotOn(y, q) => y \notin ToSet(q)
    BY DEF NotOn, ToSet
  <2> QED
    BY <2>1, <2>2
<1>11. p \in Ends /\ s \in Ends
  BY <1>4 DEF Ends
<1>12. \A y \in Ends : y # s /\ NotOn(y, q) => nextOf'[y] = nextOf[y] /\ prevOf'[y] = prevOf[y]
  <2>1. \A y : NotOn(y, q) => y # p
    BY <1>4 DEF NotOn
  <2> HIDE DEF p, q
  <2> QED
    BY <1>5, <1>7, <2>1 DEF Links
<1>13. nextOf' \in Links /\ prevOf' \in Links
  BY <1>5, <1>7, <1>11 DEF Links
<1>14. /\ \A k \in 1 .. Len(r) : \E j \in 1 .. Len(q) : r[k] = q[j]
       /\ Len(r) \in 0 .. 1
  <2>1. \A k \in 1 .. Len(r) : r[k] = q[1]
    BY <1>9
  <2> QED
    BY <1>4, <1>9, <2>1
<1>15. Clears(L, s, r)
  BY <1>5, <1>6, <1>8, <1>9, <1>10, <1>11, <1>12, <1>13, <1>14 DEF Clears
<1> QED
  BY <1>1, <1>2, <1>15, ClearHolds

(* A destroy *)
LEMMA DestroyHolds ==
  ASSUME FastInv, NEW s \in StackNames, StackDestroy(s)
  PROVE  FastInv'
<1>1. PICK L : Right(L) /\ Marked(L)
  BY DEF FastInv
<1>2. FastTypes
  BY DEF FastInv
<1> DEFINE q == L[s]
<1>3. Blocks(s) = q
  BY <1>1, BlocksAre
<1>4. /\ nextOf' = [nextOf EXCEPT ![s] = s] /\ prevOf' = [prevOf EXCEPT ![s] = s]
      /\ Given(ToSet(q)) /\ base' = [base EXCEPT ![s] = s]
  BY <1>3 DEF StackDestroy
<1>5. /\ blockCount' = [blockCount EXCEPT ![s] = 0] /\ top' = [top EXCEPT ![s] = BlockSize]
      /\ pushed' = [pushed EXCEPT ![s] = <<>>] /\ marks = <<>> /\ marks' = marks
  BY DEF StackDestroy
<1>6. nextOf \in Links /\ prevOf \in Links /\ s \in Ends /\ s \notin BlockPages
  BY <1>2, StacksAssumption DEF FastTypes, Ends
<1>7. nextOf' \in Links /\ prevOf' \in Links /\ nextOf'[s] = s /\ prevOf'[s] = s
  BY <1>4, <1>6 DEF Links
<1>8. OnRing(nextOf', prevOf', s, <<>>)
  BY <1>6, <1>7, ChainNone
<1>9. /\ cellOf' \in [BlockPages -> [1 .. BlockSize -> StackItems \cup {NoItem}]]
      /\ \A y \in BlockPages : NotOn(y, q) => cellOf'[y] = cellOf[y]
  <2>1. /\ cellOf' \in [BlockPages -> [1 .. BlockSize -> StackItems \cup {NoItem}]]
        /\ \A y \in BlockPages \ ToSet(q) : cellOf'[y] = cellOf[y]
    BY <1>2, <1>4, GivenIs
  <2>2. \A y \in BlockPages : NotOn(y, q) => y \notin ToSet(q)
    BY DEF NotOn, ToSet
  <2> QED
    BY <2>1, <2>2
<1>10. \A y \in Ends : y # s => nextOf'[y] = nextOf[y] /\ prevOf'[y] = prevOf[y]
  BY <1>4, <1>6 DEF Links
<1>11. <<>> \in Seq(BlockPages) /\ Len(<<>>) \in 0 .. 1 /\ 1 .. Len(<<>>) = {}
  OBVIOUS
<1>12. Clears(L, s, <<>>)
  BY <1>4, <1>5, <1>6, <1>7, <1>8, <1>9, <1>10, <1>11 DEF Clears
<1> QED
  BY <1>1, <1>2, <1>12, ClearHolds

(* A step that leaves the stacks as they are, whatever it remembers *)
Still == /\ nextOf' = nextOf /\ prevOf' = prevOf /\ cellOf' = cellOf /\ blockCount' = blockCount
         /\ base' = base /\ top' = top /\ pushed' = pushed

(* All stays right. *)
LEMMA StillRight ==
  ASSUME Still, FastTypes, NEW L, Right(L)
  PROVE  FastTypes' /\ Right(L)'
<1>1. FastTypes'
  BY DEF Still, FastTypes, Links, Ends, NoItem
<1>2. Right(L)'
  BY DEF Still, Right
<1> QED
  BY <1>1, <1>2

(* A nested transaction starts. *)
LEMMA MarkHolds ==
  ASSUME FastInv, NEW s \in StackNames, Mark(s)
  PROVE  FastInv'
<1>1. PICK L : Right(L) /\ Marked(L)
  BY DEF FastInv
<1>2. FastTypes
  BY DEF FastInv
<1> DEFINE m == [stack |-> s, place |-> TopPlace(s), depth |-> Len(pushed[s])]
           n == Len(marks)
<1>3. Still /\ marks' = Append(marks, m)
  BY DEF Mark, Still
<1>4. FastTypes' /\ Right(L)'
  BY <1>1, <1>2, <1>3, StillRight
<1>5. m \in Marks /\ Placed(L[s], m.depth, m.place) /\ Len(pushed[s]) \in Nat
  <2>1. /\ TopPlace(s) \in {<<>>} \cup (Ends \X (1 .. BlockSize)) /\ Len(pushed[s]) \in Nat
        /\ Placed(L[s], Len(pushed[s]), TopPlace(s))
    BY <1>1, <1>2, TopIs
  <2> QED
    BY <2>1 DEF Marks
<1>6. m.stack = s /\ m.depth = Len(pushed[s])
  OBVIOUS
<1>7. /\ n \in Nat /\ marks \in Seq(Marks)
      /\ \A k \in 1 .. n : marks[k] \in Marks /\ marks[k].stack = s /\ marks[k].depth \in Nat
                           /\ marks[k].depth <= Len(pushed[s])
                           /\ Placed(L[s], marks[k].depth, marks[k].place)
  <2>1. /\ n \in Nat /\ marks \in Seq(Marks) /\ DOMAIN marks = 1 .. n
        /\ \A k \in 1 .. n : marks[k] \in Marks /\ marks[k].depth \in Nat
    BY <1>1, MarkIs DEF Marked
  <2>2. \A k \in 1 .. n : marks[k].stack = s
    BY <2>1 DEF Mark
  <2> QED
    BY <1>1, <2>1, <2>2 DEF Marked
<1> HIDE DEF m
<1>8. /\ marks' \in Seq(Marks) /\ Len(marks') = n + 1 /\ marks'[n + 1] = m
      /\ \A k \in 1 .. n : marks'[k] = marks[k]
  BY <1>3, <1>5, <1>7
<1>9. ASSUME NEW k \in 1 .. n + 1
      PROVE  /\ marks'[k].stack = s /\ marks'[k].depth \in Nat
             /\ marks'[k].depth <= Len(pushed[s])
             /\ Placed(L[s], marks'[k].depth, marks'[k].place)
  <2>1. CASE k = n + 1
    BY <1>5, <1>6, <1>8, <2>1
  <2>2. CASE k # n + 1
    <3>1. k \in 1 .. n /\ marks'[k] = marks[k]
      BY <1>7, <1>8, <2>2
    <3> QED
      BY <1>7, <3>1
  <2> QED
    BY <2>1, <2>2
<1>10. ASSUME NEW j \in 1 .. n + 1, NEW k \in 1 .. n + 1, j <= k
       PROVE  marks'[j].depth <= marks'[k].depth
  <2>1. CASE k = n + 1
    BY <1>6, <1>8, <1>9, <2>1
  <2>2. CASE k # n + 1
    <3>1. j \in 1 .. n /\ k \in 1 .. n
      BY <1>7, <1>10, <2>2
    <3> QED
      BY <1>1, <1>8, <1>10, <3>1 DEF Marked
  <2> QED
    BY <2>1, <2>2
<1>11. Marked(L)'
  <2>1. Marks' = Marks /\ pushed' = pushed
    BY <1>3 DEF Marks, Ends, Still
  <2> QED
    BY <1>8, <1>9, <1>10, <2>1 DEF Marked
<1> QED
  BY <1>4, <1>11 DEF FastInv

(* A nested transaction ends. *)
LEMMA UnmarkHolds ==
  ASSUME FastInv, Unmark
  PROVE  FastInv'
<1>1. PICK L : Right(L) /\ Marked(L)
  BY DEF FastInv
<1>2. FastTypes
  BY DEF FastInv
<1>3. Still /\ marks' = Front(marks) /\ marks # <<>>
  BY DEF Unmark, Still
<1>4. FastTypes' /\ Right(L)'
  BY <1>1, <1>2, <1>3, StillRight
<1>5. marks \in Seq(Marks)
  BY <1>1 DEF Marked
<1>6. /\ marks' \in Seq(Marks) /\ Len(marks') = Len(marks) - 1 /\ Len(marks) \in Nat \ {0}
      /\ \A k \in 1 .. Len(marks) - 1 : marks'[k] = marks[k]
  BY <1>3, <1>5, FrontIs
<1>7. \A k \in 1 .. Len(marks') : k \in 1 .. Len(marks) /\ marks'[k] = marks[k]
  BY <1>6
<1>8. Marked(L)'
  <2>1. Marks' = Marks /\ pushed' = pushed
    BY <1>3 DEF Marks, Ends, Still
  <2> QED
    BY <1>1, <1>6, <1>7, <2>1 DEF Marked
<1> QED
  BY <1>4, <1>8 DEF FastInv

-----------------------------------------------------------------------------
(* Two lists change their heads: s is before a and after z, t before b and
   after y. *)
Heads(s, t, a, z, b, y) ==
  /\ {s, t, a, z, b, y} \subseteq Ends /\ s # t /\ z # y /\ z # t /\ y # s
  /\ (z = s => a = s) /\ (y = t => b = t)

Rejoins(F, f, s, t, a, z, b, y) ==
  F = [Exchanged(f, s, t) EXCEPT ![s] = a, ![z] = s, ![t] = b, ![y] = t]

(* Nothing else is linked anew. *)
LEMMA Rejoined ==
  ASSUME NEW f \in Links, NEW s, NEW t, NEW a, NEW z, NEW b, NEW y, Heads(s, t, a, z, b, y),
         NEW F, Rejoins(F, f, s, t, a, z, b, y)
  PROVE  /\ F \in Links /\ F[s] = a /\ F[z] = s /\ F[t] = b /\ F[y] = t
         /\ \A x \in Ends : x \notin {s, t, z, y} => F[x] = f[x]
<1> DEFINE e == Exchanged(f, s, t)
<1>0. /\ s \in Ends /\ t \in Ends /\ a \in Ends /\ z \in Ends /\ b \in Ends /\ y \in Ends
      /\ s # t /\ z # y /\ z # t /\ y # s /\ (z = s => a = s) /\ (y = t => b = t)
  BY DEF Heads
<1>1. e \in [Ends -> Ends] /\ \A x \in Ends : x \notin {s, t} => e[x] = f[x]
  BY <1>0 DEF Links, Exchanged
<1>2. F = [e EXCEPT ![s] = a, ![z] = s, ![t] = b, ![y] = t]
  BY DEF Rejoins
<1> HIDE DEF e
<1>3. F \in [Ends -> Ends]
  BY <1>0, <1>1, <1>2
<1>4. F[s] = a /\ F[z] = s /\ F[t] = b /\ F[y] = t
  BY <1>0, <1>1, <1>2
<1>5. \A x \in Ends : x \notin {s, t, z, y} => F[x] = f[x]
  BY <1>1, <1>2
<1> QED
  BY <1>3, <1>4, <1>5 DEF Links

(* The ends of a list *)
LEMMA EndsAre ==
  ASSUME NEW f, NEW g, NEW h, NEW q, OnRing(f, g, h, q)
  PROVE  /\ f[h] = h <=> q = <<>>
         /\ q # <<>> => /\ 1 \in 1 .. Len(q) /\ Len(q) \in 1 .. Len(q)
                        /\ f[h] = q[1] /\ g[h] = q[Len(q)]
         /\ q = <<>> => g[h] = h
         /\ Len(q) \in Nat /\ q \in Seq(BlockPages) /\ h \notin BlockPages
         /\ \A k \in 1 .. Len(q) : q[k] \in BlockPages
         /\ \A j, k \in 1 .. Len(q) : q[j] = q[k] => j = k
<1>1. /\ Len(q) \in Nat /\ Ring(h, q, 0) = h /\ Ring(h, q, Len(q) + 1) = h
      /\ \A k \in 1 .. Len(q) : Ring(h, q, k) = q[k] /\ q[k] \in BlockPages /\ q[k] # h
      /\ f[h] = Ring(h, q, 1) /\ g[h] = Ring(h, q, Len(q))
  BY RingIs
<1>2. q \in Seq(BlockPages) /\ h \notin BlockPages /\ OneToOne(q)
  BY DEF OnRing
<1>3. CASE q = <<>>
  <2>1. Len(q) = 0 /\ Len(q) + 1 = 1
    BY <1>3
  <2> QED
    BY <1>1, <1>2, <1>3, <2>1 DEF OneToOne
<1>4. CASE q # <<>>
  <2>1. 1 \in 1 .. Len(q) /\ Len(q) \in 1 .. Len(q)
    BY <1>1, <1>2, <1>4
  <2> QED
    BY <1>1, <1>2, <1>4, <2>1 DEF OneToOne
<1> QED
  BY <1>3, <1>4

(* fstack_swap gives s the list of t, and t that of s. *)
LEMMA SwapLinks ==
  ASSUME FastTypes, NEW L, Right(L), NEW s \in StackNames, NEW t \in StackNames, s # t,
         StackSwap(s, t)
  PROVE  /\ NewHead(nextOf', prevOf', nextOf, prevOf, t, L[t], s)
         /\ NewHead(nextOf', prevOf', nextOf, prevOf, s, L[s], t)
         /\ nextOf' \in Links /\ prevOf' \in Links
         /\ \A x \in Ends : x \notin {s, t} /\ NotOn(x, L[s]) /\ NotOn(x, L[t])
                            => nextOf'[x] = nextOf[x] /\ prevOf'[x] = prevOf[x]
<1> DEFINE p == L[s]
           q == L[t]
           f == Exchanged(nextOf, s, t)
           g == Exchanged(prevOf, s, t)
           a == IF f[s] # t THEN f[s] ELSE s
           z == IF f[s] # t THEN g[s] ELSE s
           b == IF f[t] # s THEN f[t] ELSE t
           y == IF f[t] # s THEN g[t] ELSE t
<1>1. nextOf \in Links /\ prevOf \in Links /\ s \in Ends /\ t \in Ends
  BY DEF FastTypes, Ends
<1>2. f[s] = nextOf[t] /\ f[t] = nextOf[s] /\ g[s] = prevOf[t] /\ g[t] = prevOf[s]
  BY <1>1 DEF Links, Exchanged
<1>3. /\ nextOf' = [f EXCEPT ![s] = a, ![z] = s, ![t] = b, ![y] = t]
      /\ prevOf' = [g EXCEPT ![s] = z, ![a] = s, ![t] = y, ![b] = t]
  BY DEF StackSwap, Relinked
<1>4. OnRing(nextOf, prevOf, s, p) /\ OnRing(nextOf, prevOf, t, q) /\ Apart(p, q)
  BY DEF Right
<1> HIDE DEF p, q, f, g
<1>5. /\ q = <<>> => a = s /\ z = s
      /\ q # <<>> => /\ a = q[1] /\ z = q[Len(q)] /\ 1 \in 1 .. Len(q) /\ Len(q) \in 1 .. Len(q)
                     /\ nextOf[t] = a /\ prevOf[t] = z
      /\ Len(q) \in Nat /\ \A k \in 1 .. Len(q) : q[k] \in BlockPages
      /\ \A j, k \in 1 .. Len(q) : q[j] = q[k] => j = k
  <2>1. q # <<>> => q[1] # t
    BY <1>4, EndsAre
  <2> QED
    BY <1>2, <1>4, <2>1, EndsAre
<1>6. /\ p = <<>> => b = t /\ y = t
      /\ p # <<>> => /\ b = p[1] /\ y = p[Len(p)] /\ 1 \in 1 .. Len(p) /\ Len(p) \in 1 .. Len(p)
                     /\ nextOf[s] = b /\ prevOf[s] = y
      /\ Len(p) \in Nat /\ \A k \in 1 .. Len(p) : p[k] \in BlockPages
      /\ \A j, k \in 1 .. Len(p) : p[j] = p[k] => j = k
  <2>1. p # <<>> => p[1] # s
    BY <1>4, EndsAre
  <2> QED
    BY <1>2, <1>4, <2>1, EndsAre
<1> HIDE DEF a, z, b, y
<1>7. /\ \A k \in 1 .. Len(q) : q[k] # s /\ q[k] # t /\ q[k] \in Ends
      /\ \A k \in 1 .. Len(p) : p[k] # s /\ p[k] # t /\ p[k] \in Ends
      /\ \A j \in 1 .. Len(p), k \in 1 .. Len(q) : p[j] # q[k]
  BY <1>4, <1>5, <1>6, StacksAssumption DEF Apart, NotOn, Ends
<1>8. /\ a \in Ends /\ z \in Ends /\ b \in Ends /\ y \in Ends
      /\ z # y /\ z # t /\ y # s /\ a # b /\ a # t /\ b # s
      /\ (z = s <=> a = s) /\ (y = t <=> b = t)
  BY <1>1, <1>5, <1>6, <1>7
<1>9. /\ nextOf' \in Links /\ nextOf'[s] = a /\ nextOf'[z] = s /\ nextOf'[t] = b
      /\ nextOf'[y] = t /\ \A x \in Ends : x \notin {s, t, z, y} => nextOf'[x] = nextOf[x]
  <2>1. Heads(s, t, a, z, b, y)
    BY <1>1, <1>8 DEF Heads
  <2>2. Rejoins(nextOf', nextOf, s, t, a, z, b, y)
    BY <1>3 DEF Rejoins, f
  <2> QED
    BY ONLY <1>1, <2>1, <2>2, Rejoined
<1>10. /\ prevOf' \in Links /\ prevOf'[s] = z /\ prevOf'[a] = s /\ prevOf'[t] = y
       /\ prevOf'[b] = t /\ \A x \in Ends : x \notin {s, t, a, b} => prevOf'[x] = prevOf[x]
  <2>1. Heads(s, t, z, a, y, b)
    BY <1>1, <1>8 DEF Heads
  <2>2. Rejoins(prevOf', prevOf, s, t, z, a, y, b)
    BY <1>3 DEF Rejoins, g
  <2> QED
    BY ONLY <1>1, <2>1, <2>2, Rejoined
<1>11. NewHead(nextOf', prevOf', nextOf, prevOf, t, q, s)
  <2>1. \A k \in 1 .. Len(q) - 1 : nextOf'[q[k]] = nextOf[q[k]]
    <3> TAKE k \in 1 .. Len(q) - 1
    <3>1. k \in 1 .. Len(q) /\ k # Len(q) /\ Len(q) \in 1 .. Len(q) /\ q # <<>>
      BY <1>5
    <3>2. q[k] # z /\ q[k] # y /\ q[k] # s /\ q[k] # t /\ q[k] \in Ends
      BY <1>5, <1>6, <1>7, <3>1
    <3> QED
      BY <1>9, <3>2
  <2>2. \A k \in 2 .. Len(q) : prevOf'[q[k]] = prevOf[q[k]]
    <3> TAKE k \in 2 .. Len(q)
    <3>1. k \in 1 .. Len(q) /\ k # 1 /\ 1 \in 1 .. Len(q) /\ q # <<>>
      BY <1>5
    <3>2. q[k] # a /\ q[k] # b /\ q[k] # s /\ q[k] # t /\ q[k] \in Ends
      BY <1>5, <1>6, <1>7, <3>1
    <3> QED
      BY <1>10, <3>2
  <2> QED
    BY <1>5, <1>9, <1>10, <2>1, <2>2 DEF NewHead
<1>12. NewHead(nextOf', prevOf', nextOf, prevOf, s, p, t)
  <2>1. \A k \in 1 .. Len(p) - 1 : nextOf'[p[k]] = nextOf[p[k]]
    <3> TAKE k \in 1 .. Len(p) - 1
    <3>1. k \in 1 .. Len(p) /\ k # Len(p) /\ Len(p) \in 1 .. Len(p) /\ p # <<>>
      BY <1>6
    <3>2. p[k] # z /\ p[k] # y /\ p[k] # s /\ p[k] # t /\ p[k] \in Ends
      BY <1>5, <1>6, <1>7, <3>1
    <3> QED
      BY <1>9, <3>2
  <2>2. \A k \in 2 .. Len(p) : prevOf'[p[k]] = prevOf[p[k]]
    <3> TAKE k \in 2 .. Len(p)
    <3>1. k \in 1 .. Len(p) /\ k # 1 /\ 1 \in 1 .. Len(p) /\ p # <<>>
      BY <1>6
    <3>2. p[k] # a /\ p[k] # b /\ p[k] # s /\ p[k] # t /\ p[k] \in Ends
      BY <1>5, <1>6, <1>7, <3>1
    <3> QED
      BY <1>10, <3>2
  <2> QED
    BY <1>6, <1>9, <1>10, <2>1, <2>2 DEF NewHead
<1>13. \A x \in Ends : x \notin {s, t} /\ NotOn(x, p) /\ NotOn(x, q)
                       => nextOf'[x] = nextOf[x] /\ prevOf'[x] = prevOf[x]
  <2> TAKE x \in Ends
  <2> HAVE x \notin {s, t} /\ NotOn(x, p) /\ NotOn(x, q)
  <2>1. x \notin {a, z, b, y}
    BY <1>5, <1>6 DEF NotOn
  <2> QED
    BY <1>9, <1>10, <2>1
<1> QED
  BY <1>9, <1>10, <1>11, <1>12, <1>13 DEF p, q

(* A swap *)
LEMMA SwapHolds ==
  ASSUME FastInv, NEW s \in StackNames, NEW t \in StackNames, s # t, StackSwap(s, t)
  PROVE  FastInv'
<1>1. PICK L : Right(L) /\ Marked(L)
  BY DEF FastInv
<1>2. FastTypes
  BY DEF FastInv
<1> DEFINE M == Exchanged(L, s, t)
<1>3. /\ blockCount' = Exchanged(blockCount, s, t) /\ base' = Exchanged(base, s, t)
      /\ top' = Exchanged(top, s, t) /\ pushed' = Exchanged(pushed, s, t)
      /\ cellOf' = cellOf /\ marks = <<>> /\ marks' = marks
  BY DEF StackSwap
<1>4. /\ L \in [StackNames -> Seq(BlockPages)] /\ blockCount \in [StackNames -> Nat]
      /\ base \in [StackNames -> Ends] /\ top \in [StackNames -> 1 .. BlockSize]
      /\ pushed \in [StackNames -> Seq(StackItems)]
  BY <1>1, <1>2 DEF Right, FastTypes
<1>5. /\ NewHead(nextOf', prevOf', nextOf, prevOf, t, L[t], s)
      /\ NewHead(nextOf', prevOf', nextOf, prevOf, s, L[s], t)
      /\ nextOf' \in Links /\ prevOf' \in Links
      /\ \A x \in Ends : x \notin {s, t} /\ NotOn(x, L[s]) /\ NotOn(x, L[t])
                         => nextOf'[x] = nextOf[x] /\ prevOf'[x] = prevOf[x]
  BY <1>1, <1>2, SwapLinks
<1>6. /\ M \in [StackNames -> Seq(BlockPages)] /\ M[s] = L[t] /\ M[t] = L[s]
      /\ \A v \in StackNames : v \notin {s, t} => M[v] = L[v]
  BY <1>4 DEF Exchanged
<1>7. /\ blockCount'[s] = blockCount[t] /\ base'[s] = base[t] /\ top'[s] = top[t]
      /\ blockCount'[t] = blockCount[s] /\ base'[t] = base[s] /\ top'[t] = top[s]
      /\ pushed'[s] = pushed[t] /\ pushed'[t] = pushed[s]
  BY <1>3, <1>4 DEF Exchanged
<1>8. \A v \in StackNames : v \notin {s, t} =>
        /\ blockCount'[v] = blockCount[v] /\ base'[v] = base[v] /\ top'[v] = top[v]
        /\ pushed'[v] = pushed[v]
  BY <1>3, <1>4 DEF Exchanged
<1> HIDE DEF M
<1>9. FastTypes'
  <2>1. /\ blockCount' \in [StackNames -> Nat] /\ base' \in [StackNames -> Ends]
        /\ top' \in [StackNames -> 1 .. BlockSize]
        /\ pushed' \in [StackNames -> Seq(StackItems)]
    BY <1>3, <1>4 DEF Exchanged
  <2> QED
    BY <1>2, <1>3, <1>5, <2>1 DEF FastTypes, Links, Ends, NoItem
<1>10. ASSUME NEW v \in StackNames
       PROVE  /\ OnRing(nextOf', prevOf', v, M[v])
              /\ Fits(M[v], blockCount'[v], base'[v], top'[v], cellOf', pushed'[v])
  <2>1. s \notin BlockPages /\ t \notin BlockPages
    BY StacksAssumption
  <2>2. \A u \in StackNames :
          /\ OnRing(nextOf, prevOf, u, L[u])
          /\ Fits(L[u], blockCount[u], base[u], top[u], cellOf, pushed[u])
    BY <1>1 DEF Right
  <2>3. CASE v = s
    <3>1. OnRing(nextOf', prevOf', s, L[t])
      BY <1>5, <2>1, <2>2, ChainMoved
    <3> QED
      BY <1>3, <1>6, <1>7, <2>2, <2>3, <3>1
  <2>4. CASE v = t
    <3>1. OnRing(nextOf', prevOf', t, L[s])
      BY <1>5, <2>1, <2>2, ChainMoved
    <3> QED
      BY <1>3, <1>6, <1>7, <2>2, <2>4, <3>1
  <2>5. CASE v \notin {s, t}
    <3>1. Apart(L[v], L[s]) /\ Apart(L[v], L[t]) /\ Apart(L[s], L[v]) /\ Apart(L[t], L[v])
      BY <1>1, <2>5 DEF Right
    <3>2. \A k \in 1 .. Len(L[v]) :
            /\ L[v][k] \in Ends /\ L[v][k] \notin {s, t}
            /\ NotOn(L[v][k], L[s]) /\ NotOn(L[v][k], L[t])
      <4>1. \A k \in 1 .. Len(L[v]) : L[v][k] \in BlockPages
        BY <2>2, RingIs
      <4> QED
        BY <2>1, <3>1, <4>1 DEF Apart, Ends
    <3>3. v \in Ends /\ NotOn(v, L[s]) /\ NotOn(v, L[t])
      <4>1. /\ \A k \in 1 .. Len(L[s]) : L[s][k] \in BlockPages
            /\ \A k \in 1 .. Len(L[t]) : L[t][k] \in BlockPages
        BY <2>2, RingIs
      <4> QED
        BY <4>1, StacksAssumption DEF NotOn, Ends
    <3>4. Agree(nextOf', nextOf, v, L[v]) /\ Agree(prevOf', prevOf, v, L[v])
      BY <1>5, <2>5, <3>2, <3>3 DEF Agree
    <3>5. OnRing(nextOf', prevOf', v, L[v])
      BY <2>2, <3>4, ChainKept
    <3> QED
      BY <1>3, <1>6, <1>8, <2>2, <2>5, <3>5
  <2> QED
    BY <2>3, <2>4, <2>5
<1>11. \A u, v \in StackNames : u # v => Apart(M[u], M[v])
  <2> DEFINE o(u) == IF u = s THEN t ELSE IF u = t THEN s ELSE u
  <2>1. \A u \in StackNames : M[u] = L[o(u)] /\ o(u) \in StackNames
    BY <1>6
  <2>2. \A u, v \in StackNames : u # v => o(u) # o(v)
    OBVIOUS
  <2> HIDE DEF o
  <2> QED
    BY <1>1, <2>1, <2>2 DEF Right
<1>12. Right(M)'
  BY <1>6, <1>10, <1>11 DEF Right
<1>13. Marked(M)'
  <2>1. marks' = <<>> /\ 1 .. Len(marks') = {}
    BY <1>3
  <2> QED
    BY <2>1 DEF Marked
<1> QED
  BY <1>9, <1>12, <1>13 DEF FastInv

(* No items at first *)
LEMMA FastStarts == StacksInit => FastInv
<1> SUFFICES ASSUME StacksInit PROVE FastInv
  OBVIOUS
<1> DEFINE L == [s \in StackNames |-> <<>>]
           junk == [i \in 1 .. BlockSize |-> NoItem]
<1>1. /\ nextOf = [n \in Ends |-> n] /\ prevOf = nextOf
      /\ cellOf = [p \in BlockPages |-> junk]
      /\ blockCount = [s \in StackNames |-> 0] /\ base = [s \in StackNames |-> s]
      /\ top = [s \in StackNames |-> BlockSize] /\ marks = <<>>
      /\ pushed = [s \in StackNames |-> <<>>]
  BY DEF StacksInit, Ends
<1>2. junk \in [1 .. BlockSize -> StackItems \cup {NoItem}] /\ BlockSize \in 1 .. BlockSize
  BY StacksAssumption
<1> HIDE DEF junk
<1>3. /\ nextOf \in Links /\ prevOf \in Links
      /\ blockCount \in [StackNames -> Nat] /\ base \in [StackNames -> Ends]
      /\ top \in [StackNames -> 1 .. BlockSize]
  BY <1>1, <1>2 DEF Links, Ends
<1>4. cellOf \in [BlockPages -> [1 .. BlockSize -> StackItems \cup {NoItem}]]
  BY <1>1, <1>2
<1>5. <<>> \in Seq(BlockPages) /\ <<>> \in Seq(StackItems) /\ Len(<<>>) = 0 /\ 1 .. 0 = {}
  OBVIOUS
<1>6. FastTypes
  BY <1>1, <1>3, <1>4, <1>5 DEF FastTypes
<1>7. L \in [StackNames -> Seq(BlockPages)] /\ \A s \in StackNames : L[s] = <<>>
  BY <1>5
<1> HIDE DEF L
<1>8. ASSUME NEW s \in StackNames
      PROVE  /\ OnRing(nextOf, prevOf, s, L[s])
             /\ Fits(L[s], blockCount[s], base[s], top[s], cellOf, pushed[s])
  <2>1. nextOf[s] = s /\ prevOf[s] = s /\ s \notin BlockPages
    BY <1>1, StacksAssumption DEF Ends
  <2>2. OnRing(nextOf, prevOf, s, <<>>)
    BY <2>1, ChainNone
  <2>3. blockCount[s] = 0 /\ top[s] = BlockSize /\ pushed[s] = <<>>
    BY <1>1
  <2>4. Len(<<>>) \in 0 .. 1
    OBVIOUS
  <2>5. Fits(<<>>, 0, base[s], BlockSize, cellOf, <<>>)
    BY <1>5, <2>4, FitsNone
  <2> QED
    BY <1>7, <2>2, <2>3, <2>5
<1>9. \A s, t \in StackNames : s # t => Apart(L[s], L[t])
  BY <1>5, <1>7 DEF Apart
<1>10. Right(L)
  BY <1>7, <1>8, <1>9 DEF Right
<1>11. Marked(L)
  <2>1. marks = <<>> /\ 1 .. Len(marks) = {}
    BY <1>1
  <2> QED
    BY <2>1 DEF Marked
<1> QED
  BY <1>6, <1>10, <1>11 DEF FastInv

-----------------------------------------------------------------------------
(* The Stack of utils/stack.h *)

(* Up to the pointer the array holds the items. *)
ArrayInv ==
  /\ array \in Seq(StackItems \cup {NoItem}) /\ arrayTop \in 0 .. Len(array)
  /\ arrayItems \in Seq(StackItems) /\ Len(arrayItems) = arrayTop
  /\ \A i \in 1 .. arrayTop : array[i] = arrayItems[i]

(* A reallocation keeps the items if it leaves room for them. *)
LEMMA ReallocIs ==
  ASSUME ArrayInv, NEW n \in Nat, arrayTop <= n
  PROVE  /\ Realloc(n) \in Seq(StackItems \cup {NoItem}) /\ Len(Realloc(n)) = n
         /\ \A i \in 1 .. arrayTop : Realloc(n)[i] = arrayItems[i]
<1>1. /\ Len(array) \in Nat /\ arrayTop \in Nat /\ arrayTop <= Len(array)
      /\ \A i \in 1 .. Len(array) : array[i] \in StackItems \cup {NoItem}
      /\ \A i \in 1 .. arrayTop : array[i] = arrayItems[i]
  BY DEF ArrayInv
<1>2. Realloc(n) = [i \in 1 .. n |-> IF i <= Len(array) THEN array[i] ELSE NoItem]
  BY DEF Realloc
<1>3. Realloc(n) \in [1 .. n -> StackItems \cup {NoItem}]
  <2>1. \A i \in 1 .. n : i <= Len(array) => i \in 1 .. Len(array)
    BY <1>1
  <2> QED
    BY <1>1, <1>2, <2>1
<1>4. Realloc(n) \in Seq(StackItems \cup {NoItem})
  BY <1>3, IsASeq
<1>5. DOMAIN Realloc(n) = 1 .. n
  BY <1>3
<1>6. Len(Realloc(n)) = n
  <2> HIDE DEF Realloc
  <2> QED
    BY <1>4, <1>5, LenProperties
<1>7. \A i \in 1 .. arrayTop : i \in 1 .. n /\ i <= Len(array)
  BY <1>1
<1> QED
  BY <1>1, <1>2, <1>4, <1>6, <1>7

(* A push of an array that is full makes it longer first. *)
LEMMA ArrayPushHolds ==
  ASSUME ArrayInv, NEW x \in StackItems, ArrayPush(x)
  PROVE  ArrayInv'
<1> DEFINE room == IF arrayTop = Len(array) THEN Realloc(2 * Len(array) + MinSize) ELSE array
           n == arrayTop + 1
           S == StackItems \cup {NoItem}
<1>1. /\ array \in Seq(S) /\ Len(array) \in Nat /\ arrayTop \in Nat /\ arrayTop <= Len(array)
      /\ arrayItems \in Seq(StackItems) /\ Len(arrayItems) = arrayTop
      /\ \A i \in 1 .. arrayTop : array[i] = arrayItems[i]
      /\ MinSize \in Nat \ {0}
  BY StacksAssumption DEF ArrayInv
<1>2. array' = [room EXCEPT ![n] = x] /\ arrayTop' = n /\ arrayItems' = Append(arrayItems, x)
  BY DEF ArrayPush
<1>3. /\ room \in Seq(S) /\ Len(room) \in Nat /\ n <= Len(room)
      /\ \A i \in 1 .. arrayTop : room[i] = arrayItems[i]
  <2>1. CASE arrayTop = Len(array)
    <3> DEFINE m == 2 * Len(array) + MinSize
    <3>1. m \in Nat /\ arrayTop <= m /\ n <= m
      BY <1>1, <2>1
    <3> HIDE DEF m
    <3>2. /\ Realloc(m) \in Seq(S) /\ Len(Realloc(m)) = m
          /\ \A i \in 1 .. arrayTop : Realloc(m)[i] = arrayItems[i]
      BY <3>1, ReallocIs
    <3>3. room = Realloc(m)
      BY <2>1 DEF m
    <3> QED
      BY <3>1, <3>2, <3>3
  <2>2. CASE arrayTop # Len(array)
    BY <1>1, <2>2
  <2> QED
    BY <2>1, <2>2
<1> HIDE DEF room
<1>4. /\ array' \in Seq(S) /\ Len(array') = Len(room)
      /\ array'[n] = x /\ \A i \in 1 .. arrayTop : array'[i] = room[i]
  <2>1. n \in 1 .. Len(room) /\ x \in S
    BY <1>1, <1>3
  <2>2. \A i \in 1 .. arrayTop : i \in 1 .. Len(room) /\ i # n
    BY <1>1, <1>3
  <2> HIDE DEF n, S
  <2>3. array' \in Seq(S) /\ Len(array') = Len(room)
    BY <1>2, <1>3, <2>1, ExceptSeq
  <2>4. \A i \in 1 .. Len(room) : array'[i] = IF i = n THEN x ELSE room[i]
    BY <1>2, <1>3, <2>1
  <2> QED
    BY <2>1, <2>2, <2>3, <2>4
<1>5. /\ arrayItems' \in Seq(StackItems) /\ Len(arrayItems') = n /\ arrayItems'[n] = x
      /\ \A i \in 1 .. arrayTop : arrayItems'[i] = arrayItems[i]
  BY <1>1, <1>2
<1>6. \A i \in 1 .. n : i = n \/ i \in 1 .. arrayTop
  BY <1>1
<1>7. n \in 0 .. Len(array')
  BY <1>1, <1>3, <1>4
<1> HIDE DEF n
<1> QED
  BY <1>2, <1>3, <1>4, <1>5, <1>6, <1>7 DEF ArrayInv, NoItem

(* A pop of one that is long enough makes it shorter, but not below the pointer. *)
LEMMA ArrayPopHolds ==
  ASSUME ArrayInv, ArrayPop
  PROVE  ArrayInv'
<1> DEFINE S == StackItems \cup {NoItem}
<1>1. /\ array \in Seq(S) /\ Len(array) \in Nat /\ arrayTop \in Nat /\ arrayTop <= Len(array)
      /\ arrayItems \in Seq(StackItems) /\ Len(arrayItems) = arrayTop
      /\ \A i \in 1 .. arrayTop : array[i] = arrayItems[i]
      /\ MinSize \in Nat \ {0}
  BY StacksAssumption DEF ArrayInv
<1>2. arrayTop > 0 /\ arrayTop' = arrayTop - 1 /\ arrayItems' = Front(arrayItems)
  BY DEF ArrayPop
<1>3. /\ array' \in Seq(S) /\ arrayTop - 1 \in 0 .. Len(array')
      /\ \A i \in 1 .. arrayTop : array'[i] = arrayItems[i]
  <2>1. CASE Len(array) > 2 * arrayTop /\ Len(array) > 2 * MinSize
    <3> DEFINE m == Shrunk(Len(array))
    <3>1. m \in Nat /\ arrayTop <= m
      BY <1>1, <2>1 DEF Shrunk
    <3>2. array' = Realloc(m)
      BY <2>1 DEF ArrayPop
    <3> HIDE DEF m
    <3>3. /\ Realloc(m) \in Seq(S) /\ Len(Realloc(m)) = m
          /\ \A i \in 1 .. arrayTop : Realloc(m)[i] = arrayItems[i]
      BY <3>1, ReallocIs
    <3> QED
      BY <1>1, <1>2, <3>1, <3>2, <3>3
  <2>2. CASE ~ (Len(array) > 2 * arrayTop /\ Len(array) > 2 * MinSize)
    <3>1. array' = array
      BY <2>2 DEF ArrayPop
    <3> QED
      BY <1>1, <1>2, <3>1
  <2> QED
    BY <2>1, <2>2
<1>4. /\ arrayItems' \in Seq(StackItems) /\ Len(arrayItems') = arrayTop - 1
      /\ \A i \in 1 .. arrayTop - 1 : arrayItems'[i] = arrayItems[i] /\ i \in 1 .. arrayTop
  <2>1. arrayItems # <<>> /\ arrayItems \in Seq(StackItems)
    BY <1>1, <1>2
  <2>2. /\ Front(arrayItems) \in Seq(StackItems) /\ Len(Front(arrayItems)) = Len(arrayItems) - 1
        /\ \A i \in 1 .. Len(arrayItems) - 1 : Front(arrayItems)[i] = arrayItems[i]
    BY ONLY <2>1, FrontIs
  <2> QED
    BY <1>1, <1>2, <2>2
<1> QED
  BY <1>2, <1>3, <1>4 DEF ArrayInv, NoItem

(* An erase keeps the array. *)
LEMMA ArrayEraseHolds ==
  ASSUME ArrayInv, ArrayErase
  PROVE  ArrayInv'
<1>1. /\ array \in Seq(StackItems \cup {NoItem}) /\ Len(array) \in Nat
  BY DEF ArrayInv
<1>2. array' = array /\ arrayTop' = 0 /\ arrayItems' = <<>>
  BY DEF ArrayErase
<1>3. <<>> \in Seq(StackItems) /\ Len(<<>>) = 0 /\ 1 .. 0 = {} /\ 0 \in 0 .. Len(array)
  BY <1>1
<1> QED
  BY <1>1, <1>2, <1>3 DEF ArrayInv, NoItem

(* What ArrayInv is for *)
LEMMA ArrayHolds == ArrayInv => SubSeq(array, 1, arrayTop) = arrayItems
<1> SUFFICES ASSUME ArrayInv PROVE SubSeq(array, 1, arrayTop) = arrayItems
  OBVIOUS
<1> DEFINE S == StackItems \cup {NoItem}
<1>1. /\ array \in Seq(S) /\ arrayTop \in 0 .. Len(array) /\ Len(array) \in Nat
      /\ arrayItems \in Seq(StackItems) /\ Len(arrayItems) = arrayTop
      /\ \A i \in 1 .. arrayTop : array[i] = arrayItems[i]
  BY DEF ArrayInv
<1> HIDE DEF S
<1>2. SubSeq(array, 1, arrayTop) = Restrict(array, 1 .. arrayTop)
  BY <1>1, SubSeqRestrict
<1>3. Restrict(array, 1 .. arrayTop) = [i \in 1 .. arrayTop |-> array[i]]
  BY DEF Restrict
<1>4. arrayItems = [i \in 1 .. arrayTop |-> arrayItems[i]]
  BY <1>1
<1> QED
  BY <1>1, <1>2, <1>3, <1>4

-----------------------------------------------------------------------------
(* All steps *)

StacksInv == FastInv /\ ArrayInv

(* No items at first *)
LEMMA StacksStart == StacksInit => StacksInv
<1> SUFFICES ASSUME StacksInit PROVE ArrayInv
  BY FastStarts DEF StacksInv
<1>1. array = <<>> /\ arrayTop = 0 /\ arrayItems = <<>>
  BY DEF StacksInit
<1>2. /\ <<>> \in Seq(StackItems) /\ <<>> \in Seq(StackItems \cup {NoItem}) /\ Len(<<>>) = 0
      /\ 1 .. 0 = {} /\ 0 \in 0 .. 0
  OBVIOUS
<1> QED
  BY <1>1, <1>2 DEF ArrayInv

(* A step of the array leaves the FastStacks, one of those the array alone. *)
LEMMA FastKept ==
  ASSUME FastInv, UNCHANGED fastVars
  PROVE  FastInv'
<1>1. PICK L : Right(L) /\ Marked(L)
  BY DEF FastInv
<1>2. Still /\ marks' = marks
  BY DEF fastVars, Still
<1>3. FastTypes' /\ Right(L)'
  BY <1>1, <1>2, StillRight DEF FastInv
<1>4. Marked(L)'
  BY <1>1, <1>2 DEF Marked, Still, Marks, Ends
<1> QED
  BY <1>3, <1>4 DEF FastInv

(* and the other way round. *)
LEMMA ArrayKept ==
  ASSUME ArrayInv, UNCHANGED arrayVars
  PROVE  ArrayInv'
BY DEF ArrayInv, arrayVars, NoItem

(* Each step keeps the invariant. *)
LEMMA StacksStep == StacksInv /\ [FastNext \/ ArrayNext]_stackVars => StacksInv'
<1> SUFFICES ASSUME StacksInv, [FastNext \/ ArrayNext]_stackVars PROVE StacksInv'
  OBVIOUS
<1>1. FastInv /\ ArrayInv
  BY DEF StacksInv
<1>2. ASSUME NEW s \in StackNames, StackPop(s)
      PROVE  StacksInv'
  <2>1. UNCHANGED arrayVars
    BY <1>2 DEF StackPop
  <2> QED
    BY <1>1, <1>2, <2>1, PopHolds, ArrayKept DEF StacksInv
<1>3. ASSUME NEW s \in StackNames, Mark(s)
      PROVE  StacksInv'
  <2>1. UNCHANGED arrayVars
    BY <1>3 DEF Mark
  <2> QED
    BY <1>1, <1>3, <2>1, MarkHolds, ArrayKept DEF StacksInv
<1>4. ASSUME NEW s \in StackNames, StackErase(s)
      PROVE  StacksInv'
  <2>1. UNCHANGED arrayVars
    BY <1>4 DEF StackErase
  <2> QED
    BY <1>1, <1>4, <2>1, EraseHolds, ArrayKept DEF StacksInv
<1>5. ASSUME NEW s \in StackNames, StackDestroy(s)
      PROVE  StacksInv'
  <2>1. UNCHANGED arrayVars
    BY <1>5 DEF StackDestroy
  <2> QED
    BY <1>1, <1>5, <2>1, DestroyHolds, ArrayKept DEF StacksInv
<1>6. ASSUME NEW s \in StackNames, NEW x \in StackItems, StackPush(s, x)
      PROVE  StacksInv'
  <2>1. UNCHANGED arrayVars
    BY <1>6 DEF StackPush
  <2> QED
    BY <1>1, <1>6, <2>1, PushHolds, ArrayKept DEF StacksInv
<1>7. ASSUME NEW s \in StackNames, NEW t \in StackNames \ {s}, StackSwap(s, t)
      PROVE  StacksInv'
  <2>1. UNCHANGED arrayVars
    BY <1>7 DEF StackSwap
  <2> QED
    BY <1>1, <1>7, <2>1, SwapHolds, ArrayKept DEF StacksInv
<1>8. CASE Unmark
  <2>1. UNCHANGED arrayVars
    BY <1>8 DEF Unmark
  <2> QED
    BY <1>1, <1>8, <2>1, UnmarkHolds, ArrayKept DEF StacksInv
<1>9. ASSUME NEW x \in StackItems, ArrayPush(x)
      PROVE  StacksInv'
  <2>1. UNCHANGED fastVars
    BY <1>9 DEF ArrayPush
  <2> QED
    BY <1>1, <1>9, <2>1, ArrayPushHolds, FastKept DEF StacksInv
<1>10. CASE ArrayPop
  <2>1. UNCHANGED fastVars
    BY <1>10 DEF ArrayPop
  <2> QED
    BY <1>1, <1>10, <2>1, ArrayPopHolds, FastKept DEF StacksInv
<1>11. CASE ArrayErase
  <2>1. UNCHANGED fastVars
    BY <1>11 DEF ArrayErase
  <2> QED
    BY <1>1, <1>11, <2>1, ArrayEraseHolds, FastKept DEF StacksInv
<1>12. CASE UNCHANGED stackVars
  <2>1. UNCHANGED fastVars /\ UNCHANGED arrayVars
    BY <1>12 DEF stackVars
  <2> QED
    BY <1>1, <2>1, FastKept, ArrayKept DEF StacksInv
<1> QED
  BY <1>2, <1>3, <1>4, <1>5, <1>6, <1>7, <1>8, <1>9, <1>10, <1>11, <1>12
  DEF FastNext, ArrayNext

(* The invariant of the stacks *)
LEMMA StacksAlways == StacksSpec => []StacksInv
<1>1. StacksInit => StacksInv
  BY StacksStart
<1>2. StacksInv /\ [FastNext \/ ArrayNext]_stackVars => StacksInv'
  BY StacksStep
<1> QED
  BY <1>1, <1>2, PTL DEF StacksSpec

(* StacksHold for all stacks, sizes of blocks and items: through every push,
   pop, erase, swap and destroy (utils/fast_stack.h) each log holds what was
   put on it in that order and no page is on two of them, the place a nested
   transaction has remembered is that of the same item, and the array of
   utils/stack.h holds its items wherever a reallocation moved them. *)
THEOREM StacksAlwaysHold == StacksSpec => []StacksHold
<1>1. StacksInv => StacksHold
  BY FastHolds, ArrayHolds DEF StacksInv, FastHold, StacksHold
<1> QED
  BY <1>1, StacksAlways, PTL
=============================================================================
