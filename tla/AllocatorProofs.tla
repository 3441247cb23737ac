--------------------------- MODULE AllocatorProofs ---------------------------
(***************************************************************************)
(* The shared list implements an atomic stack; the counter of a cache of   *)
(* pages is exact and bounds it; and the pages of the nodes: where they    *)
(* are, what is free on them, and when a reader may still look at them.    *)
(* For every set of threads, items, pages, slots and workers, and every    *)
(* threshold.                                                              *)
(***************************************************************************)
EXTENDS SharedList, PageAllocator, NodePages, SequenceTheorems,
        FiniteSetTheorems, WellFoundedInduction, TLAPS

-----------------------------------------------------------------------------
(* The shared list *)

Upto(s) == SubSeq(s, 1, Len(s) - 1)

(* The items of a sequence. *)
In(s) == {s[k] : k \in 1..Len(s)}

Distinct(s) == \A j, k \in 1..Len(s) : s[j] = s[k] => j = k

Words == Items \cup {Nil}

ListTypes ==
  /\ link \in [Items -> Words \cup {Junk}]
  /\ doing \in [Threads -> {"idle", "push", "pop", "swap"}]
  /\ first \in [Threads -> Words]
  /\ arg \in [Threads -> Words]
  /\ private \in [Threads -> Words]
  /\ owned \in [Threads -> SUBSET Items]
  /\ contents \in Seq(Items)
  /\ taken \in [Threads -> Seq(Items)]

(* One thread at a time has the head. *)
Holder ==
  /\ \A t, u \in Threads : doing[t] # "idle" /\ doing[u] # "idle" => t = u
  /\ head = Busy <=> \E t \in Threads : doing[t] # "idle"

(* What a thread in the middle of an operation is about to publish. *)
Prepared ==
  \A t \in Threads :
    /\ doing[t] = "push" => arg[t] \in owned[t] /\ link[arg[t]] = first[t]
    /\ doing[t] = "swap" =>
         /\ private[t] = Nil
         /\ arg[t] # Nil => arg[t] \in owned[t] /\ link[arg[t]] = Nil

(* The links are in order, also while the head is taken. *)
Chained ==
  /\ head # Busy => Chain(link, head, contents)
  /\ \A t \in Threads : doing[t] # "idle" => Chain(link, first[t], contents)
  /\ \A t \in Threads : Chain(link, private[t], taken[t])

(* No item is in two places. *)
Places ==
  /\ Distinct(contents)
  /\ \A t \in Threads : /\ Distinct(taken[t])
                        /\ In(contents) \cap In(taken[t]) = {}
                        /\ In(contents) \cap owned[t] = {}
  /\ \A t, u \in Threads :
       /\ In(taken[t]) \cap owned[u] = {}
       /\ t # u => /\ In(taken[t]) \cap In(taken[u]) = {}
                   /\ owned[t] \cap owned[u] = {}

ListInv == ListTypes /\ Holder /\ Prepared /\ Chained /\ Places

-----------------------------------------------------------------------------
(* Sequences *)

(* A sequence without its last element. *)
LEMMA UptoFacts ==
  ASSUME NEW S, NEW s \in Seq(S), s # <<>>
  PROVE  /\ Len(s) \in Nat \ {0}
         /\ s[Len(s)] \in S
         /\ Upto(s) \in Seq(S)
         /\ Len(Upto(s)) = Len(s) - 1
         /\ \A k \in 1..Len(s) - 1 : Upto(s)[k] = s[k]
<1>1. Len(s) \in Nat \ {0}
  OBVIOUS
<1>2. \A k \in 1..Len(s) : s[k] \in S
  OBVIOUS
<1>3. /\ Upto(s) \in Seq(S)
      /\ Len(Upto(s)) = Len(s) - 1
      /\ \A k \in 1..Len(s) - 1 : Upto(s)[k] = s[k]
  <2> DEFINE m == Len(s) - 1
  <2>1. m \in Nat /\ \A k \in 1..m : s[k] \in S
    BY <1>1, <1>2
  <2> HIDE DEF m
  <2>2. /\ SubSeq(s, 1, m) \in Seq(S)
        /\ Len(SubSeq(s, 1, m)) = IF 1 <= m THEN m - 1 + 1 ELSE 0
        /\ \A k \in 1..m - 1 + 1 : SubSeq(s, 1, m)[k] = s[1 + k - 1]
    BY <2>1, SubSeqProperties
  <2>3. /\ Len(SubSeq(s, 1, m)) = m
        /\ \A k \in 1..m : SubSeq(s, 1, m)[k] = s[k]
    BY <2>1, <2>2
  <2> QED BY <2>2, <2>3 DEF m, Upto
<1> QED BY <1>1, <1>2, <1>3

(* The items of a sequence that loses its last one, if no item is twice in it. *)
LEMMA UptoItems ==
  ASSUME NEW S, NEW s \in Seq(S), s # <<>>, Distinct(s)
  PROVE  /\ Distinct(Upto(s))
         /\ In(Upto(s)) = In(s) \ {s[Len(s)]}
         /\ s[Len(s)] \in In(s)
<1>1. Len(s) \in Nat \ {0}
  BY UptoFacts
<1>2. Len(Upto(s)) = Len(s) - 1 /\ \A k \in 1..Len(s) - 1 : Upto(s)[k] = s[k]
  BY UptoFacts
<1>3. Distinct(Upto(s))
  BY <1>1, <1>2 DEF Distinct
<1>4. s[Len(s)] \in In(s)
  BY <1>1 DEF In
<1>5. ASSUME NEW x \in In(Upto(s)) PROVE x \in In(s) \ {s[Len(s)]}
  <2>1. PICK k \in 1..Len(s) - 1 : x = s[k]
    BY <1>2 DEF In
  <2>2. k \in 1..Len(s) /\ k # Len(s)
    BY <1>1
  <2>3. x # s[Len(s)]
    BY <1>1, <2>1, <2>2 DEF Distinct
  <2> QED BY <2>1, <2>2, <2>3 DEF In
<1>6. ASSUME NEW x \in In(s) \ {s[Len(s)]} PROVE x \in In(Upto(s))
  <2>1. PICK k \in 1..Len(s) : x = s[k]
    BY DEF In
  <2>2. k \in 1..Len(s) - 1
    BY <1>1, <2>1
  <2> QED BY <1>2, <2>1, <2>2 DEF In
<1> QED BY <1>3, <1>4, <1>5, <1>6

(* The items of a sequence that gets a new last one. *)
LEMMA AppendItems ==
  ASSUME NEW S, NEW s \in Seq(S), NEW i \in S
  PROVE  /\ Append(s, i) \in Seq(S)
         /\ In(Append(s, i)) = In(s) \cup {i}
         /\ Distinct(s) /\ i \notin In(s) => Distinct(Append(s, i))
<1>1. /\ Append(s, i) \in Seq(S)
      /\ Len(s) \in Nat
      /\ Len(Append(s, i)) = Len(s) + 1
      /\ Append(s, i)[Len(s) + 1] = i
      /\ \A k \in 1..Len(s) : Append(s, i)[k] = s[k]
  OBVIOUS
<1>2. In(Append(s, i)) = In(s) \cup {i}
  <2>1. 1..Len(s) + 1 = (1..Len(s)) \cup {Len(s) + 1}
    BY <1>1
  <2> QED BY <1>1, <2>1 DEF In
<1>3. ASSUME Distinct(s), i \notin In(s) PROVE Distinct(Append(s, i))
  <2>1. SUFFICES ASSUME NEW j \in 1..Len(s) + 1, NEW k \in 1..Len(s) + 1,
                        Append(s, i)[j] = Append(s, i)[k]
                 PROVE  j = k
    BY <1>1 DEF Distinct
  <2>2. CASE j \in 1..Len(s) /\ k \in 1..Len(s)
    BY <1>1, <1>3, <2>1, <2>2 DEF Distinct
  <2>3. CASE j = Len(s) + 1 /\ k \in 1..Len(s)
    BY <1>1, <1>3, <2>1, <2>3 DEF In
  <2>4. CASE k = Len(s) + 1 /\ j \in 1..Len(s)
    BY <1>1, <1>3, <2>1, <2>4 DEF In
  <2>5. CASE j = Len(s) + 1 /\ k = Len(s) + 1
    BY <2>5
  <2> QED BY <1>1, <2>2, <2>3, <2>4, <2>5
<1> QED BY <1>1, <1>2, <1>3

(* Sequences with no and with one item. *)
LEMMA ShortItems ==
  /\ In(<<>>) = {} /\ Distinct(<<>>)
  /\ \A i : In(<<i>>) = {i} /\ Distinct(<<i>>)
BY DEF In, Distinct

-----------------------------------------------------------------------------
(* Chains *)

(* Writing into an item that is not in the chain leaves the chain alone. *)
LEMMA ChainFrame ==
  ASSUME NEW l, NEW start, NEW s \in Seq(Items), Chain(l, start, s),
         NEW i, i \notin In(s), NEW x, NEW D, l \in [Items -> D]
  PROVE  Chain([l EXCEPT ![i] = x], start, s)
<1>1. \A k \in 1..Len(s) : s[k] # i /\ s[k] \in Items
  BY DEF In
<1>2. \A k \in 1..Len(s) : [l EXCEPT ![i] = x][s[k]] = l[s[k]]
  BY <1>1
<1> QED BY <1>2 DEF Chain

(* An item whose link is the start of a chain makes the chain longer. *)
LEMMA ChainPush ==
  ASSUME NEW l, NEW start, NEW s \in Seq(Items), Chain(l, start, s),
         NEW i \in Items, l[i] = start
  PROVE  Chain(l, i, Append(s, i))
<1>1. /\ Len(s) \in Nat
      /\ Len(Append(s, i)) = Len(s) + 1
      /\ Append(s, i)[Len(s) + 1] = i
      /\ \A k \in 1..Len(s) : Append(s, i)[k] = s[k]
      /\ Append(s, i) # <<>>
  OBVIOUS
<1>2. ASSUME NEW k \in 1..Len(s) + 1
      PROVE  l[Append(s, i)[k]] = IF k = 1 THEN Nil ELSE Append(s, i)[k - 1]
  <2>1. CASE k \in 1..Len(s)
    <3>1. k # 1 => k - 1 \in 1..Len(s)
      BY <2>1
    <3> QED BY <1>1, <2>1, <3>1 DEF Chain
  <2>2. CASE k = Len(s) + 1 /\ Len(s) = 0
    <3>1. s = <<>>
      BY <2>2
    <3> QED BY <1>1, <2>2, <3>1 DEF Chain
  <2>3. CASE k = Len(s) + 1 /\ Len(s) # 0
    <3>1. s # <<>> /\ Len(s) \in 1..Len(s)
      BY <1>1, <2>3
    <3>2. start = s[Len(s)]
      BY <3>1 DEF Chain
    <3> QED BY <1>1, <2>3, <3>1, <3>2
  <2> QED BY <1>1, <2>1, <2>2, <2>3
<1> QED BY <1>1, <1>2 DEF Chain

(* A chain without its first item starts where that item's link points. *)
LEMMA ChainPop ==
  ASSUME NEW l, NEW start, NEW s \in Seq(Items), Chain(l, start, s),
         start # Nil
  PROVE  /\ s # <<>> /\ start = s[Len(s)] /\ start \in Items
         /\ Chain(l, l[start], Upto(s))
<1>1. s # <<>> /\ start = s[Len(s)]
  BY DEF Chain
<1>2. /\ Len(s) \in Nat \ {0} /\ start \in Items
      /\ Upto(s) \in Seq(Items)
      /\ Len(Upto(s)) = Len(s) - 1
      /\ \A k \in 1..Len(s) - 1 : Upto(s)[k] = s[k]
  BY <1>1, UptoFacts
<1>3. l[start] = IF Upto(s) = <<>> THEN Nil ELSE Upto(s)[Len(Upto(s))]
  <2>1. CASE Len(s) = 1
    <3>1. Upto(s) = <<>>
      BY <1>2, <2>1
    <3> QED BY <1>1, <1>2, <2>1, <3>1 DEF Chain
  <2>2. CASE Len(s) # 1
    <3>1. Upto(s) # <<>> /\ Len(s) - 1 \in 1..Len(s) - 1
      BY <1>2, <2>2
    <3>2. Upto(s)[Len(s) - 1] = s[Len(s) - 1]
      BY <1>2, <3>1
    <3> QED BY <1>1, <1>2, <2>2, <3>1, <3>2 DEF Chain
  <2> QED BY <2>1, <2>2
<1>4. ASSUME NEW k \in 1..Len(s) - 1
      PROVE  l[Upto(s)[k]] = IF k = 1 THEN Nil ELSE Upto(s)[k - 1]
  <2>1. k \in 1..Len(s) /\ (k # 1 => k - 1 \in 1..Len(s) - 1)
    BY <1>2
  <2> QED BY <1>2, <2>1 DEF Chain
<1> QED BY <1>1, <1>2, <1>3, <1>4 DEF Chain
-----------------------------------------------------------------------------
(* The invariant *)

(* The end of a list is no item of any. *)
LEMMA NilIsNoItem ==
  /\ Nil \notin Items /\ Busy \notin Items
  /\ Nil # Busy
  /\ ListInv => /\ Nil \notin In(contents)
                /\ \A u \in Threads : Nil \notin In(taken[u])
<1>1. Nil \notin Items /\ Busy \notin Items
  BY ItemAssumption
<1>2. \A s \in Seq(Items) : In(s) \subseteq Items
  BY DEF In
<1> QED BY <1>1, <1>2 DEF ListInv, ListTypes, Nil, Busy

LEMMA ListInitInv == ListInit => ListInv
<1> SUFFICES ASSUME ListInit PROVE ListInv
  OBVIOUS
<1>1. ListTypes
  BY DEF ListInit, ListTypes, Words
<1>2. Holder /\ Prepared
  BY DEF ListInit, Holder, Prepared, Nil, Busy
<1>3. Chained
  BY DEF ListInit, Chained, Chain
<1>4. Places
  BY ShortItems DEF ListInit, Places
<1> QED BY <1>1, <1>2, <1>3, <1>4 DEF ListInv

(* Who takes the head finds a chain behind it and is then the only one. *)
LEMMA BeginHolds ==
  ASSUME ListInv, NEW t \in Threads, NEW op \in {"push", "pop", "swap"},
         Starts(t, op), GetFirst(t)
  PROVE  /\ doing' \in [Threads -> {"idle", "push", "pop", "swap"}]
         /\ first' \in [Threads -> Words]
         /\ Holder'
         /\ \A u \in Threads : doing[u] = "idle"
         /\ \A u \in Threads : doing'[u] = IF u = t THEN op ELSE "idle"
         /\ head' = Busy
         /\ first'[t] = head
         /\ Chain(link, head, contents)
         /\ head \in Words
<1>1. /\ doing \in [Threads -> {"idle", "push", "pop", "swap"}]
      /\ first \in [Threads -> Words] /\ contents \in Seq(Items)
  BY DEF ListInv, ListTypes
<1>2. head # Busy /\ head' = Busy /\ first' = [first EXCEPT ![t] = head]
  BY DEF GetFirst
<1>3. Chain(link, head, contents)
  BY <1>2 DEF ListInv, Chained
<1>4. head \in Words
  <2>1. CASE contents = <<>>
    BY <1>3, <2>1 DEF Chain, Words
  <2>2. CASE contents # <<>>
    BY <1>1, <1>3, <2>2, UptoFacts DEF Chain, Words
  <2> QED BY <2>1, <2>2
<1>5. \A u \in Threads : doing[u] = "idle"
  BY <1>2 DEF ListInv, Holder
<1>6. doing' = [doing EXCEPT ![t] = op]
  BY DEF Starts
<1>7. \A u \in Threads : doing'[u] = IF u = t THEN op ELSE "idle"
  BY <1>1, <1>5, <1>6
<1>8. Holder'
  BY <1>2, <1>7 DEF Holder
<1> QED BY <1>1, <1>2, <1>3, <1>4, <1>5, <1>6, <1>7, <1>8

LEMMA PushBeginInv ==
  ASSUME ListInv, NEW t \in Threads, NEW i \in Items, PushBegin(t, i)
  PROVE  ListInv'
<1>1. Starts(t, "push") /\ GetFirst(t)
  BY DEF PushBegin
<1>2. /\ Holder'
      /\ doing' \in [Threads -> {"idle", "push", "pop", "swap"}]
      /\ first' \in [Threads -> Words]
      /\ \A u \in Threads : doing'[u] = IF u = t THEN "push" ELSE "idle"
      /\ head' = Busy /\ first'[t] = head
      /\ Chain(link, head, contents)
      /\ head \in Words
  BY <1>1, BeginHolds
<1>3. /\ i \in owned[t]
      /\ arg' = [arg EXCEPT ![t] = i]
      /\ link' = [link EXCEPT ![i] = head]
      /\ UNCHANGED <<private, owned, contents, taken>>
  BY DEF PushBegin
<1>4. ListTypes'
  BY <1>2, <1>3 DEF ListInv, ListTypes, Words
<1>5. Prepared'
  BY <1>2, <1>3 DEF ListInv, ListTypes, Prepared
<1>6. i \notin In(contents) /\ \A u \in Threads : i \notin In(taken[u])
  BY <1>3 DEF ListInv, Places
<1>7. link \in [Items -> Words \cup {Junk}] /\ contents \in Seq(Items)
  BY DEF ListInv, ListTypes
<1>8. Chain(link', head, contents)
  BY <1>2, <1>3, <1>6, <1>7, ChainFrame
<1>9. ASSUME NEW u \in Threads PROVE Chain(link', private[u], taken[u])
  <2>1. Chain(link, private[u], taken[u]) /\ taken[u] \in Seq(Items)
    BY DEF ListInv, ListTypes, Chained
  <2> QED BY <1>3, <1>6, <1>7, <2>1, ChainFrame
<1>10. Chained'
  BY <1>2, <1>3, <1>8, <1>9 DEF Chained
<1>11. Places'
  BY <1>3 DEF ListInv, Places
<1> QED BY <1>2, <1>4, <1>5, <1>10, <1>11 DEF ListInv

LEMMA PopBeginInv ==
  ASSUME ListInv, NEW t \in Threads, PopBegin(t)
  PROVE  ListInv'
<1>1. Starts(t, "pop") /\ GetFirst(t)
  BY DEF PopBegin
<1>2. /\ Holder'
      /\ doing' \in [Threads -> {"idle", "push", "pop", "swap"}]
      /\ first' \in [Threads -> Words]
      /\ \A u \in Threads : doing'[u] = IF u = t THEN "pop" ELSE "idle"
      /\ head' = Busy /\ first'[t] = head
      /\ Chain(link, head, contents)
  BY <1>1, BeginHolds
<1>3. UNCHANGED <<link, arg, private, owned, contents, taken>>
  BY DEF PopBegin
<1>4. ListTypes'
  BY <1>2, <1>3 DEF ListInv, ListTypes
<1>5. Prepared'
  BY <1>2, <1>3 DEF Prepared
<1>6. Chained'
  BY <1>2, <1>3 DEF ListInv, Chained
<1>7. Places'
  BY <1>3 DEF ListInv, Places
<1> QED BY <1>2, <1>4, <1>5, <1>6, <1>7 DEF ListInv

LEMMA SwapBeginInv ==
  ASSUME ListInv, NEW t \in Threads, NEW i \in Words, SwapBegin(t, i)
  PROVE  ListInv'
<1>1. Starts(t, "swap") /\ GetFirst(t)
  BY DEF SwapBegin
<1>2. /\ Holder'
      /\ doing' \in [Threads -> {"idle", "push", "pop", "swap"}]
      /\ first' \in [Threads -> Words]
      /\ \A u \in Threads : doing'[u] = IF u = t THEN "swap" ELSE "idle"
      /\ head' = Busy /\ first'[t] = head
      /\ Chain(link, head, contents)
  BY <1>1, BeginHolds
<1>3. /\ private[t] = Nil
      /\ i = Nil \/ i \in owned[t]
      /\ arg' = [arg EXCEPT ![t] = i]
      /\ link' = IF i = Nil THEN link ELSE [link EXCEPT ![i] = Nil]
      /\ UNCHANGED <<private, owned, contents, taken>>
  BY DEF SwapBegin
<1>4. /\ link \in [Items -> Words \cup {Junk}] /\ contents \in Seq(Items)
      /\ arg \in [Threads -> Words]
  BY DEF ListInv, ListTypes
<1>5. link' \in [Items -> Words \cup {Junk}]
  BY <1>3, <1>4 DEF Words
<1>6. ListTypes'
  BY <1>2, <1>3, <1>5 DEF ListInv, ListTypes
<1>7. i # Nil => i \in Items /\ link'[i] = Nil
  BY <1>3, <1>4 DEF Words
<1>8. Prepared'
  BY <1>2, <1>3, <1>4, <1>7 DEF Prepared
<1>9. i \notin In(contents) /\ \A u \in Threads : i \notin In(taken[u])
  BY <1>3, <1>4, NilIsNoItem DEF ListInv, Places
<1>10. Chain(link', head, contents)
  BY <1>2, <1>3, <1>4, <1>9, ChainFrame
<1>11. ASSUME NEW u \in Threads PROVE Chain(link', private[u], taken[u])
  <2>1. Chain(link, private[u], taken[u]) /\ taken[u] \in Seq(Items)
    BY DEF ListInv, ListTypes, Chained
  <2> QED BY <1>3, <1>4, <1>9, <2>1, ChainFrame
<1>12. Chained'
  BY <1>2, <1>3, <1>10, <1>11 DEF Chained
<1>13. Places'
  BY <1>3 DEF ListInv, Places
<1> QED BY <1>2, <1>6, <1>8, <1>12, <1>13 DEF ListInv

(* Who publishes a head gives it up. *)
LEMMA EndHolds ==
  ASSUME ListInv, NEW t \in Threads, NEW op \in {"push", "pop", "swap"},
         Ends(t, op), head' # Busy
  PROVE  /\ doing' \in [Threads -> {"idle", "push", "pop", "swap"}]
         /\ \A u \in Threads : doing'[u] = "idle"
         /\ Holder'
         /\ Chain(link, first[t], contents)
<1>1. doing \in [Threads -> {"idle", "push", "pop", "swap"}]
  BY DEF ListInv, ListTypes
<1>2. doing[t] = op /\ doing' = [doing EXCEPT ![t] = "idle"]
  BY DEF Ends
<1>3. \A u \in Threads : u # t => doing[u] = "idle"
  BY <1>2 DEF ListInv, Holder
<1>4. \A u \in Threads : doing'[u] = "idle"
  BY <1>1, <1>2, <1>3
<1>5. Holder'
  BY <1>4 DEF Holder
<1>6. Chain(link, first[t], contents)
  BY <1>2 DEF ListInv, Chained
<1> QED BY <1>1, <1>2, <1>4, <1>5, <1>6

LEMMA PushEndInv ==
  ASSUME ListInv, NEW t \in Threads, PushEnd(t)
  PROVE  /\ ListInv'
         /\ arg[t] \in owned[t] /\ arg[t] \in Items
<1>1. /\ Ends(t, "push")
      /\ head' = arg[t]
      /\ owned' = [owned EXCEPT ![t] = @ \ {arg[t]}]
      /\ contents' = Append(contents, arg[t])
      /\ UNCHANGED <<link, first, arg, private, taken>>
  BY DEF PushEnd
<1>2. arg[t] \in owned[t] /\ link[arg[t]] = first[t] /\ arg[t] \in Items
  BY <1>1 DEF ListInv, ListTypes, Prepared, Ends
<1>3. head' # Busy
  BY <1>1, <1>2, NilIsNoItem
<1>4. /\ doing' \in [Threads -> {"idle", "push", "pop", "swap"}]
      /\ \A u \in Threads : doing'[u] = "idle"
      /\ Holder'
      /\ Chain(link, first[t], contents)
  BY <1>1, <1>3, EndHolds
<1>5. /\ contents \in Seq(Items) /\ Distinct(contents)
      /\ arg[t] \notin In(contents)
  BY <1>2 DEF ListInv, ListTypes, Places
<1>6. /\ contents' \in Seq(Items)
      /\ In(contents') = In(contents) \cup {arg[t]}
      /\ Distinct(contents')
  BY <1>1, <1>2, <1>5, AppendItems
<1>7. ListTypes'
  BY <1>1, <1>4, <1>6 DEF ListInv, ListTypes
<1>8. Prepared'
  BY <1>4 DEF Prepared
<1>9. Chain(link, arg[t], contents')
  BY <1>1, <1>2, <1>4, <1>5, ChainPush
<1>10. Chained'
  BY <1>1, <1>4, <1>9 DEF ListInv, Chained
<1>11. \A u \in Threads :
         owned'[u] = IF u = t THEN owned[u] \ {arg[t]} ELSE owned[u]
  BY <1>1 DEF ListInv, ListTypes
<1>12. \A u \in Threads : In(contents') \cap In(taken[u]) = {}
  BY <1>2, <1>6 DEF ListInv, Places
<1>13. \A u \in Threads : In(contents') \cap owned'[u] = {}
  <2>1. ASSUME NEW u \in Threads PROVE arg[t] \notin owned'[u]
    BY <1>2, <1>11 DEF ListInv, Places
  <2>2. ASSUME NEW u \in Threads PROVE In(contents) \cap owned'[u] = {}
    BY <1>11 DEF ListInv, Places
  <2> QED BY <1>6, <2>1, <2>2
<1>14. \A u, v \in Threads :
         /\ In(taken[u]) \cap owned'[v] = {}
         /\ u # v => owned'[u] \cap owned'[v] = {}
  <2>1. \A u \in Threads : owned'[u] \subseteq owned[u]
    BY <1>11
  <2> QED BY <2>1 DEF ListInv, Places
<1>15. \A u, v \in Threads : /\ Distinct(taken[u])
                             /\ u # v => In(taken[u]) \cap In(taken[v]) = {}
  BY DEF ListInv, Places
<1>16. Places'
  BY <1>1, <1>6, <1>12, <1>13, <1>14, <1>15 DEF Places
<1> QED BY <1>2, <1>4, <1>7, <1>8, <1>10, <1>16 DEF ListInv

LEMMA PopEndInv ==
  ASSUME ListInv, NEW t \in Threads, PopEnd(t)
  PROVE  /\ ListInv'
         /\ first[t] # Nil => /\ contents # <<>>
                              /\ first[t] = contents[Len(contents)]
<1>1. Ends(t, "pop") /\ UNCHANGED <<first, arg, private, taken>>
  BY DEF PopEnd
<1>2. Chain(link, first[t], contents) /\ contents \in Seq(Items)
  BY <1>1 DEF ListInv, ListTypes, Chained, Ends
<1>3. CASE first[t] = Nil
  <2>1. head' = Nil /\ UNCHANGED <<link, owned, contents>>
    BY <1>3 DEF PopEnd
  <2>2. head' # Busy
    BY <2>1, NilIsNoItem
  <2>3. /\ doing' \in [Threads -> {"idle", "push", "pop", "swap"}]
        /\ \A u \in Threads : doing'[u] = "idle"
        /\ Holder'
    BY <1>1, <2>2, EndHolds
  <2>4. ListTypes'
    BY <1>1, <2>1, <2>3 DEF ListInv, ListTypes
  <2>5. Prepared'
    BY <2>3 DEF Prepared
  <2>6. Chained'
    BY <1>1, <1>2, <1>3, <2>1, <2>3 DEF ListInv, Chained
  <2>7. Places'
    BY <1>1, <2>1 DEF ListInv, Places
  <2> QED BY <1>3, <2>3, <2>4, <2>5, <2>6, <2>7 DEF ListInv
<1>4. CASE first[t] # Nil
  <2> DEFINE i == first[t]
  <2>1. /\ head' = link[i]
        /\ link' = [link EXCEPT ![i] = Junk]
        /\ owned' = [owned EXCEPT ![t] = @ \cup {i}]
        /\ contents' = Upto(contents)
    BY <1>4 DEF PopEnd, Upto
  <2>2. /\ contents # <<>> /\ i = contents[Len(contents)] /\ i \in Items
        /\ Chain(link, link[i], contents')
    BY <1>2, <1>4, <2>1, ChainPop
  <2>3. Distinct(contents)
    BY DEF ListInv, Places
  <2>4. /\ contents' \in Seq(Items) /\ Distinct(contents')
        /\ In(contents') = In(contents) \ {i} /\ i \in In(contents)
    BY <1>2, <2>1, <2>2, <2>3, UptoFacts, UptoItems
  <2>5. link[i] \in Words
    BY <2>2, <2>4, UptoFacts DEF Chain, Words
  <2>6. head' # Busy
    BY <2>1, <2>5, NilIsNoItem DEF Words
  <2>7. /\ doing' \in [Threads -> {"idle", "push", "pop", "swap"}]
        /\ \A u \in Threads : doing'[u] = "idle"
        /\ Holder'
    BY <1>1, <2>6, EndHolds
  <2>8. link \in [Items -> Words \cup {Junk}]
    BY DEF ListInv, ListTypes
  <2>9. ListTypes'
    BY <1>1, <2>1, <2>2, <2>4, <2>7 DEF ListInv, ListTypes
  <2>10. Prepared'
    BY <2>7 DEF Prepared
  <2>11. Chain(link', head', contents')
    BY <2>1, <2>2, <2>4, <2>8, ChainFrame
  <2>12. ASSUME NEW u \in Threads PROVE Chain(link', private[u], taken[u])
    <3>1. /\ Chain(link, private[u], taken[u]) /\ taken[u] \in Seq(Items)
          /\ i \notin In(taken[u])
      BY <2>4 DEF ListInv, ListTypes, Chained, Places
    <3> QED BY <2>1, <2>8, <3>1, ChainFrame
  <2>13. Chained'
    BY <1>1, <2>7, <2>11, <2>12 DEF Chained
  <2>14. \A u \in Threads :
           owned'[u] = IF u = t THEN owned[u] \cup {i} ELSE owned[u]
    BY <2>1 DEF ListInv, ListTypes
  <2>15. \A u \in Threads : In(contents') \cap owned'[u] = {}
    BY <2>4, <2>14 DEF ListInv, Places
  <2>16. \A u, v \in Threads :
           /\ In(taken[u]) \cap owned'[v] = {}
           /\ u # v => owned'[u] \cap owned'[v] = {}
    <3>1. \A u \in Threads : i \notin In(taken[u]) /\ i \notin owned[u]
      BY <2>4 DEF ListInv, Places
    <3>2. \A u, v \in Threads :
            /\ In(taken[u]) \cap owned[v] = {}
            /\ u # v => owned[u] \cap owned[v] = {}
      BY DEF ListInv, Places
    <3>3. ASSUME NEW u \in Threads, NEW v \in Threads
          PROVE  In(taken[u]) \cap owned'[v] = {}
      <4>1. owned'[v] \subseteq owned[v] \cup {i}
        BY <2>14
      <4> QED BY <3>1, <3>2, <4>1
    <3>4. ASSUME NEW u \in Threads, NEW v \in Threads, u # v
          PROVE  owned'[u] \cap owned'[v] = {}
      <4>1. CASE u = t
        <5>1. owned'[u] = owned[u] \cup {i} /\ owned'[v] = owned[v]
          BY <2>14, <3>4, <4>1
        <5> QED BY <3>1, <3>2, <3>4, <5>1
      <4>2. CASE u # t
        <5>1. owned'[u] = owned[u] /\ owned'[v] \subseteq owned[v] \cup {i}
          BY <2>14, <4>2
        <5> QED BY <3>1, <3>2, <3>4, <5>1
      <4> QED BY <4>1, <4>2
    <3> QED BY <3>3, <3>4
  <2>17. Places'
    BY <1>1, <2>4, <2>15, <2>16 DEF ListInv, Places
  <2> QED BY <2>2, <2>7, <2>9, <2>10, <2>13, <2>17 DEF ListInv
<1> QED BY <1>3, <1>4

LEMMA SwapEndInv ==
  ASSUME ListInv, NEW t \in Threads, SwapEnd(t)
  PROVE  /\ ListInv'
         /\ taken[t] = <<>>
         /\ arg[t] # Nil => arg[t] \in owned[t] /\ arg[t] \in Items
<1>1. /\ Ends(t, "swap")
      /\ head' = arg[t]
      /\ private' = [private EXCEPT ![t] = first[t]]
      /\ owned' = [owned EXCEPT ![t] = @ \ {arg[t]}]
      /\ taken' = [taken EXCEPT ![t] = contents]
      /\ contents' = IF arg[t] = Nil THEN <<>> ELSE <<arg[t]>>
      /\ UNCHANGED <<link, first, arg>>
  BY DEF SwapEnd
<1>2. /\ private[t] = Nil /\ arg[t] \in Words
      /\ arg[t] # Nil => /\ arg[t] \in owned[t] /\ arg[t] \in Items
                         /\ link[arg[t]] = Nil
  BY <1>1 DEF ListInv, ListTypes, Prepared, Ends
<1>3. head' # Busy
  BY <1>1, <1>2, NilIsNoItem DEF Words
<1>4. /\ doing' \in [Threads -> {"idle", "push", "pop", "swap"}]
      /\ \A u \in Threads : doing'[u] = "idle"
      /\ Holder'
      /\ Chain(link, first[t], contents)
  BY <1>1, <1>3, EndHolds
<1>5. taken[t] = <<>>
  <2>1. Chain(link, Nil, taken[t]) /\ taken[t] \in Seq(Items)
    BY <1>2 DEF ListInv, ListTypes, Chained
  <2>2. ASSUME taken[t] # <<>> PROVE FALSE
    <3>1. taken[t][Len(taken[t])] \in Items
      BY <2>1, <2>2, UptoFacts
    <3> QED BY <2>1, <2>2, <3>1, NilIsNoItem DEF Chain
  <2> QED BY <2>2
<1>6. contents' \in Seq(Items) /\ Distinct(contents')
  BY <1>1, <1>2, ShortItems
<1>7. In(contents') = IF arg[t] = Nil THEN {} ELSE {arg[t]}
  BY <1>1, ShortItems
<1>8. contents \in Seq(Items) /\ first[t] \in Words
  BY DEF ListInv, ListTypes
<1>9. \A u \in Threads :
        /\ owned'[u] = IF u = t THEN owned[u] \ {arg[t]} ELSE owned[u]
        /\ taken'[u] = IF u = t THEN contents ELSE taken[u]
        /\ private'[u] = IF u = t THEN first[t] ELSE private[u]
  BY <1>1 DEF ListInv, ListTypes
<1>10. ListTypes'
  BY <1>1, <1>4, <1>6, <1>8 DEF ListInv, ListTypes
<1>11. Prepared'
  BY <1>4 DEF Prepared
<1>12. Chain(link, arg[t], contents')
  <2>1. CASE arg[t] = Nil
    BY <1>1, <2>1 DEF Chain
  <2>2. CASE arg[t] # Nil
    BY <1>1, <1>2, <2>2 DEF Chain
  <2> QED BY <2>1, <2>2
<1>13. \A u \in Threads : Chain(link, private'[u], taken'[u])
  BY <1>4, <1>9 DEF ListInv, Chained
<1>14. Chained'
  BY <1>1, <1>4, <1>12, <1>13 DEF Chained
<1>15. ASSUME NEW u \in Threads PROVE In(contents') \cap owned'[u] = {}
  <2>1. arg[t] # Nil => arg[t] \notin owned'[u]
    <3>1. u # t => owned[t] \cap owned[u] = {}
      BY DEF ListInv, Places
    <3> QED BY <1>2, <1>9, <3>1
  <2> QED BY <1>7, <2>1
<1>16. \A u \in Threads : /\ In(contents') \cap In(taken[u]) = {}
                         /\ In(contents') \cap In(contents) = {}
  BY <1>2, <1>7 DEF ListInv, Places
<1>17. \A u \in Threads : /\ Distinct(taken'[u])
                         /\ In(contents') \cap In(taken'[u]) = {}
  BY <1>9, <1>16 DEF ListInv, Places
<1>18. \A u, v \in Threads :
         /\ In(taken'[u]) \cap owned'[v] = {}
         /\ u # v => owned'[u] \cap owned'[v] = {}
  <2>1. \A u \in Threads : owned'[u] \subseteq owned[u]
    BY <1>9
  <2>2. \A u, v \in Threads :
          /\ In(taken[u]) \cap owned[v] = {}
          /\ In(contents) \cap owned[v] = {}
          /\ u # v => owned[u] \cap owned[v] = {}
    BY DEF ListInv, Places
  <2> QED BY <1>9, <2>1, <2>2
<1>19. \A u, v \in Threads : u # v => In(taken'[u]) \cap In(taken'[v]) = {}
  <2>1. \A u, v \in Threads :
          /\ In(contents) \cap In(taken[u]) = {}
          /\ u # v => In(taken[u]) \cap In(taken[v]) = {}
    BY DEF ListInv, Places
  <2> QED BY <1>9, <2>1
<1>20. Places'
  BY <1>6, <1>15, <1>17, <1>18, <1>19 DEF Places
<1> QED BY <1>2, <1>4, <1>5, <1>10, <1>11, <1>14, <1>20 DEF ListInv

LEMMA PrivatePopInv ==
  ASSUME ListInv, NEW t \in Threads, PrivatePop(t)
  PROVE  /\ ListInv'
         /\ taken[t] # <<>> /\ private[t] = taken[t][Len(taken[t])]
<1> DEFINE i == private[t]
<1>1. /\ doing[t] = "idle" /\ i # Nil
      /\ private' = [private EXCEPT ![t] = link[i]]
      /\ link' = [link EXCEPT ![i] = Junk]
      /\ owned' = [owned EXCEPT ![t] = @ \cup {i}]
      /\ taken' = [taken EXCEPT ![t] = Upto(@)]
      /\ UNCHANGED <<head, doing, first, arg, contents>>
  BY DEF PrivatePop, Upto
<1>2. taken \in [Threads -> Seq(Items)] /\ Chain(link, i, taken[t])
  BY DEF ListInv, ListTypes, Chained
<1>3. /\ taken[t] # <<>> /\ i = taken[t][Len(taken[t])] /\ i \in Items
      /\ Chain(link, link[i], Upto(taken[t]))
  BY <1>1, <1>2, ChainPop
<1>4. Distinct(taken[t])
  BY DEF ListInv, Places
<1>5. /\ Upto(taken[t]) \in Seq(Items) /\ Distinct(Upto(taken[t]))
      /\ In(Upto(taken[t])) = In(taken[t]) \ {i} /\ i \in In(taken[t])
  BY <1>2, <1>3, <1>4, UptoFacts, UptoItems
<1>6. link[i] \in Words
  BY <1>3, <1>5, UptoFacts DEF Chain, Words
<1>7. link \in [Items -> Words \cup {Junk}]
  BY DEF ListInv, ListTypes
<1>8. \A u \in Threads :
        /\ owned'[u] = IF u = t THEN owned[u] \cup {i} ELSE owned[u]
        /\ taken'[u] = IF u = t THEN Upto(taken[t]) ELSE taken[u]
        /\ private'[u] = IF u = t THEN link[i] ELSE private[u]
  BY <1>1 DEF ListInv, ListTypes
<1>9. ListTypes'
  BY <1>1, <1>3, <1>5, <1>6 DEF ListInv, ListTypes
<1>10. \A u \in Threads : i \notin owned[u]
  BY <1>5 DEF ListInv, Places
<1>11. ASSUME NEW u \in Threads, arg[u] \in owned[u] PROVE arg[u] # i
  BY <1>10, <1>11
<1>12. ASSUME NEW u \in Threads, u # t PROVE i \notin In(taken[u])
  BY <1>5, <1>12 DEF ListInv, Places
<1>13. Prepared'
  <2>1. ASSUME NEW u \in Threads, doing[u] = "push"
        PROVE  arg[u] \in owned'[u] /\ link'[arg[u]] = first[u]
    <3>1. arg[u] \in owned[u] /\ link[arg[u]] = first[u] /\ arg[u] \in Items
      BY <2>1 DEF ListInv, ListTypes, Prepared
    <3> QED BY <1>1, <1>7, <1>8, <1>11, <2>1, <3>1
  <2>2. ASSUME NEW u \in Threads, doing[u] = "swap"
        PROVE  /\ private'[u] = Nil
               /\ arg[u] # Nil => arg[u] \in owned'[u] /\ link'[arg[u]] = Nil
    <3>1. /\ private[u] = Nil /\ u # t
          /\ arg[u] # Nil => /\ arg[u] \in owned[u] /\ arg[u] \in Items
                             /\ link[arg[u]] = Nil
      BY <1>1, <2>2 DEF ListInv, ListTypes, Prepared
    <3> QED BY <1>1, <1>7, <1>8, <1>11, <2>2, <3>1
  <2> QED BY <1>1, <2>1, <2>2 DEF Prepared
<1>14. contents \in Seq(Items) /\ i \notin In(contents)
  BY <1>5 DEF ListInv, ListTypes, Places
<1>15. head # Busy => Chain(link', head, contents)
  <2>1. head # Busy => Chain(link, head, contents)
    BY DEF ListInv, Chained
  <2> QED BY <1>1, <1>7, <1>14, <2>1, ChainFrame
<1>16. ASSUME NEW u \in Threads, doing[u] # "idle"
       PROVE  Chain(link', first[u], contents)
  <2>1. Chain(link, first[u], contents)
    BY <1>16 DEF ListInv, Chained
  <2> QED BY <1>1, <1>7, <1>14, <2>1, ChainFrame
<1>17. ASSUME NEW u \in Threads PROVE Chain(link', private'[u], taken'[u])
  <2>1. /\ Chain(link, private'[u], taken'[u]) /\ taken'[u] \in Seq(Items)
        /\ i \notin In(taken'[u])
    <3>1. CASE u = t
      BY <1>3, <1>5, <1>8, <3>1
    <3>2. CASE u # t
      BY <1>2, <1>8, <1>12, <3>2 DEF ListInv, Chained
    <3> QED BY <3>1, <3>2
  <2> QED BY <1>1, <1>7, <2>1, ChainFrame
<1>18. Chained'
  BY <1>1, <1>15, <1>16, <1>17 DEF Chained
<1>19. \A u, v \in Threads :
         /\ Distinct(taken[u])
         /\ In(contents) \cap owned[u] = {}
         /\ In(taken[u]) \cap owned[v] = {}
         /\ u # v => /\ In(taken[u]) \cap In(taken[v]) = {}
                     /\ owned[u] \cap owned[v] = {}
  BY DEF ListInv, Places
<1>20. ASSUME NEW u \in Threads
       PROVE  /\ In(taken'[u]) \subseteq In(taken[u]) /\ Distinct(taken'[u])
              /\ i \notin In(taken'[u])
              /\ owned'[u] \subseteq owned[u] \cup {i}
              /\ u # t => owned'[u] = owned[u]
  <2>1. CASE u = t
    BY <1>5, <1>8, <2>1
  <2>2. CASE u # t
    BY <1>8, <1>12, <1>19, <2>2
  <2> QED BY <2>1, <2>2
<1>21. ASSUME NEW u \in Threads
       PROVE  /\ In(contents) \cap In(taken'[u]) = {}
              /\ In(contents) \cap owned'[u] = {}
  <2>1. In(contents) \cap In(taken[u]) = {} /\ In(contents) \cap owned[u] = {}
    BY DEF ListInv, Places
  <2> QED BY <1>14, <1>20, <2>1
<1>22. ASSUME NEW u \in Threads, NEW v \in Threads
       PROVE  /\ In(taken'[u]) \cap owned'[v] = {}
              /\ u # v => In(taken'[u]) \cap In(taken'[v]) = {}
  <2>1. /\ In(taken[u]) \cap owned[v] = {}
        /\ u # v => In(taken[u]) \cap In(taken[v]) = {}
    BY <1>19
  <2>2. In(taken'[u]) \cap owned'[v] = {}
    BY <1>20, <2>1
  <2>3. u # v => In(taken'[u]) \cap In(taken'[v]) = {}
    BY <1>20, <2>1
  <2> QED BY <2>2, <2>3
<1>23. ASSUME NEW u \in Threads, NEW v \in Threads, u # v
       PROVE  owned'[u] \cap owned'[v] = {}
  <2>1. owned[u] \cap owned[v] = {} /\ i \notin owned[u] /\ i \notin owned[v]
    BY <1>10, <1>19, <1>23
  <2>2. CASE u # t
    BY <1>20, <2>1, <2>2
  <2>3. CASE v # t
    BY <1>20, <2>1, <2>3
  <2> QED BY <1>23, <2>2, <2>3
<1>24. Distinct(contents)
  BY DEF ListInv, Places
<1>25. Places'
  BY <1>1, <1>20, <1>21, <1>22, <1>23, <1>24 DEF Places
<1>26. Holder'
  BY <1>1 DEF ListInv, Holder
<1> QED BY <1>3, <1>9, <1>13, <1>18, <1>25, <1>26 DEF ListInv

LEMMA ListStepInv == ListInv /\ [ListNext]_listVars => ListInv'
<1> SUFFICES ASSUME ListInv, [ListNext]_listVars PROVE ListInv'
  OBVIOUS
<1>1. CASE UNCHANGED listVars
  BY <1>1 DEF listVars, ListInv, ListTypes, Holder, Prepared, Chained, Places
<1>2. ASSUME NEW t \in Threads, ListStep(t) PROVE ListInv'
  <2>1. ASSUME NEW i \in Items, PushBegin(t, i) PROVE ListInv'
    BY <2>1, PushBeginInv
  <2>2. ASSUME NEW i \in Items \cup {Nil}, SwapBegin(t, i) PROVE ListInv'
    BY <2>2, SwapBeginInv DEF Words
  <2> QED BY <1>2, <2>1, <2>2, PushEndInv, PopBeginInv, PopEndInv, SwapEndInv,
             PrivatePopInv DEF ListStep
<1> QED BY <1>1, <1>2 DEF ListNext

(* No item is ever on the list and in somebody's hands, or twice on the list,
   and whoever holds the head knows all of the list. *)
THEOREM ListInvariant == ListSpec => []ListInv
BY ListInitInv, ListStepInv, PTL DEF ListSpec

-----------------------------------------------------------------------------
(* The refinement *)

LEMMA InitRefines == ListInit => Stack!Init
BY DEF ListInit, Stack!Init

LEMMA StepRefines ==
  ASSUME ListInv, [ListNext]_listVars
  PROVE  [Stack!Next]_Stack!listed
<1>1. CASE UNCHANGED listVars
  BY <1>1 DEF listVars, Stack!listed
<1>2. ASSUME NEW t \in Threads, ListStep(t)
      PROVE  [Stack!Next]_Stack!listed
  <2>1. ASSUME NEW i \in Items, PushBegin(t, i) PROVE UNCHANGED Stack!listed
    BY <2>1 DEF PushBegin, Stack!listed
  <2>2. CASE PushEnd(t)
    <3>1. arg[t] \in owned[t] /\ arg[t] \in Items
      BY <2>2, PushEndInv
    <3>2. Stack!Push(t, arg[t])
      BY <2>2, <3>1 DEF PushEnd, Stack!Push
    <3> QED BY <3>1, <3>2 DEF Stack!Next
  <2>3. CASE PopBegin(t)
    BY <2>3 DEF PopBegin, Stack!listed
  <2>4. CASE PopEnd(t)
    <3>1. CASE first[t] = Nil
      BY <2>4, <3>1 DEF PopEnd, Stack!listed
    <3>2. CASE first[t] # Nil
      <4>1. contents # <<>> /\ first[t] = contents[Len(contents)]
        BY <2>4, <3>2, PopEndInv
      <4>2. Stack!Pop(t)
        BY <2>4, <3>2, <4>1 DEF PopEnd, Stack!Pop, Stack!Last, Stack!Upto
      <4> QED BY <4>2 DEF Stack!Next
    <3> QED BY <3>1, <3>2
  <2>5. ASSUME NEW i \in Items \cup {Nil}, SwapBegin(t, i)
        PROVE  UNCHANGED Stack!listed
    BY <2>5 DEF SwapBegin, Stack!listed
  <2>6. CASE SwapEnd(t)
    <3>1. /\ taken[t] = <<>>
          /\ arg[t] # Nil => arg[t] \in owned[t] /\ arg[t] \in Items
      BY <2>6, SwapEndInv
    <3>2. CASE arg[t] = Nil
      <4>1. owned \in [Threads -> SUBSET Items] /\ Nil \notin Items
        BY NilIsNoItem DEF ListInv, ListTypes
      <4>2. owned' = owned
        BY <2>6, <3>2, <4>1 DEF SwapEnd
      <4>3. Stack!Swap(t, <<>>)
        BY <2>6, <3>1, <3>2, <4>2 DEF SwapEnd, Stack!Swap
      <4> QED BY <4>3 DEF Stack!Next
    <3>3. CASE arg[t] # Nil
      <4>1. Stack!Swap(t, <<arg[t]>>)
        BY <2>6, <3>1, <3>3 DEF SwapEnd, Stack!Swap
      <4> QED BY <3>1, <3>3, <4>1 DEF Stack!Next
    <3> QED BY <3>2, <3>3
  <2>7. CASE PrivatePop(t)
    <3>1. taken[t] # <<>> /\ private[t] = taken[t][Len(taken[t])]
      BY <2>7, PrivatePopInv
    <3>2. Stack!TakeOne(t)
      BY <2>7, <3>1 DEF PrivatePop, Stack!TakeOne, Stack!Last, Stack!Upto
    <3> QED BY <3>2 DEF Stack!Next
  <2> QED BY <1>2, <2>1, <2>2, <2>3, <2>4, <2>5, <2>6, <2>7 DEF ListStep
<1> QED BY <1>1, <1>2 DEF ListNext

(* The list that is changed with two swaps of its head implements the stack
   that each operation changes in one step. *)
THEOREM ListRefines == ListSpec => ListImplements
<1>1. ListSpec => [][Stack!Next]_Stack!listed
  BY ListInvariant, StepRefines, PTL DEF ListSpec
<1> QED BY <1>1, InitRefines, PTL DEF ListSpec, ListImplements, Stack!Spec

-----------------------------------------------------------------------------
(* The caches of pages *)

Carrying == {"push", "count", "gcCount"}
Lowering == {"push", "check", "gc", "gcPop", "gcCount"}
PageLocations == Carrying \cup Lowering \cup
                   {"idle", "lock", "repop", "block", "unlock"}

(* By how much a thread at this place makes the counter exceed the cache. *)
Weight(place) == IF place \in Carrying THEN 1 ELSE 0

PageTypes ==
  /\ cached \in SUBSET Pages
  /\ counter \in Int
  /\ pageAt \in [PageThreads -> PageLocations]
  /\ inUse \in [PageThreads -> SUBSET Pages]
  /\ extra \in [PageThreads -> SUBSET Pages]
  /\ hand \in [PageThreads -> Pages \cup {NoPage}]
  /\ floor \in [PageThreads -> 0..PageThreshold]

(* A thread carries a page where the counter is off by that page. *)
HandsFull == \A t \in PageThreads : hand[t] # NoPage <=> pageAt[t] \in Carrying

(* No page is in two places. *)
Apart ==
  /\ \A t \in PageThreads : /\ inUse[t] \cap cached = {}
                            /\ extra[t] \cap cached = {}
                            /\ inUse[t] \cap extra[t] = {}
                            /\ hand[t] \notin cached \cup inUse[t] \cup extra[t]
  /\ \A t, u \in PageThreads :
       t # u => /\ inUse[t] \cap inUse[u] = {}
                /\ extra[t] \cap extra[u] = {}
                /\ inUse[t] \cap extra[u] = {}
                /\ hand[t] \notin inUse[u] \cup extra[u]
                /\ hand[t] # NoPage => hand[t] # hand[u]

PageInv == PageTypes /\ HandsFull /\ Apart /\ CounterExact /\ CacheBounded

-----------------------------------------------------------------------------
(* Counting *)

LEMMA PlaceFacts ==
  /\ {"push", "count", "gcCount", "check", "gc", "gcPop", "idle", "lock",
      "repop", "block", "unlock"} \subseteq PageLocations
  /\ \A x \in {"push", "count", "gcCount"} : Weight(x) = 1
  /\ \A x \in {"check", "gc", "gcPop", "idle", "lock", "repop", "block",
               "unlock"} : Weight(x) = 0
BY DEF PageLocations, Carrying, Lowering, Weight

(* The cache and the set of carrying threads are finite. *)
LEMMA FiniteParts ==
  ASSUME PageInv
  PROVE  /\ IsFiniteSet(cached) /\ Cardinality(cached) \in Nat
         /\ IsFiniteSet(Moving) /\ Cardinality(Moving) \in Nat
<1>1. cached \subseteq Pages /\ Moving \subseteq PageThreads
  BY DEF PageInv, PageTypes, Moving
<1>2. IsFiniteSet(cached) /\ IsFiniteSet(Moving)
  BY <1>1, PagesAssumption, FS_Subset
<1> QED BY <1>2, FS_CardinalityType

(* What a step of one thread does to the number of carrying threads. *)
LEMMA MovingSteps ==
  ASSUME PageInv, NEW t \in PageThreads, NEW to \in PageLocations,
         pageAt' = [pageAt EXCEPT ![t] = to]
  PROVE  Cardinality(Moving') =
           Cardinality(Moving) + Weight(to) - Weight(pageAt[t])
<1>1. Moving = {u \in PageThreads : pageAt[u] \in Carrying}
  BY DEF Moving, Carrying
<1>2. Moving' = {u \in PageThreads : pageAt'[u] \in Carrying}
  BY DEF Moving, Carrying
<1>3. \A u \in PageThreads : pageAt'[u] = IF u = t THEN to ELSE pageAt[u]
  BY DEF PageInv, PageTypes
<1>4. IsFiniteSet(Moving) /\ Cardinality(Moving) \in Nat
  BY FiniteParts
<1>5. t \in Moving <=> pageAt[t] \in Carrying
  BY <1>1
<1>6. CASE to \in Carrying
  <2>1. Moving' = Moving \cup {t}
    BY <1>1, <1>2, <1>3, <1>6
  <2>2. Cardinality(Moving') = IF t \in Moving THEN Cardinality(Moving)
                               ELSE Cardinality(Moving) + 1
    BY <1>4, <2>1, FS_AddElement
  <2> QED BY <1>4, <1>5, <1>6, <2>2 DEF Weight
<1>7. CASE to \notin Carrying
  <2>1. Moving' = Moving \ {t}
    BY <1>1, <1>2, <1>3, <1>7
  <2>2. Cardinality(Moving') = IF t \in Moving THEN Cardinality(Moving) - 1
                               ELSE Cardinality(Moving)
    BY <1>4, <2>1, FS_RemoveElement
  <2> QED BY <1>4, <1>5, <1>7, <2>2 DEF Weight
<1> QED BY <1>6, <1>7

(* What pushing and popping does to the number of cached pages. *)
LEMMA CachedSteps ==
  ASSUME PageInv
  PROVE  /\ \A p : p \notin cached =>
              Cardinality(cached \cup {p}) = Cardinality(cached) + 1
         /\ \A p \in cached :
              Cardinality(cached \ {p}) = Cardinality(cached) - 1
<1>1. IsFiniteSet(cached)
  BY FiniteParts
<1>2. ASSUME NEW p, p \notin cached
      PROVE  Cardinality(cached \cup {p}) = Cardinality(cached) + 1
  BY <1>1, <1>2, FS_AddElement
<1>3. ASSUME NEW p \in cached
      PROVE  Cardinality(cached \ {p}) = Cardinality(cached) - 1
  BY <1>1, FS_RemoveElement
<1> QED BY <1>2, <1>3

(* The counter stays exact in a step that changes it by as much as the cache,
   but for the thread's going to or from a carrying place. *)
LEMMA CounterStep ==
  ASSUME PageInv, NEW t \in PageThreads, NEW to \in PageLocations,
         pageAt' = [pageAt EXCEPT ![t] = to],
         NEW c \in Int, c = Cardinality(cached'),
         counter' = counter + (c - Cardinality(cached))
                            + (Weight(to) - Weight(pageAt[t]))
  PROVE  CounterExact'
<1>1. counter = Cardinality(cached) + Cardinality(Moving)
  BY DEF PageInv, CounterExact
<1>2. Cardinality(Moving') =
        Cardinality(Moving) + Weight(to) - Weight(pageAt[t])
  BY MovingSteps
<1>3. Cardinality(cached) \in Nat /\ Cardinality(Moving) \in Nat
  BY FiniteParts
<1>4. Weight(to) \in Int /\ Weight(pageAt[t]) \in Int
  BY DEF Weight
<1>5. counter' = Cardinality(cached') + Cardinality(Moving')
  BY <1>1, <1>2, <1>3, <1>4
<1> QED BY <1>5 DEF CounterExact

(* The bound is kept by a step of a thread that goes on lowering, or was not
   lowering and leaves the cache no larger, or knows that it is small. *)
LEMMA BoundStep ==
  ASSUME PageInv, NEW t \in PageThreads, NEW to \in PageLocations,
         pageAt' = [pageAt EXCEPT ![t] = to],
         \/ to \in Lowering
         \/ /\ pageAt[t] \notin Lowering
            /\ Cardinality(cached') <= Cardinality(cached)
            /\ Cardinality(cached') \in Int
         \/ Cardinality(cached') <= PageThreshold
  PROVE  CacheBounded'
<1>1. /\ Reducing = {u \in PageThreads : pageAt[u] \in Lowering}
      /\ Reducing' = {u \in PageThreads : pageAt'[u] \in Lowering}
  BY DEF Reducing, Lowering
<1>2. \A u \in PageThreads : pageAt'[u] = IF u = t THEN to ELSE pageAt[u]
  BY DEF PageInv, PageTypes
<1>3. CASE to \in Lowering
  <2>1. t \in Reducing'
    BY <1>1, <1>2, <1>3
  <2> QED BY <2>1 DEF CacheBounded
<1>4. CASE pageAt[t] \notin Lowering /\ Cardinality(cached') <= Cardinality(cached)
           /\ Cardinality(cached') \in Int
  <2>1. Reducing' = {} => Reducing = {}
    BY <1>1, <1>2, <1>4
  <2>2. Cardinality(cached) \in Nat /\ PageThreshold \in Nat
    BY FiniteParts, ThresholdAssumption
  <2>3. Reducing' = {} => Cardinality(cached) <= PageThreshold
    BY <2>1 DEF PageInv, CacheBounded
  <2>4. Reducing' = {} => Cardinality(cached') <= PageThreshold
    BY <1>4, <2>2, <2>3
  <2> QED BY <2>4 DEF CacheBounded
<1>5. CASE Cardinality(cached') <= PageThreshold
  BY <1>5 DEF CacheBounded
<1> QED BY <1>3, <1>4, <1>5

(* Who reads a small counter knows that the cache is small. *)
LEMMA CounterBounds ==
  ASSUME PageInv, NEW n \in Int, counter <= n
  PROVE  Cardinality(cached) <= n
<1>1. counter = Cardinality(cached) + Cardinality(Moving)
  BY DEF PageInv, CounterExact
<1> QED BY <1>1, FiniteParts

LEMMA PageInitInv == PageInit => PageInv
<1> SUFFICES ASSUME PageInit PROVE PageInv
  OBVIOUS
<1>1. PageTypes
  BY ThresholdAssumption DEF PageInit, PageTypes, PageLocations
<1>2. HandsFull /\ Apart
  BY NoneAssumption DEF PageInit, HandsFull, Apart, Carrying
<1>3. Cardinality(cached) = 0 /\ Cardinality(Moving) = 0
  <2>1. cached = {} /\ Moving = {}
    BY DEF PageInit, Moving
  <2> QED BY <2>1, FS_EmptySet
<1>4. CounterExact /\ CacheBounded
  BY <1>3, ThresholdAssumption DEF PageInit, CounterExact, CacheBounded
<1> QED BY <1>1, <1>2, <1>4 DEF PageInv
-----------------------------------------------------------------------------
(* The steps *)

(* Where a thread goes when the page it freed is taken care of. *)
LEMMA FreedGoes ==
  ASSUME NEW t \in PageThreads, Freed(t)
  PROVE  \E to \in {"block", "idle"} : pageAt' = [pageAt EXCEPT ![t] = to]
BY DEF Freed

LEMMA FreeCountInv ==
  ASSUME PageInv, NEW t \in PageThreads, NEW p \in Pages, FreeCount(t, p)
  PROVE  PageInv'
<1>1. /\ pageAt[t] = "idle" /\ pageAt' = [pageAt EXCEPT ![t] = "push"]
      /\ p \in inUse[t]
      /\ counter' = counter + 1
      /\ inUse' = [inUse EXCEPT ![t] = @ \ {p}]
      /\ hand' = [hand EXCEPT ![t] = p]
      /\ UNCHANGED <<cached, extra, floor>>
  BY DEF FreeCount, Goto, Carry
<1>2. PageTypes'
  BY <1>1 DEF PageInv, PageTypes, PageLocations, Carrying
<1>3. HandsFull'
  BY <1>1, NoneAssumption DEF PageInv, PageTypes, HandsFull, Carrying
<1>4. Apart'
  <2>1. \A u \in PageThreads :
          /\ inUse'[u] = IF u = t THEN inUse[t] \ {p} ELSE inUse[u]
          /\ hand'[u] = IF u = t THEN p ELSE hand[u]
    BY <1>1 DEF PageInv, PageTypes
  <2>2. ASSUME NEW u \in PageThreads
        PROVE  /\ inUse'[u] \subseteq inUse[u]
               /\ p \notin cached \cup extra[u] \cup inUse'[u]
               /\ hand[u] # p
    BY <1>1, <2>1 DEF PageInv, Apart
  <2> QED BY <1>1, <2>1, <2>2 DEF PageInv, Apart
<1>5. CounterExact'
  <2>1. Cardinality(cached') = Cardinality(cached) /\ Cardinality(cached) \in Int
    BY <1>1, FiniteParts
  <2>2. /\ Weight("push") = 1 /\ Weight(pageAt[t]) = 0
        /\ "push" \in PageLocations /\ counter \in Int
    BY <1>1, PlaceFacts DEF PageInv, PageTypes
  <2>3. counter' = counter + (Cardinality(cached') - Cardinality(cached))
                           + (Weight("push") - Weight(pageAt[t]))
    BY <1>1, <2>1, <2>2
  <2> QED BY <1>1, <2>1, <2>2, <2>3, CounterStep
<1>6. CacheBounded'
  BY <1>1, BoundStep DEF PageLocations, Carrying, Lowering
<1> QED BY <1>2, <1>3, <1>4, <1>5, <1>6 DEF PageInv

(* A step that moves no page and does not touch the counter. *)
LEMMA StillStep ==
  ASSUME PageInv, NEW t \in PageThreads, NEW to \in PageLocations,
         pageAt' = [pageAt EXCEPT ![t] = to],
         UNCHANGED <<cached, counter, inUse, hand, extra>>,
         floor' \in [PageThreads -> 0..PageThreshold],
         to \notin Carrying, pageAt[t] \notin Carrying,
         \/ to \in Lowering
         \/ pageAt[t] \notin Lowering
         \/ Cardinality(cached) <= PageThreshold
  PROVE  PageInv'
<1>1. PageTypes'
  BY DEF PageInv, PageTypes
<1>2. HandsFull' /\ Apart'
  BY DEF PageInv, PageTypes, HandsFull, Apart
<1>3. CounterExact'
  <2>1. Cardinality(cached') = Cardinality(cached) /\ Cardinality(cached) \in Int
    BY FiniteParts
  <2>2. Weight(to) = 0 /\ Weight(pageAt[t]) = 0 /\ counter \in Int
    BY DEF Weight, PageInv, PageTypes
  <2>3. counter' = counter + (Cardinality(cached') - Cardinality(cached))
                           + (Weight(to) - Weight(pageAt[t]))
    BY <2>1, <2>2
  <2> QED BY <2>1, <2>3, CounterStep
<1>4. CacheBounded'
  <2>1. Cardinality(cached') = Cardinality(cached) /\ Cardinality(cached) \in Int
    BY FiniteParts
  <2>2. CASE to \in Lowering
    BY <2>2, BoundStep
  <2>3. CASE pageAt[t] \notin Lowering
    <3>1. Cardinality(cached') <= Cardinality(cached) /\ Cardinality(cached') \in Int
      BY <2>1
    <3> QED BY <2>3, <3>1, BoundStep
  <2>4. CASE Cardinality(cached) <= PageThreshold
    <3>1. Cardinality(cached') <= PageThreshold
      BY <2>1, <2>4
    <3> QED BY <3>1, BoundStep
  <2> QED BY <2>2, <2>3, <2>4
<1> QED BY <1>1, <1>2, <1>3, <1>4 DEF PageInv

(* A page taken off the list. *)
LEMMA TakeStep ==
  ASSUME PageInv, NEW t \in PageThreads, NEW to \in Carrying, NEW p \in cached,
         pageAt' = [pageAt EXCEPT ![t] = to],
         cached' = cached \ {p},
         hand' = [hand EXCEPT ![t] = p],
         UNCHANGED <<counter, inUse, extra, floor>>,
         pageAt[t] \notin Carrying,
         to \in Lowering \/ pageAt[t] \notin Lowering
  PROVE  PageInv'
<1>1. p \in Pages /\ p # NoPage /\ to \in PageLocations
  BY NoneAssumption DEF PageInv, PageTypes, PageLocations
<1>2. PageTypes'
  BY <1>1 DEF PageInv, PageTypes
<1>3. HandsFull'
  BY <1>1 DEF PageInv, PageTypes, HandsFull
<1>4. Apart'
  <2>1. \A u \in PageThreads : hand'[u] = IF u = t THEN p ELSE hand[u]
    BY DEF PageInv, PageTypes
  <2>2. \A u \in PageThreads : p \notin inUse[u] \cup extra[u] /\ p # hand[u]
    BY DEF PageInv, Apart
  <2> QED BY <2>1, <2>2 DEF PageInv, Apart
<1>5. /\ Cardinality(cached') = Cardinality(cached) - 1
      /\ Cardinality(cached) \in Nat
  BY CachedSteps, FiniteParts
<1>6. CounterExact'
  <2>1. Weight(to) = 1 /\ Weight(pageAt[t]) = 0 /\ counter \in Int
    BY DEF Weight, PageInv, PageTypes
  <2>2. counter' = counter + (Cardinality(cached') - Cardinality(cached))
                           + (Weight(to) - Weight(pageAt[t]))
    BY <1>5, <2>1
  <2>3. Cardinality(cached') \in Int
    BY <1>5
  <2> QED BY <1>1, <2>2, <2>3, CounterStep
<1>7. CacheBounded'
  <2>1. Cardinality(cached') <= Cardinality(cached) /\ Cardinality(cached') \in Int
    BY <1>5
  <2> QED BY <1>1, <2>1, BoundStep
<1> QED BY <1>2, <1>3, <1>4, <1>6, <1>7 DEF PageInv

LEMMA FreePushInv ==
  ASSUME PageInv, NEW t \in PageThreads, FreePush(t)
  PROVE  PageInv'
<1>1. /\ pageAt[t] = "push" /\ pageAt' = [pageAt EXCEPT ![t] = "check"]
      /\ cached' = cached \cup {hand[t]}
      /\ hand' = [hand EXCEPT ![t] = NoPage]
      /\ UNCHANGED <<counter, inUse, extra, floor>>
  BY DEF FreePush, Goto, Carry
<1>2. hand[t] \in Pages /\ hand[t] \notin cached
  BY <1>1 DEF PageInv, PageTypes, HandsFull, Apart, Carrying
<1>3. PageTypes'
  BY <1>1, <1>2 DEF PageInv, PageTypes, PageLocations, Lowering
<1>4. HandsFull'
  BY <1>1 DEF PageInv, PageTypes, HandsFull, Carrying
<1>5. Apart'
  <2>1. \A u \in PageThreads : hand'[u] = IF u = t THEN NoPage ELSE hand[u]
    BY <1>1 DEF PageInv, PageTypes
  <2>2. \A u \in PageThreads : /\ hand[t] \notin inUse[u] \cup extra[u]
                               /\ u # t => hand[u] # hand[t]
    BY <1>2, NoneAssumption DEF PageInv, Apart
  <2>3. \A u \in PageThreads : NoPage \notin cached \cup inUse[u] \cup extra[u]
    BY NoneAssumption DEF PageInv, PageTypes
  <2>4. NoPage # hand[t]
    BY <1>2, NoneAssumption
  <2>5. ASSUME NEW u \in PageThreads
        PROVE  /\ inUse[u] \cap cached' = {} /\ extra[u] \cap cached' = {}
               /\ hand'[u] \notin cached' \cup inUse[u] \cup extra[u]
    BY <1>1, <2>1, <2>2, <2>3, <2>4 DEF PageInv, Apart
  <2>6. ASSUME NEW u \in PageThreads, NEW v \in PageThreads, u # v
        PROVE  /\ hand'[u] \notin inUse[v] \cup extra[v]
               /\ hand'[u] # NoPage => hand'[u] # hand'[v]
    BY <2>1, <2>3, <2>6 DEF PageInv, Apart
  <2> QED BY <1>1, <2>5, <2>6 DEF PageInv, Apart
<1>6. Cardinality(cached') = Cardinality(cached) + 1 /\ Cardinality(cached) \in Nat
  BY <1>1, <1>2, CachedSteps, FiniteParts
<1>7. CounterExact'
  <2>1. /\ Weight("check") = 0 /\ Weight(pageAt[t]) = 1
        /\ "check" \in PageLocations /\ counter \in Int
    BY <1>1, PlaceFacts DEF PageInv, PageTypes
  <2>2. counter' = counter + (Cardinality(cached') - Cardinality(cached))
                           + (Weight("check") - Weight(pageAt[t]))
    BY <1>1, <1>6, <2>1
  <2>3. Cardinality(cached') \in Int
    BY <1>6
  <2> QED BY <1>1, <2>1, <2>2, <2>3, CounterStep
<1>8. CacheBounded'
  BY <1>1, BoundStep DEF PageLocations, Lowering
<1> QED BY <1>3, <1>4, <1>5, <1>7, <1>8 DEF PageInv

(* The page a thread carries leaves the cache's books. *)
LEMMA CountStep ==
  ASSUME PageInv, NEW t \in PageThreads, NEW to \in PageLocations,
         pageAt' = [pageAt EXCEPT ![t] = to],
         counter' = counter - 1,
         hand' = [hand EXCEPT ![t] = NoPage],
         \/ UNCHANGED inUse
         \/ inUse' = [inUse EXCEPT ![t] = @ \cup {hand[t]}],
         UNCHANGED <<cached, extra, floor>>,
         to \notin Carrying, pageAt[t] \in Carrying,
         to \in Lowering \/ pageAt[t] \notin Lowering
  PROVE  PageInv'
<1>1. hand[t] \in Pages /\ hand[t] # NoPage
  BY DEF PageInv, PageTypes, HandsFull
<1>2. PageTypes'
  BY <1>1 DEF PageInv, PageTypes
<1>3. HandsFull'
  BY DEF PageInv, PageTypes, HandsFull
<1>4. Apart'
  <2>1. \A u \in PageThreads :
          /\ hand'[u] = IF u = t THEN NoPage ELSE hand[u]
          /\ inUse'[u] \subseteq IF u = t THEN inUse[t] \cup {hand[t]} ELSE inUse[u]
    BY DEF PageInv, PageTypes
  <2>2. \A u \in PageThreads : /\ NoPage \notin cached \cup inUse'[u] \cup extra[u]
    BY <1>2, NoneAssumption DEF PageInv, PageTypes
  <2>3. ASSUME NEW u \in PageThreads
        PROVE  /\ inUse'[u] \cap cached = {} /\ inUse'[u] \cap extra[u] = {}
               /\ hand'[u] \notin cached \cup inUse'[u] \cup extra[u]
    BY <2>1, <2>2 DEF PageInv, Apart
  <2>4. ASSUME NEW u \in PageThreads, NEW v \in PageThreads, u # v
        PROVE  /\ inUse'[u] \cap inUse'[v] = {} /\ inUse'[u] \cap extra[v] = {}
               /\ hand'[u] \notin inUse'[v] \cup extra[v]
               /\ hand'[u] # NoPage => hand'[u] # hand'[v]
    <3>1. /\ hand[t] # NoPage
          /\ \A w \in PageThreads \ {t} : /\ hand[t] \notin inUse[w] \cup extra[w]
                                          /\ hand[t] # hand[w]
      BY <1>1 DEF PageInv, Apart
    <3>2. /\ inUse[u] \cap inUse[v] = {} /\ inUse[u] \cap extra[v] = {}
          /\ hand[u] \notin inUse[v] \cup extra[v]
          /\ hand[u] # NoPage => hand[u] # hand[v]
      BY <2>4 DEF PageInv, Apart
    <3>3. CASE u = t
      BY <2>1, <2>2, <2>4, <3>1, <3>2, <3>3
    <3>4. CASE v = t
      BY <2>1, <2>2, <2>4, <3>1, <3>2, <3>4
    <3>5. CASE u # t /\ v # t
      BY <2>1, <2>2, <2>4, <3>2, <3>5
    <3> QED BY <3>3, <3>4, <3>5
  <2> QED BY <2>3, <2>4 DEF PageInv, Apart
<1>5. Cardinality(cached') = Cardinality(cached) /\ Cardinality(cached) \in Nat
  BY FiniteParts
<1>6. CounterExact'
  <2>1. Weight(to) = 0 /\ Weight(pageAt[t]) = 1 /\ counter \in Int
    BY DEF Weight, PageInv, PageTypes
  <2>2. counter' = counter + (Cardinality(cached') - Cardinality(cached))
                           + (Weight(to) - Weight(pageAt[t]))
    BY <1>5, <2>1
  <2>3. Cardinality(cached') \in Int
    BY <1>5
  <2> QED BY <2>2, <2>3, CounterStep
<1>7. CacheBounded'
  <2>1. Cardinality(cached') <= Cardinality(cached) /\ Cardinality(cached') \in Int
    BY <1>5
  <2> QED BY <2>1, BoundStep
<1> QED BY <1>2, <1>3, <1>4, <1>6, <1>7 DEF PageInv

(* Pages that come from the system into the hands of a thread. *)
LEMMA FreshPages ==
  ASSUME PageInv, NEW p \in AtSystem
  PROVE  /\ p \in Pages /\ p \notin cached /\ p # NoPage
         /\ \A u \in PageThreads : p \notin inUse[u] \cup extra[u] /\ p # hand[u]
BY NoneAssumption DEF AtSystem

LEMMA AllocObjectInv ==
  ASSUME PageInv, NEW t \in PageThreads, AllocObject(t)
  PROVE  PageInv'
<1>1. PICK p \in AtSystem : inUse' = [inUse EXCEPT ![t] = @ \cup {p}]
  BY DEF AllocObject
<1>2. /\ pageAt[t] = "idle"
      /\ UNCHANGED <<cached, counter, pageAt, hand, extra, floor>>
  BY DEF AllocObject
<1>3. /\ p \in Pages /\ p \notin cached
      /\ \A u \in PageThreads : p \notin inUse[u] \cup extra[u] /\ p # hand[u]
  BY FreshPages
<1>4. PageTypes'
  BY <1>1, <1>2, <1>3 DEF PageInv, PageTypes
<1>5. HandsFull' /\ CounterExact' /\ CacheBounded'
  BY <1>2 DEF PageInv, HandsFull, CounterExact, CacheBounded, Moving, Reducing
<1>6. Apart'
  <2>1. \A u \in PageThreads :
          inUse'[u] = IF u = t THEN inUse[t] \cup {p} ELSE inUse[u]
    BY <1>1 DEF PageInv, PageTypes
  <2>2. ASSUME NEW u \in PageThreads
        PROVE  /\ inUse'[u] \cap cached = {} /\ inUse'[u] \cap extra[u] = {}
               /\ hand[u] \notin inUse'[u]
    BY <1>3, <2>1 DEF PageInv, Apart
  <2>3. ASSUME NEW u \in PageThreads, NEW v \in PageThreads, u # v
        PROVE  /\ inUse'[u] \cap inUse'[v] = {} /\ inUse'[u] \cap extra[v] = {}
               /\ hand[u] \notin inUse'[v]
    BY <1>3, <2>1, <2>3 DEF PageInv, Apart
  <2> QED BY <1>2, <2>2, <2>3 DEF PageInv, Apart
<1> QED BY <1>4, <1>5, <1>6 DEF PageInv

LEMMA AllocMapInv ==
  ASSUME PageInv, NEW t \in PageThreads, AllocMap(t)
  PROVE  PageInv'
<1>0. PICK p \in AtSystem : \E rest \in SUBSET (AtSystem \ {p}) :
        /\ inUse' = [inUse EXCEPT ![t] = @ \cup {p}]
        /\ extra' = [extra EXCEPT ![t] = rest]
  BY DEF AllocMap
<1>1. PICK rest \in SUBSET (AtSystem \ {p}) :
        /\ inUse' = [inUse EXCEPT ![t] = @ \cup {p}]
        /\ extra' = [extra EXCEPT ![t] = rest]
  BY <1>0
<1>2. /\ pageAt[t] = "repop" /\ pageAt' = [pageAt EXCEPT ![t] = "block"]
      /\ UNCHANGED <<cached, counter, hand, floor>>
  BY DEF AllocMap, Goto
<1>3. \A q \in rest \cup {p} :
        /\ q \in Pages /\ q \notin cached
        /\ \A u \in PageThreads : q \notin inUse[u] \cup extra[u] /\ q # hand[u]
  BY <1>1, FreshPages
<1>4. PageTypes'
  BY <1>1, <1>2, <1>3, PlaceFacts DEF PageInv, PageTypes
<1>5. HandsFull'
  BY <1>2 DEF PageInv, PageTypes, HandsFull, Carrying
<1>6. Apart'
  <2>1. \A u \in PageThreads :
          /\ inUse'[u] = IF u = t THEN inUse[t] \cup {p} ELSE inUse[u]
          /\ extra'[u] = IF u = t THEN rest ELSE extra[u]
    BY <1>1 DEF PageInv, PageTypes
  <2>2. ASSUME NEW u \in PageThreads
        PROVE  /\ inUse'[u] \cap cached = {} /\ inUse'[u] \cap extra'[u] = {}
               /\ extra'[u] \cap cached = {}
               /\ hand[u] \notin inUse'[u] \cup extra'[u]
    BY <1>1, <1>3, <2>1 DEF PageInv, Apart
  <2>3. ASSUME NEW u \in PageThreads, NEW v \in PageThreads, u # v
        PROVE  /\ inUse'[u] \cap inUse'[v] = {} /\ inUse'[u] \cap extra'[v] = {}
               /\ extra'[u] \cap extra'[v] = {}
               /\ hand[u] \notin inUse'[v] \cup extra'[v]
    <3>1. /\ inUse[u] \cap inUse[v] = {} /\ inUse[u] \cap extra[v] = {}
          /\ extra[u] \cap extra[v] = {} /\ hand[u] \notin inUse[v] \cup extra[v]
      BY <2>3 DEF PageInv, Apart
    <3>2. CASE u = t
      BY <1>3, <2>1, <2>3, <3>1, <3>2
    <3>3. CASE v = t
      BY <1>3, <2>1, <2>3, <3>1, <3>3
    <3>4. CASE u # t /\ v # t
      BY <2>1, <3>1, <3>4
    <3> QED BY <3>2, <3>3, <3>4
  <2> QED BY <1>2, <2>2, <2>3 DEF PageInv, Apart
<1>7. /\ Cardinality(cached') = Cardinality(cached) /\ Cardinality(cached) \in Nat
      /\ Cardinality(cached') \in Int
      /\ Cardinality(cached') <= Cardinality(cached)
  BY <1>2, FiniteParts
<1>8. CounterExact'
  <2>1. /\ Weight("block") = 0 /\ Weight(pageAt[t]) = 0
        /\ "block" \in PageLocations /\ counter \in Int
    BY <1>2, PlaceFacts DEF PageInv, PageTypes
  <2>2. counter' = counter + (Cardinality(cached') - Cardinality(cached))
                           + (Weight("block") - Weight(pageAt[t]))
    BY <1>2, <1>7, <2>1
  <2> QED BY <1>2, <1>7, <2>1, <2>2, CounterStep
<1>9. CacheBounded'
  <2>1. "block" \in PageLocations /\ pageAt[t] \notin Lowering
    BY <1>2, PlaceFacts DEF Lowering
  <2> QED BY <1>2, <1>7, <2>1, BoundStep
<1> QED BY <1>4, <1>5, <1>6, <1>8, <1>9 DEF PageInv

LEMMA BlockCountInv ==
  ASSUME PageInv, NEW t \in PageThreads, BlockCount(t)
  PROVE  PageInv'
<1>1. PICK p \in extra[t] : /\ extra' = [extra EXCEPT ![t] = @ \ {p}]
                            /\ hand' = [hand EXCEPT ![t] = p]
  BY DEF BlockCount, Carry
<1>2. /\ pageAt[t] = "block" /\ pageAt' = [pageAt EXCEPT ![t] = "push"]
      /\ counter' = counter + 1
      /\ UNCHANGED <<cached, inUse, floor>>
  BY DEF BlockCount, Goto
<1>3. p \in Pages /\ p # NoPage
  BY NoneAssumption DEF PageInv, PageTypes
<1>4. PageTypes'
  BY <1>1, <1>2, <1>3, PlaceFacts DEF PageInv, PageTypes
<1>5. HandsFull'
  BY <1>1, <1>2, <1>3 DEF PageInv, PageTypes, HandsFull, Carrying
<1>6. Apart'
  <2>1. \A u \in PageThreads :
          /\ extra'[u] = IF u = t THEN extra[t] \ {p} ELSE extra[u]
          /\ hand'[u] = IF u = t THEN p ELSE hand[u]
    BY <1>1 DEF PageInv, PageTypes
  <2>2. ASSUME NEW u \in PageThreads
        PROVE  /\ extra'[u] \subseteq extra[u] /\ p \notin extra'[u]
               /\ p \notin cached /\ p \notin inUse[u] /\ p # hand[u]
    BY <1>1, <2>1 DEF PageInv, Apart
  <2> QED BY <1>2, <2>1, <2>2 DEF PageInv, Apart
<1>7. /\ Cardinality(cached') = Cardinality(cached) /\ Cardinality(cached) \in Nat
      /\ Cardinality(cached') \in Int
  BY <1>2, FiniteParts
<1>8. CounterExact'
  <2>1. /\ Weight("push") = 1 /\ Weight(pageAt[t]) = 0
        /\ "push" \in PageLocations /\ counter \in Int
    BY <1>2, PlaceFacts DEF PageInv, PageTypes
  <2>2. counter' = counter + (Cardinality(cached') - Cardinality(cached))
                           + (Weight("push") - Weight(pageAt[t]))
    BY <1>2, <1>7, <2>1
  <2> QED BY <1>2, <1>7, <2>1, <2>2, CounterStep
<1>9. CacheBounded'
  BY <1>2, BoundStep DEF PageLocations, Lowering
<1> QED BY <1>4, <1>5, <1>6, <1>8, <1>9 DEF PageInv

LEMMA PageStepInv ==
  ASSUME PageInv, NEW t \in PageThreads, PageStep(t)
  PROVE  PageInv'
<1>1. ThresholdAssumption /\ floor \in [PageThreads -> 0..PageThreshold]
  BY ThresholdAssumption DEF PageInv, PageTypes
<1>2. CASE FreeCheck(t)
  <2>1. /\ pageAt[t] = "check"
        /\ UNCHANGED <<cached, counter, inUse, hand, extra>>
    BY <1>2 DEF FreeCheck
  <2>2. CASE counter > PageThreshold
    <3>1. pageAt' = [pageAt EXCEPT ![t] = "gc"]
      BY <1>2, <2>2 DEF FreeCheck
    <3>2. PageThreshold \div 2 \in 0..PageThreshold
      BY <1>1 DEF ThresholdAssumption
    <3>3. floor' \in [PageThreads -> 0..PageThreshold]
      BY <1>1, <1>2, <2>2, <3>2 DEF FreeCheck
    <3> QED BY <2>1, <3>1, <3>3, StillStep DEF PageLocations, Carrying, Lowering
  <2>3. CASE ~(counter > PageThreshold)
    <3>1. PICK to \in {"block", "idle"} : pageAt' = [pageAt EXCEPT ![t] = to]
      BY <1>2, <2>3, FreedGoes DEF FreeCheck
    <3>2. floor' \in [PageThreads -> 0..PageThreshold]
      BY <1>1, <1>2, <2>3 DEF FreeCheck
    <3>3. counter <= PageThreshold /\ PageThreshold \in Int
      BY <1>1, <2>3 DEF ThresholdAssumption, PageInv, PageTypes
    <3>4. Cardinality(cached) <= PageThreshold
      BY <3>3, CounterBounds
    <3>5. to \in PageLocations /\ to \notin Carrying /\ "check" \notin Carrying
      BY DEF PageLocations, Carrying
    <3> QED BY <2>1, <3>1, <3>2, <3>4, <3>5, StillStep
  <2> QED BY <2>2, <2>3
<1>3. CASE Collect(t)
  <2>1. /\ pageAt[t] = "idle" /\ pageAt' = [pageAt EXCEPT ![t] = "gc"]
        /\ UNCHANGED <<cached, counter, inUse, hand, extra>>
    BY <1>3 DEF Collect, Goto
  <2>2. floor' \in [PageThreads -> 0..PageThreshold]
    BY <1>1, <1>3 DEF Collect, ThresholdAssumption
  <2> QED BY <2>1, <2>2, StillStep DEF PageLocations, Carrying, Lowering
<1>4. CASE GcLook(t)
  <2>1. /\ pageAt[t] = "gc"
        /\ UNCHANGED <<cached, counter, inUse, hand, extra, floor>>
    BY <1>4 DEF GcLook
  <2>2. CASE counter > floor[t]
    <3>1. pageAt' = [pageAt EXCEPT ![t] = "gcPop"]
      BY <1>4, <2>2 DEF GcLook
    <3> QED BY <1>1, <2>1, <3>1, StillStep DEF PageLocations, Carrying, Lowering
  <2>3. CASE ~(counter > floor[t])
    <3>1. PICK to \in {"block", "idle"} : pageAt' = [pageAt EXCEPT ![t] = to]
      BY <1>4, <2>3, FreedGoes DEF GcLook
    <3>2. counter <= PageThreshold /\ PageThreshold \in Int
      BY <1>1, <2>3 DEF ThresholdAssumption, PageInv, PageTypes
    <3>3. Cardinality(cached) <= PageThreshold
      BY <3>2, CounterBounds
    <3>4. to \in PageLocations /\ to \notin Carrying /\ "gc" \notin Carrying
      BY DEF PageLocations, Carrying
    <3> QED BY <1>1, <2>1, <3>1, <3>3, <3>4, StillStep
  <2> QED BY <2>2, <2>3
<1>5. CASE GcPop(t)
  <2>1. pageAt[t] = "gcPop" /\ UNCHANGED <<counter, inUse, extra, floor>>
    BY <1>5 DEF GcPop
  <2>2. CASE cached = {} /\ Freed(t) /\ UNCHANGED <<cached, hand>>
    <3>1. PICK to \in {"block", "idle"} : pageAt' = [pageAt EXCEPT ![t] = to]
      BY <2>2, FreedGoes
    <3>2. Cardinality(cached) <= PageThreshold
      BY <1>1, <2>2, FS_EmptySet DEF ThresholdAssumption
    <3>3. to \in PageLocations /\ to \notin Carrying /\ "gcPop" \notin Carrying
      BY DEF PageLocations, Carrying
    <3> QED BY <1>1, <2>1, <2>2, <3>1, <3>2, <3>3, StillStep
  <2>3. ASSUME NEW p \in cached, cached' = cached \ {p}, Carry(t, p),
               pageAt' = [pageAt EXCEPT ![t] = "gcCount"]
        PROVE  PageInv'
    <3>1. hand' = [hand EXCEPT ![t] = p]
      BY <2>3 DEF Carry
    <3>2. /\ "gcCount" \in Carrying /\ "gcCount" \in Lowering
          /\ "gcPop" \notin Carrying
      BY DEF Carrying, Lowering
    <3> QED BY <2>1, <2>3, <3>1, <3>2, TakeStep
  <2> QED BY <1>5, <2>2, <2>3 DEF GcPop
<1>6. CASE GcCount(t)
  <2>1. /\ pageAt[t] = "gcCount" /\ pageAt' = [pageAt EXCEPT ![t] = "gc"]
        /\ counter' = counter - 1
        /\ hand' = [hand EXCEPT ![t] = NoPage]
        /\ UNCHANGED <<inUse, cached, extra, floor>>
    BY <1>6 DEF GcCount, Goto, Carry
  <2> QED BY <2>1, CountStep DEF PageLocations, Carrying, Lowering
<1>7. CASE AllocPop(t)
  <2>1. PICK p \in cached : cached' = cached \ {p} /\ hand' = [hand EXCEPT ![t] = p]
    BY <1>7 DEF AllocPop, Carry
  <2>2. /\ pageAt[t] \in {"idle", "repop"}
        /\ pageAt' = [pageAt EXCEPT ![t] = "count"]
        /\ UNCHANGED <<counter, inUse, extra, floor>>
    BY <1>7 DEF AllocPop, Goto
  <2>3. "count" \in Carrying /\ pageAt[t] \notin Carrying \cup Lowering
    BY <2>2 DEF Carrying, Lowering
  <2> QED BY <2>1, <2>2, <2>3, TakeStep
<1>8. CASE AllocCount(t)
  <2>1. PICK to \in {"unlock", "idle"} : pageAt' = [pageAt EXCEPT ![t] = to]
    BY <1>8 DEF AllocCount, Goto
  <2>2. /\ pageAt[t] = "count"
        /\ counter' = counter - 1
        /\ hand' = [hand EXCEPT ![t] = NoPage]
        /\ inUse' = [inUse EXCEPT ![t] = @ \cup {hand[t]}]
        /\ UNCHANGED <<cached, extra, floor>>
    BY <1>8 DEF AllocCount, Goto, Carry
  <2>3. /\ to \in PageLocations /\ to \notin Carrying
        /\ pageAt[t] \in Carrying /\ pageAt[t] \notin Lowering
    BY <2>2 DEF PageLocations, Carrying, Lowering
  <2> QED BY <2>1, <2>2, <2>3, CountStep
<1>9. ASSUME NEW from \in {"idle", "lock", "block", "unlock"}, pageAt[t] = from,
             NEW to \in {"lock", "repop", "unlock", "idle"},
             pageAt' = [pageAt EXCEPT ![t] = to],
             UNCHANGED <<cached, counter, inUse, hand, extra, floor>>
      PROVE  PageInv'
  <2>1. /\ to \in PageLocations /\ to \notin Carrying
        /\ pageAt[t] \notin Carrying \cup Lowering
    BY <1>9 DEF PageLocations, Carrying, Lowering
  <2> QED BY <1>1, <1>9, <2>1, StillStep
<1>10. CASE AllocWait(t)
  BY <1>9, <1>10 DEF AllocWait, Goto
<1>11. CASE AllocLock(t)
  BY <1>9, <1>11 DEF AllocLock, Goto
<1>12. CASE BlockDone(t)
  BY <1>9, <1>12 DEF BlockDone, Goto
<1>13. CASE AllocUnlock(t)
  BY <1>9, <1>13 DEF AllocUnlock, Goto
<1>14. ASSUME NEW p \in Pages, FreeCount(t, p) PROVE PageInv'
  BY <1>14, FreeCountInv
<1>15. CASE FreePush(t) \/ AllocObject(t) \/ AllocMap(t) \/ BlockCount(t)
  BY <1>15, FreePushInv, AllocObjectInv, AllocMapInv, BlockCountInv
<1> QED BY <1>2, <1>3, <1>4, <1>5, <1>6, <1>7, <1>8, <1>10, <1>11, <1>12, <1>13,
           <1>14, <1>15 DEF PageStep

LEMMA PageStutter == PageInv /\ UNCHANGED pageVars => PageInv'
BY DEF PageInv, PageTypes, HandsFull, Apart, CounterExact, CacheBounded, Moving,
       Reducing, pageVars

LEMMA PageInvHolds == PageSpec => []PageInv
<1>1. PageInv /\ [PageNext]_pageVars => PageInv'
  BY PageStepInv, PageStutter DEF PageNext
<1> QED BY <1>1, PageInitInv, PTL DEF PageSpec

(* The counter differs from the length of the list by the threads that are
   between a change of the one and the change of the other: it does not wrap. *)
THEOREM CounterAlwaysExact == PageSpec => []CounterExact
BY PageInvHolds, PTL DEF PageInv

(* When nobody frees, no cache is above its threshold. *)
THEOREM CacheAlwaysBounded == PageSpec => []CacheBounded
BY PageInvHolds, PTL DEF PageInv

-----------------------------------------------------------------------------
(* Nodes and their pages *)

NodeThreads == NodeWorkers \cup {Servant}
WorkPlaces  == {"idle", "run", "page", "link", "lock", "made", "delete", "free"}
SlotItem == [what : {"slot"}, node : NodePlaces, time : Nat]
PageItem == [what : {"page"}, page : VPages, time : Nat]
PoolItem == [page : VPages, time : Nat]

NodeTypes ==
  /\ clock \in Nat \ {0}
  /\ blocks \in Seq(VPages)
  /\ freeSlots \in [VPages -> SUBSET Slots]
  /\ used \in [VPages -> Int]
  /\ live \in SUBSET NodePlaces
  /\ lockOf \in [NodePlaces -> NodeWorkers \cup {Open}]
  /\ lockVer \in [NodePlaces -> Nat]
  /\ pool \in Seq(PoolItem)
  /\ poolCount \in Int
  /\ slowRounds \in Nat
  /\ workAt \in [NodeWorkers -> WorkPlaces]
  /\ workStart \in [NodeWorkers -> Nat]
  /\ workNode \in [NodeWorkers -> NodePlaces \cup {NoNode}]
  /\ workFree \in [NodeThreads -> {NoFree} \cup SlotItem \cup PageItem]
  /\ doomed \in Seq(SlotItem)
  /\ nodeGcTime \in [NodeThreads -> Nat]
  /\ readStart \in Nat
  /\ readNode \in NodePlaces \cup {NoNode}
  /\ recycled \in BOOLEAN
  /\ lastDeath \in [VPages -> Nat]
  /\ early \in BOOLEAN

(* Where a page is: in the list, in the pool, with a worker that has set it up,
   with a thread that gives it back; ... *)
InList(p)    == \E k \in 1 .. Len(blocks) : blocks[k] = p
Pooled(p)    == \E k \in 1 .. Len(pool) : pool[k].page = p
Linked(w, p) == workAt[w] = "link" /\ workNode[w][1] = p
Dropped(t, p)  == workFree[t].what = "page" /\ workFree[t].page = p

(* ... and who has a node: a worker that has taken its slot, one that has made it
   or deletes it, a thread that frees it, the list of the service thread. *)
Taken(w, n)   == workAt[w] = "lock" /\ workNode[w] = n
Making(w, n)  == workAt[w] = "made" /\ workNode[w] = n
Killing(w, n) == workAt[w] = "delete" /\ workNode[w] = n
Freeing(t, n) == workFree[t].what = "slot" /\ workFree[t].node = n
Doomed(n)     == \E k \in 1 .. Len(doomed) : doomed[k].node = n

(* Where a worker can be with what it has. *)
WorkersFit ==
  /\ \A w \in NodeWorkers :
       /\ workAt[w] \in {"idle", "run", "page"} <=> workNode[w] = NoNode
       /\ workFree[w] # NoFree \/ nodeGcTime[w] # 0 => workAt[w] = "free"
       /\ workAt[w] # "idle" => workStart[w] # 0
  /\ \A w \in NodeWorkers : \A n \in NodePlaces :
       Making(w, n) \/ Killing(w, n) => n \in live /\ ~Doomed(n) /\ lockOf[n] = w

(* A page is in one of these places, or it is of the system. *)
PagesApart ==
  /\ \A j, k \in 1 .. Len(blocks) : blocks[j] = blocks[k] => j = k
  /\ \A j, k \in 1 .. Len(pool) : pool[j].page = pool[k].page => j = k
  /\ \A p \in VPages :
       /\ ~(InList(p) /\ Pooled(p))
       /\ \A w \in NodeWorkers : Linked(w, p) =>
            /\ ~InList(p) /\ ~Pooled(p)
            /\ \A t \in NodeThreads : ~Dropped(t, p)
            /\ \A v \in NodeWorkers : Linked(v, p) => v = w
       /\ \A t \in NodeThreads : Dropped(t, p) =>
            /\ ~InList(p) /\ ~Pooled(p)
            /\ \A u \in NodeThreads : Dropped(u, p) => u = t

(* A slot that is not free of a page in the list. *)
Sits(n) == InList(n[1]) /\ n[2] \notin freeSlots[n[1]]

(* Every node has its slot to itself, while it is being created, while it has an
   id and while it is being freed. *)
NodesSit ==
  \A n \in NodePlaces :
    /\ n \in live => Sits(n)
    /\ \A w \in NodeWorkers : Taken(w, n) =>
         /\ Sits(n) /\ n \notin live
         /\ \A v \in NodeWorkers : Taken(v, n) => v = w
         /\ \A t \in NodeThreads : ~Freeing(t, n)
    /\ \A t \in NodeThreads : Freeing(t, n) =>
         /\ Sits(n) /\ n \notin live
         /\ \A u \in NodeThreads : Freeing(u, n) => u = t

(* The counter of a page, so that who frees the last node of a page knows it. *)
UsedFits ==
  /\ \A p \in VPages : InList(p) => used[p] = Cardinality(Slots \ freeSlots[p])
  /\ \A w \in NodeWorkers : \A p \in VPages : Linked(w, p) =>
       freeSlots[p] = Slots \ {workNode[w][2]} /\ used[p] = 1

(* Full pages come first. *)
Sorted(s, slots) ==
  \A i, j \in 1 .. Len(s) : i < j /\ slots[s[i]] # {} => slots[s[j]] # {}
RoomSorted == Sorted(blocks, freeSlots)

(* The service thread gets every node once. *)
DoomedFit ==
  /\ \A k \in 1 .. Len(doomed) : doomed[k].node \in live
  /\ \A j, k \in 1 .. Len(doomed) : doomed[j].node = doomed[k].node => j = k

TimesFit ==
  /\ readStart <= clock
  /\ \A w \in NodeWorkers : workStart[w] <= clock /\ nodeGcTime[w] <= clock
  /\ readStart = 0 => readNode = NoNode
  /\ readNode = NoNode => ~recycled

(* What a reader has found: as long as its check succeeds the node is there;
   when it is not, a commit has deleted it, and its page waits for the reader to
   end.  A collection that does not wait for the reader has started before it. *)
Unmade(n)  == \A w \in NodeWorkers : ~Making(w, n)
Waiting(p) == InList(p) \/ Pooled(p) \/ \E t \in NodeThreads : Dropped(t, p)
ReaderSafe ==
  \A n \in NodePlaces : readNode = n =>
    /\ Readable(n) => n \in live /\ ~Doomed(n)
    /\ (n \in live /\ ~Doomed(n) /\ Unmade(n)) \/ lastDeath[n[1]] > readStart
    /\ Waiting(n[1])
    /\ \A k \in 1 .. Len(pool) : pool[k].page = n[1] => pool[k].time > readStart
    /\ ~recycled
GcWaits ==
  \A t \in NodeThreads : readStart # 0 /\ nodeGcTime[t] > readStart =>
    t = Servant /\ \A n \in NodePlaces : readNode = n => n \in live /\ Unmade(n)

NodeInv ==
  /\ NodeTypes /\ WorkersFit /\ PagesApart /\ NodesSit /\ UsedFits /\ RoomSorted
  /\ DoomedFit /\ TimesFit /\ GcWaits /\ (early \/ ReaderSafe) /\ PoolDrift

-----------------------------------------------------------------------------
(* Sequences *)

(* The least number of a set that is not empty is what CHOOSE finds. *)
LEMMA LeastChosen ==
  ASSUME NEW W, W \subseteq Nat, NEW e \in W
  PROVE  /\ (CHOOSE j \in W : \A k \in W : j <= k) \in W
         /\ \A k \in W : (CHOOSE j \in W : \A k2 \in W : j <= k2) <= k
<1>1. \E j \in W : \A k \in W : <<k, j>> \notin OpToRel(<, Nat)
  BY NatLessThanWellFounded, WFMin
<1>2. PICK j \in W : \A k \in W : <<k, j>> \notin OpToRel(<, Nat)
  BY <1>1
<1>3. \A k \in W : ~(k < j)
  BY <1>2 DEF OpToRel
<1>4. \A k \in W : j <= k
  BY <1>3
<1> QED
  BY <1>4

(* r is s without its i-th element. *)
GoesOn(S, s, i, r) ==
  /\ r \in Seq(S) /\ Len(r) = Len(s) - 1
  /\ \A j \in 1 .. i - 1 : r[j] = s[j]
  /\ \A j \in i .. Len(s) - 1 : r[j] = s[j + 1]

(* list_rem: the sequence goes on without the page. *)
LEMMA RemovedIs ==
  ASSUME NEW S, NEW s \in Seq(S), NEW i \in 1 .. Len(s), NEW p, s[i] = p,
         \A j, k \in 1 .. Len(s) : s[j] = s[k] => j = k
  PROVE  GoesOn(S, s, i, RemoveFirst(s, p))
<1> DEFINE a == SubSeq(s, 1, i - 1)
           b == SubSeq(s, i + 1, Len(s))
<1>1. SelectInSeq(s, LAMBDA v : v = p) = i
  <2> DEFINE W == {k \in 1 .. Len(s) : s[k] = p}
  <2>1. SelectInSeq(s, LAMBDA v : v = p) = IF W # {} THEN Min(W) ELSE 0
    BY DEF SelectInSeq
  <2>2. W = {i}
    OBVIOUS
  <2>3. Min({i}) = i
    BY DEF Min
  <2> HIDE DEF W
  <2> QED
    BY <2>1, <2>2, <2>3
<1>2. RemoveFirst(s, p) = a \o b
  BY <1>1 DEF RemoveFirst, RemoveAt
<1>3. a \in Seq(S) /\ Len(a) = i - 1 /\ \A j \in 1 .. i - 1 : a[j] = s[j]
  OBVIOUS
<1>4. b \in Seq(S) /\ Len(b) = Len(s) - i /\ \A j \in 1 .. Len(s) - i : b[j] = s[i + j]
  OBVIOUS
<1> HIDE DEF a, b
<1>5. a \o b \in Seq(S) /\ Len(a \o b) = Len(s) - 1
  BY <1>3, <1>4, ConcatProperties
<1>6. ASSUME NEW j \in 1 .. i - 1 PROVE (a \o b)[j] = s[j]
  BY <1>3, <1>4, ConcatProperties
<1>7. ASSUME NEW j \in i .. Len(s) - 1 PROVE (a \o b)[j] = s[j + 1]
  <2>1. (a \o b)[j] = b[j - Len(a)]
    BY <1>3, <1>4, ConcatProperties
  <2>2. j - (i - 1) \in 1 .. Len(s) - i /\ i + (j - (i - 1)) = j + 1
    OBVIOUS
  <2> QED
    BY <1>3, <1>4, <2>1, <2>2
<1> QED
  BY <1>2, <1>5, <1>6, <1>7 DEF GoesOn

(* The members of r are those of s but for p. *)
Without(S, s, p, r) ==
  /\ r \in Seq(S)
  /\ \A j, k \in 1 .. Len(r) : r[j] = r[k] => j = k
  /\ \A x : (\E k \in 1 .. Len(r) : r[k] = x) <=> x # p /\ \E k \in 1 .. Len(s) : s[k] = x

(* What it has lost is the page, ... *)
LEMMA RemovedMembers ==
  ASSUME NEW S, NEW s \in Seq(S), NEW p,
         \A j, k \in 1 .. Len(s) : s[j] = s[k] => j = k,
         \E k \in 1 .. Len(s) : s[k] = p
  PROVE  Without(S, s, p, RemoveFirst(s, p))
<1>1. PICK i \in 1 .. Len(s) : s[i] = p
  OBVIOUS
<1> DEFINE r == RemoveFirst(s, p)
           from(j) == IF j < i THEN j ELSE j + 1
<1>2. GoesOn(S, s, i, r)
  BY <1>1, RemovedIs
<1>3. /\ r \in Seq(S) /\ Len(r) = Len(s) - 1
      /\ \A j \in 1 .. i - 1 : r[j] = s[j]
      /\ \A j \in i .. Len(s) - 1 : r[j] = s[j + 1]
  BY <1>2 DEF GoesOn
<1> HIDE DEF r
<1>4. \A j \in 1 .. Len(r) : from(j) \in (1 .. Len(s)) \ {i} /\ r[j] = s[from(j)] /\ r[j] # p
  BY <1>1, <1>3
<1>5. \A j, k \in 1 .. Len(r) : from(j) = from(k) => j = k
  BY <1>3
<1>6. \A k \in (1 .. Len(s)) \ {i} : \E j \in 1 .. Len(r) : from(j) = k
  <2> TAKE k \in (1 .. Len(s)) \ {i}
  <2>1. CASE k < i
    <3>1. k \in 1 .. Len(r) /\ from(k) = k
      BY <1>3, <2>1
    <3> QED
      BY <3>1
  <2>2. CASE k > i
    <3>1. k - 1 \in 1 .. Len(r) /\ from(k - 1) = k
      BY <1>3, <2>2
    <3> QED
      BY <3>1
  <2> QED
    BY <2>1, <2>2
<1> HIDE DEF from
<1>7. \A j, k \in 1 .. Len(r) : r[j] = r[k] => j = k
  BY <1>4, <1>5
<1>8. \A x : (\E k \in 1 .. Len(r) : r[k] = x) => x # p /\ \E k \in 1 .. Len(s) : s[k] = x
  BY <1>4
<1>9. ASSUME NEW x, x # p, NEW k \in 1 .. Len(s), s[k] = x
      PROVE  \E j \in 1 .. Len(r) : r[j] = x
  BY <1>1, <1>4, <1>6, <1>9
<1> QED
  BY <1>3, <1>7, <1>8, <1>9 DEF Without, r

(* ... and the order stays. *)
LEMMA RemovedSorted ==
  ASSUME NEW S, NEW s \in Seq(S), NEW p, NEW f, NEW g,
         \A j, k \in 1 .. Len(s) : s[j] = s[k] => j = k,
         \E k \in 1 .. Len(s) : s[k] = p,
         Sorted(s, f), \A x \in S \ {p} : g[x] = f[x]
  PROVE  Sorted(RemoveFirst(s, p), g)
<1>1. PICK i \in 1 .. Len(s) : s[i] = p
  OBVIOUS
<1> DEFINE r == RemoveFirst(s, p)
           from(j) == IF j < i THEN j ELSE j + 1
<1>2. GoesOn(S, s, i, r)
  BY <1>1, RemovedIs
<1>3. /\ Len(r) = Len(s) - 1
      /\ \A j \in 1 .. i - 1 : r[j] = s[j]
      /\ \A j \in i .. Len(s) - 1 : r[j] = s[j + 1]
  BY <1>2 DEF GoesOn
<1> HIDE DEF r
<1>5. \A j \in 1 .. Len(r) : from(j) \in 1 .. Len(s) /\ r[j] = s[from(j)] /\ r[j] \in S \ {p}
  BY <1>1, <1>3
<1>6. \A j, k \in 1 .. Len(r) : j < k => from(j) < from(k)
  BY <1>3
<1> HIDE DEF from
<1>7. ASSUME NEW j \in 1 .. Len(r), NEW k \in 1 .. Len(r), j < k, g[r[j]] # {}
      PROVE  g[r[k]] # {}
  <2>1. /\ from(j) \in 1 .. Len(s) /\ from(k) \in 1 .. Len(s) /\ from(j) < from(k)
        /\ r[j] = s[from(j)] /\ r[k] = s[from(k)] /\ r[j] \in S \ {p} /\ r[k] \in S \ {p}
    BY <1>5, <1>6, <1>7
  <2> QED
    BY <1>7, <2>1 DEF Sorted
<1> QED
  BY <1>7 DEF Sorted, r

(* The sequence has the same members, each once. *)
Rearranged(S, s, t) ==
  /\ t \in Seq(S)
  /\ \A j, k \in 1 .. Len(t) : t[j] = t[k] => j = k
  /\ \A x : (\E k \in 1 .. Len(t) : t[k] = x) <=> (\E k \in 1 .. Len(s) : s[k] = x)

(* list_add_begin of a page that has no free slot. *)
LEMMA SwappedParts ==
  ASSUME NEW S, NEW s \in Seq(S), NEW p \in S, NEW f, NEW g,
         \A j, k \in 1 .. Len(s) : s[j] = s[k] => j = k,
         \E k \in 1 .. Len(s) : s[k] = p,
         Sorted(s, f), \A x \in S \ {p} : g[x] = f[x], g[p] = {}
  PROVE  Rearranged(S, s, Swapped(p, s)) /\ Sorted(Swapped(p, s), g)
<1> DEFINE q == RemoveFirst(s, p)
           t == Swapped(p, s)
<1>11. Without(S, s, p, q)
  BY RemovedMembers
<1>1. q \in Seq(S) /\ \A j, k \in 1 .. Len(q) : q[j] = q[k] => j = k
  BY <1>11 DEF Without
<1>2. \A x : (\E k \in 1 .. Len(q) : q[k] = x) <=> x # p /\ \E k \in 1 .. Len(s) : s[k] = x
  BY <1>11 DEF Without
<1>3. Sorted(q, g)
  BY RemovedSorted
<1>4. t = <<p>> \o q
  BY DEF Swapped
<1> HIDE DEF q, t
<1>5. /\ t \in Seq(S) /\ Len(t) = Len(q) + 1 /\ t[1] = p /\ Len(q) \in Nat
      /\ \A k \in 2 .. Len(t) : k - 1 \in 1 .. Len(q) /\ t[k] = q[k - 1]
  BY <1>1, <1>4
<1>6. \A k \in 1 .. Len(q) : k + 1 \in 1 .. Len(t) /\ t[k + 1] = q[k] /\ q[k] # p
  <2>1. \A k \in 1 .. Len(q) : k + 1 \in 2 .. Len(t) /\ (k + 1) - 1 = k
    BY <1>5
  <2>2. \A k \in 1 .. Len(q) : q[k] # p
    BY <1>2
  <2> QED
    BY <1>5, <2>1, <2>2
<1>7. \A k \in 1 .. Len(t) : k # 1 => k \in 2 .. Len(t)
  BY <1>5
<1>8. ASSUME NEW j \in 1 .. Len(t), NEW k \in 1 .. Len(t), t[j] = t[k]
      PROVE  j = k
  <2>1. \A i \in 2 .. Len(t) : t[i] # p
    BY <1>5, <1>6
  <2>2. CASE j = 1 \/ k = 1
    BY <1>5, <1>7, <1>8, <2>1, <2>2
  <2>3. CASE j # 1 /\ k # 1
    <3>1. /\ j - 1 \in 1 .. Len(q) /\ t[j] = q[j - 1]
          /\ k - 1 \in 1 .. Len(q) /\ t[k] = q[k - 1]
      BY <1>5, <1>7, <2>3
    <3>2. j - 1 = k - 1
      BY <1>1, <1>8, <3>1
    <3> QED
      BY <3>2
  <2> QED
    BY <2>2, <2>3
<1>9. ASSUME NEW x
      PROVE  (\E k \in 1 .. Len(t) : t[k] = x) <=> (\E k \in 1 .. Len(s) : s[k] = x)
  <2>1. ASSUME NEW k \in 1 .. Len(t), t[k] = x PROVE \E i \in 1 .. Len(s) : s[i] = x
    <3>1. CASE k = 1
      BY <1>5, <2>1, <3>1
    <3>2. CASE k # 1
      BY <1>2, <1>5, <1>7, <2>1, <3>2
    <3> QED
      BY <3>1, <3>2
  <2>2. ASSUME NEW k \in 1 .. Len(s), s[k] = x PROVE \E i \in 1 .. Len(t) : t[i] = x
    <3>1. CASE x = p
      <4>1. 1 \in 1 .. Len(t)
        BY <1>5
      <4> QED
        BY <1>5, <3>1, <4>1
    <3>2. CASE x # p
      <4>1. PICK i \in 1 .. Len(q) : q[i] = x
        BY <1>2, <2>2, <3>2
      <4> QED
        BY <1>6, <4>1
    <3> QED
      BY <3>1, <3>2
  <2> QED
    BY <2>1, <2>2
<1>10. ASSUME NEW j \in 1 .. Len(t), NEW k \in 1 .. Len(t), j < k, g[t[j]] # {}
       PROVE  g[t[k]] # {}
  <2>1. j # 1 /\ k # 1
    BY <1>5, <1>10
  <2>2. PICK a \in 1 .. Len(q), b \in 1 .. Len(q) : a = j - 1 /\ b = k - 1 /\ t[j] = q[a] /\ t[k] = q[b]
    BY <1>5, <1>7, <2>1
  <2>3. a < b
    BY <1>10, <2>2
  <2> QED
    BY <1>3, <1>10, <2>2, <2>3 DEF Sorted
<1> QED
  BY <1>5, <1>8, <1>9, <1>10 DEF Sorted, Rearranged, t

(* list_add_end of a page that has got a free slot. *)
LEMMA QueuedParts ==
  ASSUME NEW S, NEW s \in Seq(S), NEW p \in S, NEW f, NEW g,
         \A j, k \in 1 .. Len(s) : s[j] = s[k] => j = k,
         \E k \in 1 .. Len(s) : s[k] = p,
         Sorted(s, f), \A x \in S \ {p} : g[x] = f[x], g[p] # {}
  PROVE  Rearranged(S, s, Queued(p, s)) /\ Sorted(Queued(p, s), g)
<1> DEFINE q == RemoveFirst(s, p)
           t == Queued(p, s)
<1>11. Without(S, s, p, q)
  BY RemovedMembers
<1>1. q \in Seq(S) /\ \A j, k \in 1 .. Len(q) : q[j] = q[k] => j = k
  BY <1>11 DEF Without
<1>2. \A x : (\E k \in 1 .. Len(q) : q[k] = x) <=> x # p /\ \E k \in 1 .. Len(s) : s[k] = x
  BY <1>11 DEF Without
<1>3. Sorted(q, g)
  BY RemovedSorted
<1>4. t = q \o <<p>>
  BY DEF Queued
<1> HIDE DEF q, t
<1>5. /\ t \in Seq(S) /\ Len(t) = Len(q) + 1 /\ t[Len(t)] = p /\ Len(q) \in Nat
      /\ \A k \in 1 .. Len(q) : k \in 1 .. Len(t) /\ t[k] = q[k] /\ q[k] # p
  <2>1. /\ t \in Seq(S) /\ Len(t) = Len(q) + 1 /\ t[Len(t)] = p /\ Len(q) \in Nat
        /\ \A k \in 1 .. Len(q) : k \in 1 .. Len(t) /\ t[k] = q[k]
    BY <1>1, <1>4
  <2>2. \A k \in 1 .. Len(q) : q[k] # p
    BY <1>2
  <2> QED
    BY <2>1, <2>2
<1>6. \A k \in 1 .. Len(t) : k # Len(t) => k \in 1 .. Len(q)
  BY <1>5
<1>7. ASSUME NEW j \in 1 .. Len(t), NEW k \in 1 .. Len(t), t[j] = t[k]
      PROVE  j = k
  BY <1>1, <1>5, <1>6, <1>7
<1>8. ASSUME NEW x
      PROVE  (\E k \in 1 .. Len(t) : t[k] = x) <=> (\E k \in 1 .. Len(s) : s[k] = x)
  <2>1. ASSUME NEW k \in 1 .. Len(t), t[k] = x PROVE \E i \in 1 .. Len(s) : s[i] = x
    BY <1>2, <1>5, <1>6, <2>1
  <2>2. ASSUME NEW k \in 1 .. Len(s), s[k] = x PROVE \E i \in 1 .. Len(t) : t[i] = x
    <3>1. CASE x = p
      <4>1. Len(t) \in 1 .. Len(t)
        BY <1>5
      <4> QED
        BY <1>5, <3>1, <4>1
    <3>2. CASE x # p
      <4>1. PICK i \in 1 .. Len(q) : q[i] = x
        BY <1>2, <2>2, <3>2
      <4> QED
        BY <1>5, <4>1
    <3> QED
      BY <3>1, <3>2
  <2> QED
    BY <2>1, <2>2
<1>9. ASSUME NEW j \in 1 .. Len(t), NEW k \in 1 .. Len(t), j < k, g[t[j]] # {}
      PROVE  g[t[k]] # {}
  <2>1. CASE k = Len(t)
    BY <1>5, <2>1
  <2>2. CASE k # Len(t)
    <3>1. j \in 1 .. Len(q) /\ k \in 1 .. Len(q)
      BY <1>5, <1>6, <1>9, <2>2
    <3> QED
      BY <1>3, <1>5, <1>9, <3>1 DEF Sorted
  <2> QED
    BY <2>1, <2>2
<1> QED
  BY <1>5, <1>7, <1>8, <1>9 DEF Sorted, Rearranged, t

(* What a collection of the pool keeps: the page on top, and of the others those
   that are too young, each once. *)
LEMMA SiftedParts ==
  ASSUME NodeTypes, PagesApart, NEW t \in NodeThreads, pool # <<>>, Sift(t),
         Last(pool).time > nodeGcTime[t]
  PROVE  /\ pool' \in Seq(PoolItem)
         /\ \A k \in 1 .. Len(pool') : \E i \in 1 .. Len(pool) : pool'[k] = pool[i]
         /\ \A j, k \in 1 .. Len(pool') : pool'[j].page = pool'[k].page => j = k
         /\ \A i \in 1 .. Len(pool) : pool[i].time > nodeGcTime[t] =>
              \E k \in 1 .. Len(pool') : pool'[k] = pool[i]
<1>1. /\ pool \in Seq(PoolItem) /\ nodeGcTime[t] \in Nat /\ Len(pool) \in Nat \ {0} /\ Last(pool) = pool[Len(pool)]
      /\ Last(pool) \in PoolItem
  BY DEF NodeTypes, Last
<1>2. PICK n \in 0 .. Len(pool) : \E pick \in [1 .. n -> TooYoung(t)] :
        /\ TooYoung(t) = {pick[i] : i \in 1 .. n}
        /\ \A i, j \in 1 .. n : i < j => pick[i] > pick[j]
        /\ pool' = <<Last(pool)>> \o [i \in 1 .. n |-> pool[pick[i]]]
  BY DEF Sift
<1>3. PICK pick \in [1 .. n -> TooYoung(t)] :
        /\ TooYoung(t) = {pick[i] : i \in 1 .. n}
        /\ \A i, j \in 1 .. n : i < j => pick[i] > pick[j]
        /\ pool' = <<Last(pool)>> \o [i \in 1 .. n |-> pool[pick[i]]]
  BY <1>2
<1> DEFINE rest == [i \in 1 .. n |-> pool[pick[i]]]
<1>4. /\ n \in Nat
      /\ \A i \in 1 .. n : pick[i] \in 1 .. Len(pool) - 1 /\ pool[pick[i]] \in PoolItem
  <2>1. \A k \in TooYoung(t) : k \in 1 .. Len(pool) - 1
    BY DEF TooYoung
  <2>2. \A k \in 1 .. Len(pool) - 1 : pool[k] \in PoolItem
    BY <1>1
  <2>3. \A i \in 1 .. n : pick[i] \in TooYoung(t)
    BY <1>3
  <2>4. n \in Nat
    BY <1>1, <1>2
  <2> QED
    BY <2>1, <2>2, <2>3, <2>4
<1>5. rest \in Seq(PoolItem) /\ Len(rest) = n /\ \A i \in 1 .. n : rest[i] = pool[pick[i]]
  <2>1. rest \in [1 .. n -> PoolItem]
    BY <1>4
  <2> QED
    BY <1>4, <2>1
<1>6. pool' = <<Last(pool)>> \o rest
  BY <1>3
<1> HIDE DEF rest
<1>7. /\ pool' \in Seq(PoolItem) /\ Len(pool') = n + 1 /\ pool'[1] = pool[Len(pool)]
      /\ \A k \in 2 .. Len(pool') : k - 1 \in 1 .. n /\ pool'[k] = pool[pick[k - 1]]
  BY <1>1, <1>4, <1>5, <1>6
<1>8. \A k \in 1 .. n : k + 1 \in 2 .. Len(pool') /\ pool'[k + 1] = pool[pick[k]]
  <2>1. \A k \in 1 .. n : k + 1 \in 2 .. Len(pool') /\ (k + 1) - 1 = k
    BY <1>4, <1>7
  <2> QED
    BY <1>7, <2>1
<1>9. ASSUME NEW k \in 1 .. Len(pool') PROVE \E i \in 1 .. Len(pool) : pool'[k] = pool[i]
  <2>1. CASE k = 1
    BY <1>1, <1>7, <2>1
  <2>2. CASE k # 1
    <3>1. k \in 2 .. Len(pool')
      BY <1>4, <1>7, <2>2
    <3>2. k - 1 \in 1 .. n /\ pool'[k] = pool[pick[k - 1]]
      BY <1>7, <3>1
    <3>3. pick[k - 1] \in 1 .. Len(pool)
      BY <1>1, <1>4, <3>2
    <3> QED
      BY <3>2, <3>3
  <2> QED
    BY <2>1, <2>2
<1>10. \A i, j \in 1 .. Len(pool) : pool[i].page = pool[j].page => i = j
  BY DEF PagesApart
<1>11. \A i, j \in 1 .. n : pick[i] = pick[j] => i = j
  BY <1>3, <1>4, SMTT(60)
<1>12. ASSUME NEW j \in 1 .. Len(pool'), NEW k \in 1 .. Len(pool'), pool'[j].page = pool'[k].page
       PROVE  j = k
  <2>1. \A i \in 2 .. Len(pool') : pool'[i].page # pool'[1].page
    <3> TAKE i \in 2 .. Len(pool')
    <3>1. pool'[i] = pool[pick[i - 1]] /\ pick[i - 1] \in 1 .. Len(pool) - 1
      BY <1>4, <1>7
    <3>2. pick[i - 1] \in 1 .. Len(pool) /\ pick[i - 1] # Len(pool) /\ Len(pool) \in 1 .. Len(pool)
      BY <1>1, <3>1
    <3> QED
      BY <1>7, <1>10, <3>1, <3>2
  <2>2. \A i \in 1 .. Len(pool') : i # 1 => i \in 2 .. Len(pool')
    BY <1>4, <1>7
  <2>3. CASE j = 1 \/ k = 1
    BY <1>12, <2>1, <2>2, <2>3
  <2>4. CASE j # 1 /\ k # 1
    <3>1. /\ j - 1 \in 1 .. n /\ pool'[j] = pool[pick[j - 1]]
          /\ k - 1 \in 1 .. n /\ pool'[k] = pool[pick[k - 1]]
      BY <1>7, <2>2, <2>4
    <3>2. pick[j - 1] \in 1 .. Len(pool) /\ pick[k - 1] \in 1 .. Len(pool)
      BY <1>1, <1>4, <3>1
    <3>3. pick[j - 1] = pick[k - 1]
      BY <1>10, <1>12, <3>1, <3>2
    <3>4. j - 1 = k - 1
      BY <1>11, <3>1, <3>3
    <3> QED
      BY <3>4
  <2> QED
    BY <2>3, <2>4
<1>13. ASSUME NEW i \in 1 .. Len(pool), pool[i].time > nodeGcTime[t]
       PROVE  \E k \in 1 .. Len(pool') : pool'[k] = pool[i]
  <2>1. CASE i = Len(pool)
    <3>1. 1 \in 1 .. Len(pool')
      BY <1>4, <1>7
    <3> QED
      BY <1>7, <2>1, <3>1
  <2>2. CASE i # Len(pool)
    <3>1. i \in TooYoung(t)
      BY <1>1, <1>13, <2>2 DEF TooYoung
    <3>2. PICK k \in 1 .. n : i = pick[k]
      BY <1>3, <3>1
    <3>3. k + 1 \in 1 .. Len(pool') /\ pool'[k + 1] = pool[i]
      BY <1>4, <1>7, <1>8, <3>2
    <3> QED
      BY <3>3
  <2> QED
    BY <2>1, <2>2
<1> QED
  BY <1>7, <1>9, <1>12, <1>13

-----------------------------------------------------------------------------
(* Everything has the shape it should have *)

(* A node is not the sign for no node. *)
LEMMA NodesAre ==
  /\ \A n \in NodePlaces : n # NoNode /\ n[1] \in VPages /\ n[2] \in Slots /\ n = <<n[1], n[2]>>
  /\ \A p \in VPages, k \in Slots : <<p, k>> \in NodePlaces /\ <<p, k>>[1] = p /\ <<p, k>>[2] = k
<1>1. ASSUME NEW n \in NodePlaces PROVE n # NoNode
  <2>1. PICK p \in VPages, k \in Slots : n = <<p, k>>
    BY DEF NodePlaces
  <2>2. Len(<<p, k>>) = 2 /\ Len(NoNode) = 0
    BY DEF NoNode
  <2> QED
    BY <2>1, <2>2
<1> QED
  BY <1>1 DEF NodePlaces

(* The oldest start is not after any. *)
LEMMA OldestIs ==
  ASSUME NodeTypes
  PROVE  /\ Oldest \in Nat
         /\ \A w \in NodeWorkers : workStart[w] # 0 => Oldest <= workStart[w]
         /\ readStart # 0 => Oldest <= readStart
<1> DEFINE W == (({workStart[w] : w \in NodeWorkers} \cup {readStart}) \ {0}) \cup {Endless}
<1>1. W \subseteq Nat /\ Endless \in W
  BY SlotsAssumption DEF NodeTypes, Endless
<1>2. Oldest = CHOOSE t \in W : \A u \in W : t <= u
  BY DEF Oldest
<1>3. \A w \in NodeWorkers : workStart[w] # 0 => workStart[w] \in W
  OBVIOUS
<1>4. readStart # 0 => readStart \in W
  OBVIOUS
<1> HIDE DEF W
<1>5. Oldest \in W /\ \A u \in W : Oldest <= u
  BY <1>1, <1>2, LeastChosen
<1> QED
  BY <1>1, <1>3, <1>4, <1>5

(* Where a thread that frees a node or a page stands. *)
LEMMA FreeItems ==
  ASSUME NodeTypes, NEW t \in NodeThreads
  PROVE  /\ workFree[t].what = "slot" =>
              workFree[t].node \in NodePlaces /\ workFree[t].time \in Nat
         /\ workFree[t].what = "page" =>
              workFree[t].page \in VPages /\ workFree[t].time \in Nat
         /\ workFree[t] = NoFree \/ workFree[t].what = "slot" \/ workFree[t].what = "page"
         /\ NoFree.what # "slot" /\ NoFree.what # "page"
BY DEF NodeTypes, SlotItem, PageItem, NoFree

(* A sequence without its last element, ... *)
LEMMA FrontIs ==
  ASSUME NEW S, NEW s \in Seq(S), s # <<>>
  PROVE  /\ Front(s) \in Seq(S) /\ Len(Front(s)) = Len(s) - 1 /\ Len(s) \in Nat \ {0}
         /\ \A k \in 1 .. Len(s) - 1 : Front(s)[k] = s[k]
         /\ Last(s) = s[Len(s)] /\ Last(s) \in S
<1>1. Len(s) \in Nat \ {0}
  OBVIOUS
<1>2. Last(s) = s[Len(s)] /\ Last(s) \in S
  BY <1>1 DEF Last
<1>3. Front(s) = SubSeq(s, 1, Len(s) - 1)
  BY DEF Front
<1>4. /\ SubSeq(s, 1, Len(s) - 1) \in Seq(S) /\ Len(SubSeq(s, 1, Len(s) - 1)) = Len(s) - 1
      /\ \A k \in 1 .. Len(s) - 1 : SubSeq(s, 1, Len(s) - 1)[k] = s[k]
  <2>1. PICK i \in Nat : i = Len(s) - 1
    BY <1>1
  <2>2. SubSeq(s, 1, i) \in Seq(S) /\ Len(SubSeq(s, 1, i)) = i
    BY <1>1, <2>1
  <2>3. \A k \in 1 .. i : SubSeq(s, 1, i)[k] = s[k]
    BY <1>1, <2>1
  <2> QED
    BY <2>1, <2>2, <2>3
<1> QED
  BY <1>1, <1>2, <1>3, <1>4

(* ... without its first, ... *)
LEMMA TailIs ==
  ASSUME NEW S, NEW s \in Seq(S), s # <<>>
  PROVE  /\ Tail(s) \in Seq(S) /\ Len(Tail(s)) = Len(s) - 1 /\ Len(s) \in Nat \ {0}
         /\ \A k \in 1 .. Len(s) - 1 : Tail(s)[k] = s[k + 1]
         /\ Head(s) = s[1] /\ Head(s) \in S
OBVIOUS

(* ... and with another one. *)
LEMMA AppendIs ==
  ASSUME NEW S, NEW s \in Seq(S), NEW e \in S
  PROVE  /\ Append(s, e) \in Seq(S) /\ Len(Append(s, e)) = Len(s) + 1 /\ Len(s) \in Nat
         /\ \A k \in 1 .. Len(s) : Append(s, e)[k] = s[k]
         /\ Append(s, e)[Len(s) + 1] = e
OBVIOUS

(* The list is empty, nobody works. *)
LEMMA NodeTypesInitially ==
  ASSUME NodeInit
  PROVE  NodeTypes
<1>1. /\ clock \in Nat \ {0} /\ blocks \in Seq(VPages) /\ pool \in Seq(PoolItem) /\ doomed \in Seq(SlotItem)
      /\ poolCount \in Int /\ slowRounds \in Nat /\ readStart \in Nat
  BY DEF NodeInit
<1>2. /\ freeSlots \in [VPages -> SUBSET Slots] /\ used \in [VPages -> Int]
      /\ live \in SUBSET NodePlaces
      /\ lockOf \in [NodePlaces -> NodeWorkers \cup {Open}] /\ lockVer \in [NodePlaces -> Nat]
  BY DEF NodeInit
<1>3. /\ workAt \in [NodeWorkers -> WorkPlaces] /\ workStart \in [NodeWorkers -> Nat]
      /\ workNode \in [NodeWorkers -> NodePlaces \cup {NoNode}]
      /\ workFree \in [NodeThreads -> {NoFree} \cup SlotItem \cup PageItem]
      /\ nodeGcTime \in [NodeThreads -> Nat]
  BY DEF NodeInit, NodeThreads, WorkPlaces
<1>4. /\ readNode \in NodePlaces \cup {NoNode} /\ lastDeath \in [VPages -> Nat]
  BY DEF NodeInit
<1>5. recycled \in BOOLEAN /\ early \in BOOLEAN
  BY DEF NodeInit
<1> QED
  BY <1>1, <1>2, <1>3, <1>4, <1>5 DEF NodeTypes

(* A worker creates or deletes one node at a time. *)
LEMMA WorkTypesKept ==
  ASSUME NodeInv, NEW w \in NodeWorkers, WorkStep(w)
  PROVE  NodeTypes'
<1>1. /\ NodeTypes /\ WorkersFit /\ PagesApart
      /\ clock \in Nat \ {0} /\ blocks \in Seq(VPages)
      /\ workNode[w] \in NodePlaces \cup {NoNode}
  BY DEF NodeInv, NodeTypes
<1>2. workAt[w] \notin {"idle", "run", "page"} => workNode[w] \in NodePlaces
  BY <1>1 DEF WorkersFit
<1>3. blocks # <<>> => Last(blocks) \in VPages /\ InList(Last(blocks)) /\ Len(blocks) \in Nat \ {0}
  <2> SUFFICES ASSUME blocks # <<>> PROVE Last(blocks) \in VPages /\ InList(Last(blocks)) /\ Len(blocks) \in Nat \ {0}
    OBVIOUS
  <2>1. Last(blocks) = blocks[Len(blocks)] /\ Last(blocks) \in VPages /\ Len(blocks) \in Nat \ {0}
    BY <1>1, FrontIs
  <2> QED
    BY <2>1 DEF InList
<1>4. \A p \in VPages : InList(p) => Swapped(p, blocks) \in Seq(VPages)
  <2> SUFFICES ASSUME NEW p \in VPages, InList(p) PROVE Swapped(p, blocks) \in Seq(VPages)
    OBVIOUS
  <2>1. Without(VPages, blocks, p, RemoveFirst(blocks, p))
    BY <1>1, RemovedMembers DEF InList, PagesApart
  <2> QED
    BY <2>1 DEF Without, Swapped
<1>5. CASE Begin(w)
  BY <1>1, <1>5 DEF Begin, Moves, NodeTypes, slotVars, poolVars, doomVars, readVars, WorkPlaces
<1>6. CASE TakeSlot(w)
  <2>1. /\ Last(blocks) \in VPages
        /\ \E k \in freeSlots[Last(blocks)] :
             /\ workNode' = [workNode EXCEPT ![w] = <<Last(blocks), k>>]
             /\ freeSlots' = [freeSlots EXCEPT ![Last(blocks)] = @ \ {k}]
             /\ used' = [used EXCEPT ![Last(blocks)] = @ + 1]
             /\ blocks' = Swapped(Last(blocks), blocks) \/ blocks' = blocks
    BY <1>3, <1>6 DEF TakeSlot
  <2>2. blocks' \in Seq(VPages)
    BY <1>1, <1>3, <1>4, <1>6, <2>1 DEF TakeSlot
  <2>3. /\ workNode' \in [NodeWorkers -> NodePlaces \cup {NoNode}]
        /\ freeSlots' \in [VPages -> SUBSET Slots]
        /\ used' \in [VPages -> Int]
    <3>1. PICK k \in freeSlots[Last(blocks)] :
            /\ workNode' = [workNode EXCEPT ![w] = <<Last(blocks), k>>]
            /\ freeSlots' = [freeSlots EXCEPT ![Last(blocks)] = @ \ {k}]
            /\ used' = [used EXCEPT ![Last(blocks)] = @ + 1]
      BY <2>1
    <3>2. <<Last(blocks), k>> \in NodePlaces
      BY <1>1, <2>1, NodesAre DEF NodeTypes
    <3>3. workNode' \in [NodeWorkers -> NodePlaces \cup {NoNode}]
      BY <1>1, <3>1, <3>2 DEF NodeTypes
    <3>4. freeSlots' \in [VPages -> SUBSET Slots] /\ used' \in [VPages -> Int]
      BY <1>1, <2>1, <3>1 DEF NodeTypes
    <3> QED
      BY <3>3, <3>4
  <2>4. workAt' \in [NodeWorkers -> WorkPlaces]
    BY <1>1, <1>6 DEF TakeSlot, Moves, NodeTypes, WorkPlaces
  <2> QED
    BY <1>1, <1>6, <2>2, <2>3, <2>4 DEF TakeSlot, NodeTypes, poolVars, doomVars, readVars
<1>7. CASE NoSlot(w)
  <2>1. blocks' \in Seq(VPages)
    BY <1>1, <1>3, <1>4, <1>7 DEF NoSlot
  <2> QED
    BY <1>1, <1>7, <2>1 DEF NoSlot, Moves, NodeTypes, poolVars, doomVars, readVars, WorkPlaces
<1>8. CASE TakePage(w)
  <2>1. PICK p \in VPages : SetUp(w, p)
    <3>1. CASE pool # <<>> /\ SetUp(w, Last(pool).page)
      <4>1. Last(pool) \in PoolItem
        BY <1>1, <3>1, FrontIs DEF NodeTypes
      <4>2. Last(pool).page \in VPages
        BY <4>1 DEF PoolItem
      <4> QED
        BY <3>1, <4>2
    <3>2. CASE \E p \in Unmapped : SetUp(w, p)
      BY <3>2 DEF Unmapped
    <3> QED
      BY <1>8, <3>1, <3>2 DEF TakePage
  <2>2. /\ workNode' \in [NodeWorkers -> NodePlaces \cup {NoNode}]
        /\ freeSlots' \in [VPages -> SUBSET Slots]
        /\ used' \in [VPages -> Int]
    <3>1. PICK k \in Slots : /\ workNode' = [workNode EXCEPT ![w] = <<p, k>>]
                             /\ freeSlots' = [freeSlots EXCEPT ![p] = Slots \ {k}]
      BY <2>1 DEF SetUp
    <3>2. <<p, k>> \in NodePlaces
      BY NodesAre
    <3>3. workNode' \in [NodeWorkers -> NodePlaces \cup {NoNode}]
      BY <1>1, <3>1, <3>2 DEF NodeTypes
    <3>4. freeSlots' \in [VPages -> SUBSET Slots]
      BY <1>1, <2>1, <3>1 DEF NodeTypes
    <3>5. used' \in [VPages -> Int]
      BY <1>1, <2>1 DEF SetUp, NodeTypes
    <3> QED
      BY <3>3, <3>4, <3>5
  <2>3. /\ lockVer' \in [NodePlaces -> Nat] /\ lockOf' \in [NodePlaces -> NodeWorkers \cup {Open}]
        /\ recycled' \in BOOLEAN
    BY <1>1, <2>1 DEF SetUp, NodeTypes
  <2>4. pool' \in Seq(PoolItem) /\ poolCount' \in Int /\ early' \in BOOLEAN
    <3>1. CASE pool # <<>>
      <4>1. /\ pool' = Front(pool) /\ poolCount' = poolCount - 1
            /\ early' = (early \/ Last(pool).time > Oldest)
        BY <1>8, <3>1 DEF TakePage
      <4>2. pool' \in Seq(PoolItem) /\ poolCount' \in Int
        <5>1. pool \in Seq(PoolItem) /\ poolCount \in Int
          BY <1>1 DEF NodeTypes
        <5>2. Front(pool) \in Seq(PoolItem)
          BY <3>1, <5>1, FrontIs
        <5> QED
          BY <4>1, <5>1, <5>2
      <4>3. early' \in BOOLEAN
        BY <4>1
      <4> QED
        BY <4>2, <4>3
    <3>2. CASE pool = <<>>
      BY <1>1, <1>8, <3>2 DEF TakePage, NodeTypes
    <3> QED
      BY <3>1, <3>2
  <2>5. workAt' \in [NodeWorkers -> WorkPlaces]
    BY <1>1, <1>8 DEF TakePage, Moves, NodeTypes, WorkPlaces
  <2> QED
    BY <1>1, <1>8, <2>2, <2>3, <2>4, <2>5 DEF TakePage, NodeTypes, doomVars
<1>9. CASE LinkPage(w)
  <2>1. workNode[w][1] \in VPages
    BY <1>2, <1>9, NodesAre DEF LinkPage, Moves
  <2> QED
    BY <1>1, <1>9, <2>1 DEF LinkPage, Moves, NodeTypes, poolVars, doomVars, readVars, WorkPlaces
<1>10. CASE LockNew(w)
  <2>1. workNode[w] \in NodePlaces
    BY <1>2, <1>10 DEF LockNew, Moves
  <2> QED
    BY <1>1, <1>10, <2>1 DEF LockNew, Moves, NodeTypes, slotVars, poolVars, doomVars, readVars, WorkPlaces
<1>11. CASE RefuseNew(w) \/ AbortMade(w)
  <2>1. workNode[w] \in NodePlaces
    BY <1>2, <1>11 DEF RefuseNew, AbortMade, Moves
  <2>2. FreeOf(workNode[w], clock) \in SlotItem
    BY <1>1, <2>1 DEF FreeOf, SlotItem
  <2>3. workFree' \in [NodeThreads -> {NoFree} \cup SlotItem \cup PageItem]
    BY <1>1, <1>11, <2>2 DEF RefuseNew, AbortMade, NodeTypes
  <2>4. live' \in SUBSET NodePlaces
    BY <1>1, <1>11 DEF RefuseNew, AbortMade, NodeTypes
  <2>5. workAt' \in [NodeWorkers -> WorkPlaces]
    BY <1>1, <1>11 DEF RefuseNew, AbortMade, Moves, NodeTypes, WorkPlaces
  <2> QED
    BY <1>1, <1>11, <2>3, <2>4, <2>5
    DEF RefuseNew, AbortMade, NodeTypes, slotVars, poolVars, doomVars, readVars
<1>12. CASE \E n \in live : LockOld(w, n)
  BY <1>1, <1>12 DEF LockOld, Moves, NodeTypes, slotVars, poolVars, doomVars, readVars, WorkPlaces
<1>13. ASSUME NEW from, EndTransaction(w, from)
       PROVE  /\ clock' \in Nat \ {0} /\ workAt' \in [NodeWorkers -> WorkPlaces]
              /\ workStart' \in [NodeWorkers -> Nat]
              /\ workNode' \in [NodeWorkers -> NodePlaces \cup {NoNode}]
              /\ lockOf' \in [NodePlaces -> NodeWorkers \cup {Open}]
              /\ lockVer' \in [NodePlaces -> Nat]
  <2>1. clock' \in Nat \ {0} /\ clock' = clock + 1
    BY <1>1, <1>13 DEF EndTransaction
  <2>2. /\ workAt' \in [NodeWorkers -> WorkPlaces] /\ workStart' \in [NodeWorkers -> Nat]
        /\ workNode' \in [NodeWorkers -> NodePlaces \cup {NoNode}]
    BY <1>1, <1>13 DEF EndTransaction, Moves, NodeTypes, WorkPlaces
  <2>3. lockOf' \in [NodePlaces -> NodeWorkers \cup {Open}] /\ lockVer' \in [NodePlaces -> Nat]
    BY <1>1, <1>13, <2>1 DEF EndTransaction, NodeTypes
  <2> QED
    BY <2>1, <2>2, <2>3
<1>14. CASE Commit(w)
  <2>1. CASE EndTransaction(w, "made") /\ UNCHANGED doomVars
    BY <1>1, <1>13, <1>14, <2>1 DEF Commit, NodeTypes, slotVars, poolVars, doomVars, readVars
  <2>2. CASE /\ EndTransaction(w, "delete")
             /\ doomed' = Append(doomed, FreeOf(workNode[w], clock'))
             /\ lastDeath' = [lastDeath EXCEPT ![workNode[w][1]] = clock']
    <3>1. workNode[w] \in NodePlaces
      BY <1>2, <2>2 DEF EndTransaction, Moves
    <3>2. clock' \in Nat
      BY <1>13, <2>2
    <3>3. FreeOf(workNode[w], clock') \in SlotItem /\ workNode[w][1] \in VPages
      BY <3>1, <3>2, NodesAre DEF FreeOf, SlotItem
    <3>4. doomed' \in Seq(SlotItem) /\ lastDeath' \in [VPages -> Nat]
      BY <1>1, <2>2, <3>2, <3>3 DEF NodeTypes
    <3> QED
      BY <1>1, <1>13, <1>14, <2>2, <3>4 DEF Commit, NodeTypes, slotVars, poolVars, readVars
  <2> QED
    BY <1>14, <2>1, <2>2 DEF Commit
<1>15. CASE AbortEnd(w)
  <2>1. /\ clock' \in Nat \ {0} /\ workAt' \in [NodeWorkers -> WorkPlaces]
        /\ workStart' \in [NodeWorkers -> Nat]
        /\ workNode' \in [NodeWorkers -> NodePlaces \cup {NoNode}]
        /\ lockOf' \in [NodePlaces -> NodeWorkers \cup {Open}]
        /\ lockVer' \in [NodePlaces -> Nat]
    BY <1>13, <1>15 DEF AbortEnd
  <2> QED
    BY <1>1, <1>15, <2>1 DEF AbortEnd, NodeTypes, slotVars, poolVars, doomVars, readVars
<1> QED
  BY <1>5, <1>6, <1>7, <1>8, <1>9, <1>10, <1>11, <1>12, <1>14, <1>15 DEF WorkStep

(* Freeing, and the pool. *)
LEMMA FreeTypesKept ==
  ASSUME NodeInv, NEW t \in NodeThreads, FreeStep(t)
  PROVE  NodeTypes'
<1>1. /\ NodeTypes /\ PagesApart /\ NodesSit
      /\ clock \in Nat \ {0} /\ blocks \in Seq(VPages) /\ pool \in Seq(PoolItem)
      /\ poolCount \in Int /\ slowRounds \in Nat /\ early \in BOOLEAN
  BY DEF NodeInv, NodeTypes
<1>2. CASE FreeSlot(t)
  <2>1. /\ workFree[t].what = "slot" /\ workFree[t].node \in NodePlaces /\ workFree[t].time \in Nat
    BY <1>1, <1>2, FreeItems DEF FreeSlot
  <2>2. PICK p \in VPages, k \in Slots : workFree[t].node = <<p, k>>
    BY <2>1 DEF NodePlaces
  <2>3. workFree[t].node[1] = p /\ workFree[t].node[2] = k
    BY <2>2
  <2>4. InList(p)
    BY <1>1, <2>1, <2>3 DEF NodesSit, Sits, Freeing
  <2>5. RemoveFirst(blocks, p) \in Seq(VPages)
    BY <1>1, <2>4, RemovedMembers DEF Without, InList, PagesApart
  <2>6. Queued(p, blocks) \in Seq(VPages)
    BY <2>5 DEF Queued
  <2>7. blocks' \in Seq(VPages)
    BY <1>1, <1>2, <2>3, <2>5, <2>6 DEF FreeSlot
  <2>8. freeSlots' \in [VPages -> SUBSET Slots] /\ used' \in [VPages -> Int]
    <3>1. /\ used' = [used EXCEPT ![p] = @ - 1]
          /\ freeSlots' = [freeSlots EXCEPT ![p] = @ \cup {k}] \/ freeSlots' = freeSlots
      BY <1>2, <2>3 DEF FreeSlot
    <3>2. used \in [VPages -> Int] /\ freeSlots \in [VPages -> SUBSET Slots]
      BY <1>1 DEF NodeTypes
    <3>3. used' \in [VPages -> Int]
      BY <3>1, <3>2
    <3>4. freeSlots[p] \cup {k} \in SUBSET Slots
      BY <3>2
    <3>5. freeSlots' \in [VPages -> SUBSET Slots]
      BY <3>1, <3>2, <3>4
    <3> QED
      BY <3>3, <3>5
  <2>9. workFree' \in [NodeThreads -> {NoFree} \cup SlotItem \cup PageItem]
    <3>1. \/ workFree' = [workFree EXCEPT ![t] = [what |-> "page", page |-> p, time |-> workFree[t].time]]
          \/ workFree' = [workFree EXCEPT ![t] = NoFree]
      BY <1>1, <1>2, <2>3 DEF FreeSlot, NodeTypes
    <3>2. [what |-> "page", page |-> p, time |-> workFree[t].time] \in PageItem
      BY <2>1 DEF PageItem
    <3> QED
      BY <1>1, <3>1, <3>2 DEF NodeTypes
  <2> QED
    BY <1>1, <1>2, <2>7, <2>8, <2>9 DEF FreeSlot, NodeTypes, poolVars, doomVars, readVars
<1>3. CASE PoolPage(t)
  <2>1. workFree[t].page \in VPages /\ workFree[t].time \in Nat
    BY <1>1, <1>3, FreeItems DEF PoolPage
  <2>2. [page |-> workFree[t].page, time |-> workFree[t].time] \in PoolItem
    BY <2>1 DEF PoolItem
  <2>3. pool' \in Seq(PoolItem) /\ poolCount' \in Int
    BY <1>1, <1>3, <2>2 DEF PoolPage
  <2>4. nodeGcTime' \in [NodeThreads -> Nat]
    BY <1>1, <1>3, OldestIs DEF PoolPage, NodeTypes
  <2>5. workFree' \in [NodeThreads -> {NoFree} \cup SlotItem \cup PageItem]
    BY <1>1, <1>3 DEF PoolPage, NodeTypes
  <2>6. early' \in BOOLEAN
    <3>1. early' = (early \/ workFree[t].time < lastDeath[workFree[t].page])
      BY <1>3 DEF PoolPage
    <3> QED
      BY <3>1
  <2> QED
    BY <1>1, <1>3, <2>3, <2>4, <2>5, <2>6 DEF PoolPage, NodeTypes, slotVars, doomVars, readVars
<1>4. ASSUME NEW pages, Gone(pages) PROVE recycled' \in BOOLEAN
  BY <1>4 DEF Gone
<1>5. CASE PoolRelease(t)
  <2>1. pool' \in Seq(PoolItem) /\ poolCount' \in Int
    BY <1>1, <1>5, FrontIs DEF PoolRelease
  <2>2. recycled' \in BOOLEAN
    BY <1>4, <1>5 DEF PoolRelease
  <2> QED
    BY <1>1, <1>5, <2>1, <2>2 DEF PoolRelease, NodeTypes, slotVars, workVars, doomVars
<1>6. CASE PoolSift(t)
  <2>1. pool' \in Seq(PoolItem)
    BY <1>1, <1>6, SiftedParts DEF PoolSift
  <2>2. Len(pool') \in Nat /\ Len(pool) \in Nat
    BY <1>1, <2>1
  <2>3. poolCount' \in Int /\ slowRounds' \in Nat
    BY <1>1, <1>6, <2>2 DEF PoolSift
  <2>4. recycled' \in BOOLEAN
    BY <1>4, <1>6 DEF PoolSift
  <2>5. nodeGcTime' \in [NodeThreads -> Nat]
    BY <1>1, <1>6 DEF PoolSift, NodeTypes
  <2> QED
    BY <1>1, <1>6, <2>1, <2>3, <2>4, <2>5 DEF PoolSift, NodeTypes, slotVars, workVars, doomVars
<1>7. CASE PoolDone(t)
  BY <1>1, <1>7 DEF PoolDone, NodeTypes, slotVars, workVars, doomVars, readVars
<1> QED
  BY <1>2, <1>3, <1>5, <1>6, <1>7 DEF FreeStep

(* All other steps. *)
LEMMA NodeTypesKept ==
  ASSUME NodeInv, [NodeNext]_nodeVars
  PROVE  NodeTypes'
<1>1. NodeTypes /\ clock \in Nat \ {0} /\ doomed \in Seq(SlotItem) /\ readStart \in Nat
  BY DEF NodeInv, NodeTypes
<1>2. CASE UNCHANGED nodeVars
  BY <1>1, <1>2 DEF NodeTypes, nodeVars, slotVars, poolVars, workVars, readVars
<1>3. CASE ServeDoomed
  <2>1. Head(doomed) \in SlotItem /\ doomed' \in Seq(SlotItem)
    BY <1>1, <1>3, TailIs DEF ServeDoomed
  <2>2. workFree' \in [NodeThreads -> {NoFree} \cup SlotItem \cup PageItem]
    BY <1>1, <1>3, <2>1 DEF ServeDoomed, NodeTypes
  <2> QED
    BY <1>1, <1>3, <2>1, <2>2 DEF ServeDoomed, NodeTypes, slotVars, poolVars, readVars
<1>4. CASE ReadBegin
  BY <1>1, <1>4 DEF ReadBegin, NodeTypes, slotVars, poolVars, workVars, doomVars
<1>5. CASE ReadFind
  BY <1>1, <1>5 DEF ReadFind, Reachable, NodeTypes, slotVars, poolVars, workVars, doomVars
<1>6. CASE ReadEnd
  <2>1. recycled' \in BOOLEAN
    BY <1>6 DEF ReadEnd
  <2> QED
    BY <1>1, <1>6, <2>1 DEF ReadEnd, NodeTypes, slotVars, poolVars, workVars, doomVars
<1> QED
  BY <1>2, <1>3, <1>4, <1>5, <1>6, WorkTypesKept, FreeTypesKept DEF NodeNext, NodeThreads

-----------------------------------------------------------------------------
(* What a step leaves alone *)

SameList    == \A p \in VPages : InList(p)' <=> InList(p)
SamePool    == \A p \in VPages : Pooled(p)' <=> Pooled(p)
SameSits    == \A n \in NodePlaces : Sits(n)' <=> Sits(n)
SameDoomed  == \A n \in NodePlaces : Doomed(n)' <=> Doomed(n)
SameLinked  == \A w \in NodeWorkers : \A p \in VPages : Linked(w, p)' <=> Linked(w, p)
SameTaken   == \A w \in NodeWorkers : \A n \in NodePlaces : Taken(w, n)' <=> Taken(w, n)
SameMaking  == \A w \in NodeWorkers : \A n \in NodePlaces : Making(w, n)' <=> Making(w, n)
SameKilling == \A w \in NodeWorkers : \A n \in NodePlaces : Killing(w, n)' <=> Killing(w, n)
SameFreed   == \A t \in NodeThreads : \A p \in VPages : Dropped(t, p)' <=> Dropped(t, p)
SameFreeing == \A t \in NodeThreads : \A n \in NodePlaces : Freeing(t, n)' <=> Freeing(t, n)

(* What stands in variables that stay, stays. *)
LEMMA Untouched ==
  /\ UNCHANGED blocks => SameList
  /\ UNCHANGED pool => SamePool
  /\ UNCHANGED <<blocks, freeSlots>> => SameSits
  /\ UNCHANGED doomed => SameDoomed
  /\ UNCHANGED <<workAt, workNode>> => SameLinked /\ SameTaken /\ SameMaking /\ SameKilling
  /\ UNCHANGED workFree => SameFreed /\ SameFreeing
<1>1. UNCHANGED blocks => SameList
  BY DEF SameList, InList
<1>2. UNCHANGED pool => SamePool
  BY DEF SamePool, Pooled
<1>3. UNCHANGED <<blocks, freeSlots>> => SameSits
  BY DEF SameSits, Sits, InList
<1>4. UNCHANGED doomed => SameDoomed
  BY DEF SameDoomed, Doomed
<1>5. UNCHANGED <<workAt, workNode>> => SameLinked /\ SameTaken /\ SameMaking /\ SameKilling
  BY DEF SameLinked, SameTaken, SameMaking, SameKilling, Linked, Taken, Making, Killing
<1>6. UNCHANGED workFree => SameFreed /\ SameFreeing
  BY DEF SameFreed, SameFreeing, Dropped, Freeing
<1> QED
  BY <1>1, <1>2, <1>3, <1>4, <1>5, <1>6

(* A worker goes on, with node x. *)
Turns(w, from, to, x) ==
  /\ Moves(w, from, to)
  /\ workNode' = [workNode EXCEPT ![w] = x]

(* Nobody else is concerned, and the worker has what its place says. *)
LEMMA WorkerTurns ==
  ASSUME NodeTypes, NEW w \in NodeWorkers, NEW from, NEW to, NEW x, Turns(w, from, to, x)
  PROVE  /\ \A v \in NodeWorkers \ {w} : \A p, n :
              /\ Linked(v, p)' <=> Linked(v, p)
              /\ Taken(v, n)' <=> Taken(v, n)
              /\ Making(v, n)' <=> Making(v, n)
              /\ Killing(v, n)' <=> Killing(v, n)
         /\ \A p, n :
              /\ Linked(w, p)' <=> to = "link" /\ x[1] = p
              /\ Taken(w, n)' <=> to = "lock" /\ x = n
              /\ Making(w, n)' <=> to = "made" /\ x = n
              /\ Killing(w, n)' <=> to = "delete" /\ x = n
         /\ \A p, n :
              /\ Linked(w, p) <=> from = "link" /\ workNode[w][1] = p
              /\ Taken(w, n) <=> from = "lock" /\ workNode[w] = n
              /\ Making(w, n) <=> from = "made" /\ workNode[w] = n
              /\ Killing(w, n) <=> from = "delete" /\ workNode[w] = n
<1>1. /\ workAt[w] = from /\ workAt'[w] = to /\ workNode'[w] = x
      /\ \A v \in NodeWorkers \ {w} : workAt'[v] = workAt[v] /\ workNode'[v] = workNode[v]
  BY DEF Turns, Moves, NodeTypes
<1> QED
  BY <1>1 DEF Linked, Taken, Making, Killing

(* A worker that keeps its node. *)
LEMMA TurnsOnly ==
  ASSUME NodeTypes, NEW w \in NodeWorkers, NEW from, NEW to, Moves(w, from, to), UNCHANGED workNode
  PROVE  Turns(w, from, to, workNode[w])
BY DEF NodeTypes, Turns

(* A thread turns to another thing to free. *)
LEMMA ThreadStores ==
  ASSUME NodeTypes, NEW t \in NodeThreads, NEW f, workFree' = [workFree EXCEPT ![t] = f]
  PROVE  /\ \A u \in NodeThreads \ {t} : \A p, n :
              (Dropped(u, p)' <=> Dropped(u, p)) /\ (Freeing(u, n)' <=> Freeing(u, n))
         /\ \A p, n : /\ Dropped(t, p)' <=> f.what = "page" /\ f.page = p
                      /\ Freeing(t, n)' <=> f.what = "slot" /\ f.node = n
<1>1. workFree'[t] = f /\ \A u \in NodeThreads \ {t} : workFree'[u] = workFree[u]
  BY DEF NodeTypes
<1> QED
  BY <1>1 DEF Dropped, Freeing

(* The invariants about what is where, if no page is in a new place ... *)
FewerPages ==
  /\ \A j, k \in 1 .. Len(blocks') : blocks'[j] = blocks'[k] => j = k
  /\ \A j, k \in 1 .. Len(pool') : pool'[j].page = pool'[k].page => j = k
  /\ \A p \in VPages :
       /\ InList(p)' => InList(p)
       /\ Pooled(p)' => Pooled(p)
       /\ \A w \in NodeWorkers : Linked(w, p)' => Linked(w, p)
       /\ \A t \in NodeThreads : Dropped(t, p)' => Dropped(t, p)

(* Then no page is in two places. *)
LEMMA PagesStay ==
  ASSUME PagesApart, FewerPages
  PROVE  PagesApart'
<1>1. ASSUME NEW p \in VPages
      PROVE  /\ ~(InList(p)' /\ Pooled(p)')
             /\ \A w \in NodeWorkers : Linked(w, p)' =>
                  /\ ~InList(p)' /\ ~Pooled(p)'
                  /\ \A t \in NodeThreads : ~Dropped(t, p)'
                  /\ \A v \in NodeWorkers : Linked(v, p)' => v = w
             /\ \A t \in NodeThreads : Dropped(t, p)' =>
                  /\ ~InList(p)' /\ ~Pooled(p)'
                  /\ \A u \in NodeThreads : Dropped(u, p)' => u = t
  BY DEF PagesApart, FewerPages
<1> QED
  BY <1>1 DEF PagesApart, FewerPages

(* ... and as many nodes are used as before. *)
LEMMA NodesStay ==
  ASSUME NodesSit, SameSits, SameTaken, SameFreeing, UNCHANGED live
  PROVE  NodesSit'
BY DEF NodesSit, SameSits, SameTaken, SameFreeing

(* Then the counters fit as before. *)
LEMMA UsedStays ==
  ASSUME UsedFits, UNCHANGED <<freeSlots, used>>,
         \A p \in VPages : InList(p)' => InList(p),
         \A w \in NodeWorkers : \A p \in VPages : Linked(w, p)' => Linked(w, p) /\ workNode'[w] = workNode[w]
  PROVE  UsedFits'
<1>1. ASSUME NEW p \in VPages, InList(p)' PROVE used'[p] = Cardinality(Slots \ freeSlots'[p])
  BY <1>1 DEF UsedFits
<1>2. ASSUME NEW w \in NodeWorkers, NEW p \in VPages, Linked(w, p)'
      PROVE  freeSlots'[p] = Slots \ {workNode'[w][2]} /\ used'[p] = 1
  BY <1>2 DEF UsedFits
<1> QED
  BY <1>1, <1>2 DEF UsedFits

(* What there is of pages, and what is in them. *)
Shelf == PagesApart /\ NodesSit /\ UsedFits /\ RoomSorted

(* Steps that leave the shelf alone. *)
LEMMA ShelfStays ==
  ASSUME Shelf, UNCHANGED <<slotVars, live, pool>>,
         \A w \in NodeWorkers : \A p \in VPages : Linked(w, p)' => Linked(w, p) /\ workNode'[w] = workNode[w],
         SameTaken, SameFreed, SameFreeing
  PROVE  Shelf'
<1>1. SameList /\ SamePool /\ SameSits /\ UNCHANGED <<blocks, freeSlots, used, live, pool>>
  BY Untouched DEF slotVars
<1>2. FewerPages
  BY <1>1 DEF FewerPages, Shelf, PagesApart, SameList, SamePool, SameFreed
<1>3. UsedFits'
  <2>1. \A p \in VPages : InList(p)' => InList(p)
    BY <1>1 DEF SameList
  <2> QED
    BY <1>1, <2>1, UsedStays DEF Shelf
<1>4. RoomSorted'
  BY <1>1 DEF Shelf, RoomSorted, Sorted
<1> QED
  BY <1>1, <1>2, <1>3, <1>4, PagesStay, NodesStay DEF Shelf

(* A worker that neither takes a slot nor gives one back. *)
LEMMA QuietWorker ==
  ASSUME NodeTypes, Shelf, NEW w \in NodeWorkers, NEW from, NEW to, NEW x, Turns(w, from, to, x),
         UNCHANGED <<slotVars, live, pool, workFree>>,
         to \notin {"link", "lock"}, from # "lock"
  PROVE  Shelf'
<1>1. SameFreed /\ SameFreeing
  BY Untouched
<1>2. SameTaken
  <2>1. /\ workAt[w] = from /\ workAt'[w] = to
        /\ \A v \in NodeWorkers \ {w} : workAt'[v] = workAt[v] /\ workNode'[v] = workNode[v]
    BY DEF Turns, Moves, NodeTypes
  <2>2. \A m : ~Taken(w, m)' /\ ~Taken(w, m)
    BY <2>1 DEF Taken
  <2>3. \A v \in NodeWorkers \ {w} : \A m : Taken(v, m)' <=> Taken(v, m)
    BY <2>1 DEF Taken
  <2> QED
    BY <2>2, <2>3 DEF SameTaken
<1>3. ASSUME NEW v \in NodeWorkers, NEW p \in VPages, Linked(v, p)'
      PROVE  Linked(v, p) /\ workNode'[v] = workNode[v]
  <2>1. v # w
    BY <1>3, WorkerTurns
  <2>2. Linked(v, p)
    BY <1>3, <2>1, WorkerTurns
  <2>3. workNode'[v] = workNode[v]
    BY <2>1 DEF Turns, NodeTypes
  <2> QED
    BY <2>2, <2>3
<1> QED
  BY <1>1, <1>2, <1>3, ShelfStays

(* The slot that is free is on the last page, and nobody's. *)
LEMMA TakeSlotShelf ==
  ASSUME NodeTypes, NodeTypes', Shelf, NEW w \in NodeWorkers, TakeSlot(w)
  PROVE  Shelf'
<1> DEFINE p == Last(blocks)
<1>1. /\ blocks \in Seq(VPages) /\ blocks # <<>> /\ freeSlots \in [VPages -> SUBSET Slots]
      /\ used \in [VPages -> Int]
  BY DEF TakeSlot, NodeTypes
<1>2. p = blocks[Len(blocks)] /\ p \in VPages /\ Len(blocks) \in Nat \ {0} /\ InList(p)
  <2>1. p = blocks[Len(blocks)] /\ p \in VPages /\ Len(blocks) \in Nat \ {0}
    BY <1>1, FrontIs
  <2> QED
    BY <2>1 DEF InList
<1> HIDE DEF p
<1>3. PICK k \in freeSlots[p] :
        /\ workNode' = [workNode EXCEPT ![w] = <<p, k>>]
        /\ freeSlots' = [freeSlots EXCEPT ![p] = @ \ {k}]
        /\ used' = [used EXCEPT ![p] = @ + 1]
        /\ blocks' = IF freeSlots'[p] = {} THEN Swapped(p, blocks) ELSE blocks
  BY DEF TakeSlot, p
<1> DEFINE n == <<p, k>>
<1>4. k \in Slots /\ n \in NodePlaces /\ n[1] = p /\ n[2] = k
  BY <1>1, <1>2, <1>3, NodesAre
<1>5. Turns(w, "run", "lock", n) /\ UNCHANGED <<live, pool, workFree>>
  BY <1>3 DEF TakeSlot, Turns, poolVars
<1> HIDE DEF n
<1>6. /\ freeSlots'[p] = freeSlots[p] \ {k} /\ used'[p] = used[p] + 1
      /\ \A q \in VPages \ {p} : freeSlots'[q] = freeSlots[q] /\ used'[q] = used[q]
  BY <1>1, <1>2, <1>3
<1>7. /\ \A j, i \in 1 .. Len(blocks') : blocks'[j] = blocks'[i] => j = i
      /\ SameList /\ RoomSorted'
  <2>1. CASE freeSlots'[p] = {}
    <3>1. Rearranged(VPages, blocks, blocks') /\ Sorted(blocks', freeSlots')
      <4>1. /\ \A j, i \in 1 .. Len(blocks) : blocks[j] = blocks[i] => j = i
            /\ \E i \in 1 .. Len(blocks) : blocks[i] = p
            /\ Sorted(blocks, freeSlots)
        BY <1>2 DEF Shelf, PagesApart, RoomSorted, InList
      <4>2. \A q \in VPages \ {p} : freeSlots'[q] = freeSlots[q]
        BY <1>6
      <4>3. blocks' = Swapped(p, blocks)
        BY <1>3, <2>1
      <4> QED
        BY <1>1, <1>2, <2>1, <4>1, <4>2, <4>3, SwappedParts, SMTT(60)
    <3> QED
      BY <3>1 DEF Rearranged, SameList, InList, RoomSorted
  <2>2. CASE freeSlots'[p] # {}
    <3>1. blocks' = blocks
      BY <1>3, <2>2
    <3>2. ASSUME NEW i \in 1 .. Len(blocks'), NEW j \in 1 .. Len(blocks'), i < j,
                 freeSlots'[blocks'[i]] # {}
          PROVE  freeSlots'[blocks'[j]] # {}
      <4>1. freeSlots[blocks[i]] # {} /\ blocks[i] \in VPages /\ blocks[j] \in VPages
        BY <1>1, <1>6, <3>1, <3>2
      <4>2. freeSlots[blocks[j]] # {}
        BY <3>1, <3>2, <4>1 DEF Shelf, RoomSorted, Sorted
      <4> QED
        BY <1>6, <2>2, <3>1, <4>1, <4>2
    <3>3. RoomSorted'
      BY <3>2 DEF RoomSorted, Sorted
    <3> QED
      BY <3>1, <3>3 DEF Shelf, PagesApart, SameList, InList
  <2> QED
    BY <2>1, <2>2
<1>8. SamePool /\ SameFreed /\ SameFreeing
  BY <1>5, Untouched
<1>9. \A v \in NodeWorkers : \A q \in VPages : Linked(v, q)' <=> Linked(v, q)
  BY <1>5, WorkerTurns
<1>10. PagesApart'
  <2>1. FewerPages
    BY <1>5, <1>7, <1>8, <1>9 DEF FewerPages, Shelf, PagesApart, SameList, SamePool, SameFreed
  <2> QED
    BY <2>1, PagesStay DEF Shelf
<1>11. /\ \A m \in NodePlaces : Sits(m)' <=> Sits(m) \/ m = n
       /\ ~Sits(n)
  <2>1. ~Sits(n)
    BY <1>3, <1>4 DEF Sits
  <2>2. ASSUME NEW m \in NodePlaces PROVE Sits(m)' <=> Sits(m) \/ m = n
    <3>1. m[1] \in VPages /\ m = <<m[1], m[2]>>
      BY NodesAre
    <3>2. InList(m[1])' <=> InList(m[1])
      BY <1>7, <3>1 DEF SameList
    <3>3. m = n <=> m[1] = p /\ m[2] = k
      BY <1>4, <3>1 DEF n
    <3> QED
      BY <1>2, <1>6, <3>1, <3>2, <3>3 DEF Sits
  <2> QED
    BY <2>1, <2>2
<1>12. NodesSit'
  <2>1. \A m \in NodePlaces : (Taken(w, m)' <=> m = n) /\ ~Taken(w, m)
    <3>1. \A m : (Taken(w, m)' <=> n = m) /\ ~Taken(w, m)
      BY <1>5 DEF Turns, Moves, Taken, NodeTypes
    <3> QED
      BY <3>1
  <2>2. \A m \in NodePlaces : \A v \in NodeWorkers \ {w} : Taken(v, m)' <=> Taken(v, m)
    BY <1>5, WorkerTurns
  <2> QED
    BY <1>4, <1>5, <1>8, <1>11, <2>1, <2>2 DEF Shelf, NodesSit, SameFreeing
<1>13. UsedFits'
  <2>1. ASSUME NEW q \in VPages, InList(q)' PROVE used'[q] = Cardinality(Slots \ freeSlots'[q])
    <3>1. used[q] = Cardinality(Slots \ freeSlots[q])
      BY <1>7, <2>1 DEF SameList, Shelf, UsedFits
    <3>2. CASE q = p
      <4>1. Slots \ freeSlots'[q] = (Slots \ freeSlots[q]) \cup {k} /\ k \notin Slots \ freeSlots[q]
        BY <1>3, <1>4, <1>6, <3>2
      <4>2. IsFiniteSet(Slots \ freeSlots[q])
        BY SlotsAssumption, FS_Subset
      <4>3. Cardinality((Slots \ freeSlots[q]) \cup {k}) = Cardinality(Slots \ freeSlots[q]) + 1
        BY <4>1, <4>2, FS_AddElement
      <4> QED
        BY <1>6, <3>1, <3>2, <4>1, <4>3
    <3>3. CASE q # p
      BY <1>6, <3>1, <3>3
    <3> QED
      BY <3>2, <3>3
  <2>2. ASSUME NEW v \in NodeWorkers, NEW q \in VPages, Linked(v, q)'
        PROVE  freeSlots'[q] = Slots \ {workNode'[v][2]} /\ used'[q] = 1
    <3>1. Linked(v, q) /\ v # w
      BY <1>5, <1>9, <2>2, WorkerTurns
    <3>2. q # p
      BY <1>2, <3>1 DEF Shelf, PagesApart
    <3>3. workNode'[v] = workNode[v]
      BY <1>3, <3>1 DEF NodeTypes
    <3> QED
      BY <1>6, <3>1, <3>2, <3>3 DEF Shelf, UsedFits
  <2> QED
    BY <2>1, <2>2 DEF UsedFits
<1> QED
  BY <1>7, <1>10, <1>12, <1>13 DEF Shelf

(* If the last page has no free slot, none has. *)
LEMMA NoSlotShelf ==
  ASSUME NodeTypes, NodeTypes', Shelf, NEW w \in NodeWorkers, NoSlot(w)
  PROVE  Shelf'
<1>1. blocks \in Seq(VPages)
  BY DEF NodeTypes
<1>2. Turns(w, "run", "page", workNode[w]) /\ UNCHANGED <<freeSlots, used, live, pool, workFree>>
  BY TurnsOnly DEF NoSlot, poolVars
<1>3. CASE blocks = <<>>
  <2>1. UNCHANGED <<slotVars, live, pool, workFree>>
    BY <1>2, <1>3 DEF NoSlot, slotVars
  <2> QED
    BY <1>2, <2>1, QuietWorker
<1>4. CASE blocks # <<>>
  <2> DEFINE p == Last(blocks)
  <2>1. p = blocks[Len(blocks)] /\ p \in VPages /\ Len(blocks) \in Nat \ {0} /\ InList(p)
    <3>1. p = blocks[Len(blocks)] /\ p \in VPages /\ Len(blocks) \in Nat \ {0}
      BY <1>1, <1>4, FrontIs
    <3> QED
      BY <3>1 DEF InList
  <2>2. blocks' = Swapped(p, blocks) /\ freeSlots[p] = {}
    BY <1>4 DEF NoSlot
  <2> HIDE DEF p
  <2>3. Rearranged(VPages, blocks, blocks') /\ Sorted(blocks', freeSlots)
    <3>1. /\ \A j, i \in 1 .. Len(blocks) : blocks[j] = blocks[i] => j = i
          /\ \E i \in 1 .. Len(blocks) : blocks[i] = p
          /\ Sorted(blocks, freeSlots)
      BY <2>1 DEF Shelf, PagesApart, RoomSorted, InList
    <3> QED
      BY <1>1, <2>1, <2>2, <3>1, SwappedParts
  <2>4. /\ \A j, i \in 1 .. Len(blocks') : blocks'[j] = blocks'[i] => j = i
        /\ SameList
    BY <2>3 DEF Rearranged, SameList, InList
  <2>5. RoomSorted'
    BY <1>2, <2>3 DEF RoomSorted
  <2>6. SamePool /\ SameFreed /\ SameFreeing
    BY <1>2, Untouched
  <2>7. SameTaken /\ SameLinked
    <3>1. \A v \in NodeWorkers \ {w} : \A p1, m : (Taken(v, m)' <=> Taken(v, m)) /\ (Linked(v, p1)' <=> Linked(v, p1))
      BY <1>2, WorkerTurns
    <3>2. workAt[w] = "run" /\ workAt'[w] = "page"
      BY <1>2 DEF Turns, Moves, NodeTypes
    <3>3. \A p1, m : ~Taken(w, m)' /\ ~Taken(w, m) /\ ~Linked(w, p1)' /\ ~Linked(w, p1)
      BY <3>2 DEF Taken, Linked
    <3> QED
      BY <3>1, <3>3 DEF SameTaken, SameLinked
  <2>8. SameSits
    <3>1. ASSUME NEW m \in NodePlaces PROVE Sits(m)' <=> Sits(m)
      <4>1. m[1] \in VPages
        BY NodesAre
      <4>2. InList(m[1])' <=> InList(m[1])
        BY <2>4, <4>1 DEF SameList
      <4> QED
        BY <1>2, <4>2 DEF Sits
    <3> QED
      BY <3>1 DEF SameSits
  <2>9. FewerPages
    BY <1>2, <2>4, <2>6, <2>7 DEF FewerPages, Shelf, PagesApart, SameList, SamePool, SameFreed, SameLinked
  <2>10. UsedFits'
    <3>1. \A q \in VPages : InList(q)' => InList(q)
      BY <2>4 DEF SameList
    <3>2. \A v \in NodeWorkers : \A q \in VPages : Linked(v, q)' => Linked(v, q) /\ workNode'[v] = workNode[v]
      BY <2>7 DEF SameLinked, NoSlot
    <3> QED
      BY <1>2, <3>1, <3>2, UsedStays DEF Shelf
  <2> QED
    BY <1>2, <2>5, <2>6, <2>7, <2>8, <2>9, <2>10, PagesStay, NodesStay DEF Shelf
<1> QED
  BY <1>3, <1>4

(* A page that is taken from the pool or the system was nowhere else. *)
LEMMA TakenPage ==
  ASSUME NodeTypes, PagesApart, NEW w \in NodeWorkers, TakePage(w)
  PROVE  \E p \in VPages :
           /\ SetUp(w, p) /\ ~InList(p)
           /\ \A v \in NodeWorkers : ~Linked(v, p)
           /\ \A t \in NodeThreads : ~Dropped(t, p)
           /\ \/ /\ pool # <<>> /\ p = Last(pool).page
                 /\ pool' = Front(pool) /\ poolCount' = poolCount - 1
                 /\ early' = (early \/ Last(pool).time > Oldest)
              \/ /\ pool = <<>> /\ p \in Unmapped
                 /\ UNCHANGED <<pool, poolCount, early>>
<1>1. CASE pool # <<>>
  <2>1. /\ SetUp(w, Last(pool).page) /\ pool' = Front(pool) /\ poolCount' = poolCount - 1
        /\ early' = (early \/ Last(pool).time > Oldest)
    BY <1>1 DEF TakePage
  <2>2. /\ Last(pool) = pool[Len(pool)] /\ Last(pool) \in PoolItem /\ Len(pool) \in Nat \ {0}
    BY <1>1, FrontIs DEF NodeTypes
  <2>3. Last(pool).page \in VPages /\ Pooled(Last(pool).page)
    BY <2>2 DEF PoolItem, Pooled
  <2>4. /\ ~InList(Last(pool).page)
        /\ \A v \in NodeWorkers : ~Linked(v, Last(pool).page)
        /\ \A t \in NodeThreads : ~Dropped(t, Last(pool).page)
    BY <2>3 DEF PagesApart
  <2> QED
    BY <1>1, <2>1, <2>3, <2>4
<1>2. CASE pool = <<>>
  <2>1. PICK p \in Unmapped : SetUp(w, p) /\ UNCHANGED <<pool, poolCount, early>>
    BY <1>2 DEF TakePage
  <2>2. p \in VPages /\ ~InList(p)
    BY <2>1 DEF Unmapped, ToSet, InList, NodeTypes
  <2>3. \A v \in NodeWorkers : ~Linked(v, p)
    BY <2>1 DEF Unmapped, Linked
  <2>4. \A t \in NodeThreads : ~Dropped(t, p)
    BY <2>1 DEF Unmapped, Dropped, NodeThreads
  <2> QED
    BY <1>2, <2>1, <2>2, <2>3, <2>4
<1> QED
  BY <1>1, <1>2

(* What is taken from the top of the pool is in it no more. *)
LEMMA PoolFront ==
  ASSUME NodeTypes, PagesApart, pool # <<>>, pool' = Front(pool)
  PROVE  /\ \A j, k \in 1 .. Len(pool') : pool'[j].page = pool'[k].page => j = k
         /\ \A p \in VPages : Pooled(p)' <=> Pooled(p) /\ p # Last(pool).page
         /\ \A k \in 1 .. Len(pool') : k \in 1 .. Len(pool) /\ pool'[k] = pool[k]
         /\ Len(pool') = Len(pool) - 1 /\ Len(pool) \in Nat
<1>1. /\ pool \in Seq(PoolItem) /\ Len(pool') = Len(pool) - 1 /\ Len(pool) \in Nat \ {0}
      /\ \A k \in 1 .. Len(pool) - 1 : pool'[k] = pool[k]
      /\ Last(pool) = pool[Len(pool)]
  BY FrontIs DEF NodeTypes
<1>2. \A j, k \in 1 .. Len(pool) : pool[j].page = pool[k].page => j = k
  BY DEF PagesApart
<1>3. \A k \in 1 .. Len(pool') : k \in 1 .. Len(pool) /\ k # Len(pool) /\ pool'[k] = pool[k]
  BY <1>1
<1>4. \A k \in 1 .. Len(pool) : k # Len(pool) => k \in 1 .. Len(pool')
  BY <1>1
<1>5. ASSUME NEW j \in 1 .. Len(pool'), NEW k \in 1 .. Len(pool'), pool'[j].page = pool'[k].page
      PROVE  j = k
  BY <1>2, <1>3, <1>5
<1>6. ASSUME NEW p \in VPages PROVE Pooled(p)' <=> Pooled(p) /\ p # Last(pool).page
  <2>1. ASSUME NEW k \in 1 .. Len(pool'), pool'[k].page = p
        PROVE  Pooled(p) /\ p # Last(pool).page
    <3>1. k \in 1 .. Len(pool) /\ k # Len(pool) /\ pool[k].page = p /\ Len(pool) \in 1 .. Len(pool)
      BY <1>1, <1>3, <2>1
    <3> QED
      BY <1>1, <1>2, <3>1 DEF Pooled
  <2>2. ASSUME NEW k \in 1 .. Len(pool), pool[k].page = p, p # Last(pool).page
        PROVE  Pooled(p)'
    <3>1. k \in 1 .. Len(pool')
      BY <1>1, <1>4, <2>2
    <3>2. pool'[k].page = p
      BY <1>3, <2>2, <3>1
    <3> QED
      BY <3>1, <3>2 DEF Pooled
  <2> QED
    BY <2>1, <2>2 DEF Pooled
<1> QED
  BY <1>1, <1>3, <1>5, <1>6

(* A page that is set up is in no list yet. *)
LEMMA TakePageShelf ==
  ASSUME NodeTypes, NodeTypes', Shelf, NEW w \in NodeWorkers, TakePage(w)
  PROVE  Shelf'
<1>1. PICK p \in VPages :
           /\ SetUp(w, p) /\ ~InList(p)
           /\ \A v \in NodeWorkers : ~Linked(v, p)
           /\ \A t \in NodeThreads : ~Dropped(t, p)
           /\ \/ pool # <<>> /\ p = Last(pool).page /\ pool' = Front(pool)
              \/ pool = <<>> /\ p \in Unmapped /\ UNCHANGED pool
  BY TakenPage DEF Shelf
<1>2. PICK k \in Slots : /\ workNode' = [workNode EXCEPT ![w] = <<p, k>>]
                         /\ freeSlots' = [freeSlots EXCEPT ![p] = Slots \ {k}]
  BY <1>1 DEF SetUp
<1> DEFINE n == <<p, k>>
<1>3. n \in NodePlaces /\ n[1] = p /\ n[2] = k
  BY NodesAre
<1>4. Turns(w, "page", "link", n) /\ UNCHANGED <<blocks, live, workFree>>
  BY <1>2 DEF TakePage, Turns
<1> HIDE DEF n
<1>5. /\ freeSlots'[p] = Slots \ {k} /\ used'[p] = 1
      /\ \A q \in VPages \ {p} : freeSlots'[q] = freeSlots[q] /\ used'[q] = used[q]
  BY <1>1, <1>2 DEF SetUp, NodeTypes
<1>6. /\ \A j, i \in 1 .. Len(pool') : pool'[j].page = pool'[i].page => j = i
      /\ \A q \in VPages : Pooled(q)' <=> Pooled(q) /\ q # p
  <2>1. CASE pool # <<>> /\ p = Last(pool).page /\ pool' = Front(pool)
    BY <2>1, PoolFront DEF Shelf
  <2>2. CASE pool = <<>> /\ p \in Unmapped /\ UNCHANGED pool
    <3>1. Len(pool) = 0 /\ pool' = pool
      BY <2>2
    <3> QED
      BY <3>1 DEF Pooled
  <2> QED
    BY <1>1, <2>1, <2>2
<1>7. SameList /\ SameFreed /\ SameFreeing
  BY <1>4, Untouched
<1>8. /\ \A q \in VPages : Linked(w, q)' <=> q = p
      /\ \A v \in NodeWorkers \ {w} : \A q \in VPages : Linked(v, q)' <=> Linked(v, q)
  <2>1. \A q \in VPages : Linked(w, q)' <=> n[1] = q
    BY <1>4 DEF Turns, Moves, Linked, NodeTypes
  <2>2. \A v \in NodeWorkers \ {w} : \A q \in VPages : Linked(v, q)' <=> Linked(v, q)
    BY <1>4, WorkerTurns
  <2> QED
    BY <1>3, <2>1, <2>2
<1>9. PagesApart'
  <2>1. \A j, i \in 1 .. Len(blocks') : blocks'[j] = blocks'[i] => j = i
    BY <1>4 DEF Shelf, PagesApart
  <2>2. ASSUME NEW q \in VPages
        PROVE  /\ ~(InList(q)' /\ Pooled(q)')
               /\ \A v \in NodeWorkers : Linked(v, q)' =>
                    /\ ~InList(q)' /\ ~Pooled(q)'
                    /\ \A t \in NodeThreads : ~Dropped(t, q)'
                    /\ \A u \in NodeWorkers : Linked(u, q)' => u = v
               /\ \A t \in NodeThreads : Dropped(t, q)' =>
                    /\ ~InList(q)' /\ ~Pooled(q)'
                    /\ \A u \in NodeThreads : Dropped(u, q)' => u = t
    <3>1. /\ InList(q)' <=> InList(q)
          /\ \A t \in NodeThreads : Dropped(t, q)' <=> Dropped(t, q)
          /\ \A v \in NodeWorkers : Linked(v, q)' <=> (Linked(v, q) \/ (v = w /\ q = p))
      <4>1. \A v \in NodeWorkers : Linked(v, q)' <=> (Linked(v, q) \/ (v = w /\ q = p))
        <5> TAKE v \in NodeWorkers
        <5>1. CASE v = w
          BY <1>4, <1>8, <5>1 DEF Turns, Moves, Linked
        <5>2. CASE v # w
          BY <1>8, <5>2
        <5> QED
          BY <5>1, <5>2
      <4> QED
        BY <1>7, <4>1 DEF SameList, SameFreed
    <3> QED
      BY <1>1, <1>6, <3>1 DEF Shelf, PagesApart
  <2> QED
    BY <1>6, <2>1, <2>2 DEF PagesApart
<1>10. NodesSit'
  <2>1. ASSUME NEW m \in NodePlaces PROVE Sits(m)' <=> Sits(m)
    <3>1. m[1] \in VPages
      BY NodesAre
    <3>2. InList(m[1])' <=> InList(m[1])
      BY <1>7, <3>1 DEF SameList
    <3> QED
      BY <1>1, <1>5, <3>1, <3>2 DEF Sits
  <2>2. \A v \in NodeWorkers \ {w} : \A m \in NodePlaces : Taken(v, m)' <=> Taken(v, m)
    BY <1>4, WorkerTurns
  <2>3. workAt[w] = "page" /\ workAt'[w] = "link"
    BY <1>4 DEF Turns, Moves, NodeTypes
  <2>4. SameTaken
    BY <2>2, <2>3 DEF SameTaken, Taken
  <2> QED
    BY <1>4, <1>7, <2>1, <2>4, NodesStay DEF Shelf, SameSits
<1>11. UsedFits'
  <2>1. ASSUME NEW q \in VPages, InList(q)' PROVE used'[q] = Cardinality(Slots \ freeSlots'[q])
    BY <1>1, <1>5, <1>7, <2>1 DEF SameList, Shelf, UsedFits
  <2>2. ASSUME NEW v \in NodeWorkers, NEW q \in VPages, Linked(v, q)'
        PROVE  freeSlots'[q] = Slots \ {workNode'[v][2]} /\ used'[q] = 1
    <3>1. CASE v = w
      <4>1. q = p /\ workNode'[w] = n
        BY <1>4, <1>8, <2>2, <3>1 DEF Turns, NodeTypes
      <4> QED
        BY <1>3, <1>5, <3>1, <4>1
    <3>2. CASE v # w
      <4>1. Linked(v, q) /\ q # p /\ workNode'[v] = workNode[v]
        BY <1>1, <1>2, <1>8, <2>2, <3>2 DEF NodeTypes
      <4> QED
        BY <1>5, <4>1 DEF Shelf, UsedFits
    <3> QED
      BY <3>1, <3>2
  <2> QED
    BY <2>1, <2>2 DEF UsedFits
<1>12. RoomSorted'
  <2>1. \A i \in 1 .. Len(blocks) : blocks[i] \in VPages \ {p}
    <3>1. blocks \in Seq(VPages)
      BY DEF NodeTypes
    <3>2. \A i \in 1 .. Len(blocks) : blocks[i] \in VPages
      BY <3>1
    <3> QED
      BY <1>1, <3>2 DEF InList
  <2>2. \A i \in 1 .. Len(blocks) : freeSlots'[blocks[i]] = freeSlots[blocks[i]]
    BY <1>5, <2>1
  <2>3. ASSUME NEW i \in 1 .. Len(blocks), NEW j \in 1 .. Len(blocks), i < j,
               freeSlots'[blocks[i]] # {}
        PROVE  freeSlots'[blocks[j]] # {}
    BY <2>2, <2>3 DEF Shelf, RoomSorted, Sorted
  <2> QED
    BY <1>4, <2>3 DEF RoomSorted, Sorted
<1> QED
  BY <1>9, <1>10, <1>11, <1>12 DEF Shelf

(* A new page has room, for it has more than one slot, and comes last. *)
LEMMA LinkPageShelf ==
  ASSUME NodeTypes, NodeTypes', WorkersFit, Shelf, NEW w \in NodeWorkers, LinkPage(w)
  PROVE  Shelf'
<1> DEFINE n == workNode[w]
<1>1. /\ n \in NodePlaces /\ n[1] \in VPages /\ n[2] \in Slots
  <2>1. workAt[w] = "link"
    BY DEF LinkPage, Moves
  <2>2. n # NoNode /\ n \in NodePlaces \cup {NoNode}
    BY <2>1 DEF WorkersFit, NodeTypes
  <2> QED
    BY <2>2, NodesAre
<1>2. PICK p \in VPages, k \in Slots : p = n[1] /\ k = n[2] /\ n = <<p, k>>
  BY <1>1, NodesAre
<1>3. Turns(w, "link", "lock", n) /\ UNCHANGED <<freeSlots, used, live, pool, workFree>>
  BY TurnsOnly DEF LinkPage, poolVars
<1>4. blocks' = Append(blocks, p) /\ blocks \in Seq(VPages)
  BY <1>2 DEF LinkPage, NodeTypes
<1>5. Linked(w, p)
  BY <1>2 DEF LinkPage, Moves, Linked
<1>6. /\ freeSlots[p] = Slots \ {k} /\ used[p] = 1 /\ ~InList(p) /\ ~Pooled(p)
      /\ \A t \in NodeThreads : ~Dropped(t, p)
      /\ \A v \in NodeWorkers : Linked(v, p) => v = w
  BY <1>2, <1>5 DEF Shelf, UsedFits, PagesApart
<1> HIDE DEF n
<1>7. /\ blocks' \in Seq(VPages) /\ Len(blocks') = Len(blocks) + 1 /\ Len(blocks) \in Nat
      /\ \A i \in 1 .. Len(blocks) : i \in 1 .. Len(blocks') /\ blocks'[i] = blocks[i] /\ blocks[i] # p
      /\ blocks'[Len(blocks')] = p
      /\ \A i \in 1 .. Len(blocks') : i # Len(blocks') => i \in 1 .. Len(blocks)
  <2>1. \A i \in 1 .. Len(blocks) : blocks[i] # p
    BY <1>6 DEF InList
  <2> QED
    BY <1>4, <2>1, AppendIs
<1>8. ASSUME NEW i \in 1 .. Len(blocks'), NEW j \in 1 .. Len(blocks'), blocks'[i] = blocks'[j]
      PROVE  i = j
  BY <1>7, <1>8 DEF Shelf, PagesApart
<1>9. \A q \in VPages : InList(q)' <=> InList(q) \/ q = p
  <2>1. Len(blocks') \in 1 .. Len(blocks')
    BY <1>7
  <2> QED
    BY <1>7, <2>1 DEF InList
<1>10. RoomSorted'
  <2>1. freeSlots[p] # {}
    <3>1. CASE Slots = {k}
      <4>1. Cardinality(Slots) = 1
        BY <3>1, FS_Singleton
      <4> QED
        BY <4>1, SlotsAssumption
    <3>2. CASE Slots # {k}
      BY <1>6, <3>2
    <3> QED
      BY <3>1, <3>2
  <2>2. ASSUME NEW i \in 1 .. Len(blocks'), NEW j \in 1 .. Len(blocks'), i < j,
               freeSlots[blocks'[i]] # {}
        PROVE  freeSlots[blocks'[j]] # {}
    <3>1. CASE j = Len(blocks')
      BY <1>7, <2>1, <3>1
    <3>2. CASE j # Len(blocks')
      <4>1. i \in 1 .. Len(blocks) /\ j \in 1 .. Len(blocks)
        BY <1>7, <2>2, <3>2
      <4> QED
        BY <1>7, <2>2, <4>1 DEF Shelf, RoomSorted, Sorted
    <3> QED
      BY <3>1, <3>2
  <2> QED
    BY <1>3, <2>2 DEF RoomSorted, Sorted
<1>11. SamePool /\ SameFreed /\ SameFreeing
  BY <1>3, Untouched
<1>12. /\ workAt[w] = "link" /\ workAt'[w] = "lock" /\ workNode'[w] = n
       /\ \A v \in NodeWorkers \ {w} : workAt'[v] = workAt[v] /\ workNode'[v] = workNode[v]
  BY <1>3 DEF Turns, Moves, NodeTypes
<1>13. PagesApart'
  <2>1. ASSUME NEW q \in VPages
        PROVE  /\ ~(InList(q)' /\ Pooled(q)')
               /\ \A v \in NodeWorkers : Linked(v, q)' =>
                    /\ ~InList(q)' /\ ~Pooled(q)'
                    /\ \A t \in NodeThreads : ~Dropped(t, q)'
                    /\ \A u \in NodeWorkers : Linked(u, q)' => u = v
               /\ \A t \in NodeThreads : Dropped(t, q)' =>
                    /\ ~InList(q)' /\ ~Pooled(q)'
                    /\ \A u \in NodeThreads : Dropped(u, q)' => u = t
    <3>1. /\ Pooled(q)' <=> Pooled(q)
          /\ \A t \in NodeThreads : Dropped(t, q)' <=> Dropped(t, q)
          /\ \A v \in NodeWorkers : Linked(v, q)' <=> (Linked(v, q) /\ v # w)
      BY <1>11, <1>12 DEF SamePool, SameFreed, Linked
    <3> QED
      BY <1>6, <1>9, <3>1 DEF Shelf, PagesApart
  <2> QED
    BY <1>3, <1>8, <2>1 DEF Shelf, PagesApart
<1>14. NodesSit'
  <2>1. ASSUME NEW m \in NodePlaces PROVE Sits(m)' <=> Sits(m) \/ m = n
    <3>1. m[1] \in VPages /\ m[2] \in Slots /\ m = <<m[1], m[2]>>
      BY NodesAre
    <3>2. InList(m[1])' <=> InList(m[1]) \/ m[1] = p
      BY <1>9, <3>1
    <3>3. m = n <=> m[1] = p /\ m[2] = k
      BY <1>2, <3>1
    <3> QED
      BY <1>3, <1>6, <3>1, <3>2, <3>3 DEF Sits
  <2>2. ~Sits(n)
    BY <1>2, <1>6 DEF Sits
  <2>3. \A m \in NodePlaces : /\ Taken(w, m)' <=> m = n
                              /\ ~Taken(w, m)
                              /\ \A v \in NodeWorkers \ {w} : Taken(v, m)' <=> Taken(v, m)
    BY <1>12 DEF Taken
  <2>4. n \in NodePlaces
    BY <1>1 DEF n
  <2> QED
    BY <1>3, <1>11, <2>1, <2>2, <2>3, <2>4 DEF Shelf, NodesSit, SameFreeing
<1>15. UsedFits'
  <2>1. ASSUME NEW q \in VPages, InList(q)' PROVE used[q] = Cardinality(Slots \ freeSlots[q])
    <3>1. CASE q = p
      <4>1. Slots \ freeSlots[q] = {k}
        BY <1>6, <3>1
      <4> QED
        BY <1>6, <3>1, <4>1, FS_Singleton
    <3>2. CASE q # p
      BY <1>9, <2>1, <3>2 DEF Shelf, UsedFits
    <3> QED
      BY <3>1, <3>2
  <2>2. ASSUME NEW v \in NodeWorkers, NEW q \in VPages, Linked(v, q)'
        PROVE  freeSlots[q] = Slots \ {workNode'[v][2]} /\ used[q] = 1
    <3>1. v # w
      BY <1>12, <2>2 DEF Linked
    <3>2. Linked(v, q) /\ workNode'[v] = workNode[v]
      BY <1>12, <2>2, <3>1 DEF Linked
    <3> QED
      BY <3>2 DEF Shelf, UsedFits
  <2> QED
    BY <1>3, <2>1, <2>2 DEF UsedFits
<1> QED
  BY <1>10, <1>13, <1>14, <1>15 DEF Shelf

(* A node gets its id, or its slot is given back. *)
LEMMA LockNewShelf ==
  ASSUME NodeTypes, NodeTypes', WorkersFit, Shelf, NEW w \in NodeWorkers,
         LockNew(w) \/ RefuseNew(w) \/ AbortMade(w)
  PROVE  Shelf'
<1> DEFINE n == workNode[w]
<1>1. n \in NodePlaces /\ UNCHANGED <<slotVars, pool, workNode>>
  BY NodesAre DEF LockNew, RefuseNew, AbortMade, Moves, WorkersFit, NodeTypes, poolVars
<1>2. PICK from \in {"lock", "made"}, to \in {"made", "free"} : Turns(w, from, to, n)
  BY TurnsOnly DEF LockNew, RefuseNew, AbortMade
<1>3. \/ from = "lock" /\ live' = live \cup {n} /\ UNCHANGED workFree
      \/ from = "lock" /\ live' = live /\ workFree' = [workFree EXCEPT ![w] = FreeOf(n, clock)]
      \/ from = "made" /\ live' = live \ {n} /\ workFree' = [workFree EXCEPT ![w] = FreeOf(n, clock)]
  BY <1>2 DEF LockNew, RefuseNew, AbortMade, Turns, Moves
<1>4. from = "lock" => Taken(w, n)
  BY <1>2 DEF Turns, Moves, Taken
<1>5. from = "made" => n \in live
  <2>1. from = "made" => Making(w, n)
    BY <1>2 DEF Turns, Moves, Making
  <2> QED
    BY <1>1, <2>1 DEF WorkersFit
<1>6. workFree[w] = NoFree
  BY <1>2 DEF WorkersFit, Turns, Moves
<1>7. w \in NodeThreads /\ \A p, m : ~Dropped(w, p) /\ ~Freeing(w, m)
  BY <1>6 DEF NodeThreads, NoFree, Dropped, Freeing
<1>8. /\ SameFreed
      /\ \A t \in NodeThreads \ {w} : \A m : Freeing(t, m)' <=> Freeing(t, m)
      /\ live' = live \cup {n} => \A m : ~Freeing(w, m)'
      /\ live' # live \cup {n} => \A m : Freeing(w, m)' <=> m = n
  <2>1. CASE from = "lock" /\ live' = live \cup {n} /\ UNCHANGED workFree
    BY <1>7, <2>1 DEF SameFreed, Dropped, Freeing
  <2>2. CASE workFree' = [workFree EXCEPT ![w] = FreeOf(n, clock)] /\ live' # live \cup {n}
    <3>1. workFree'[w] = FreeOf(n, clock) /\ \A t \in NodeThreads \ {w} : workFree'[t] = workFree[t]
      BY <1>7, <2>2 DEF NodeTypes
    <3>2. FreeOf(n, clock).what = "slot" /\ FreeOf(n, clock).node = n
      BY DEF FreeOf
    <3>3. \A p : Dropped(w, p)' <=> Dropped(w, p)
      BY <1>7, <3>1, <3>2 DEF Dropped
    <3>4. \A m : Freeing(w, m)' <=> m = n
      BY <3>1, <3>2 DEF Freeing
    <3>5. \A t \in NodeThreads \ {w} : \A p, m : (Dropped(t, p)' <=> Dropped(t, p)) /\ (Freeing(t, m)' <=> Freeing(t, m))
      BY <3>1 DEF Dropped, Freeing
    <3> QED
      BY <2>2, <3>3, <3>4, <3>5 DEF SameFreed
  <2>3. n \in live => live \ {n} # live \cup {n}
    OBVIOUS
  <2>4. from = "lock" => n \notin live
    BY <1>1, <1>4 DEF Shelf, NodesSit
  <2>5. n \notin live => live # live \cup {n}
    OBVIOUS
  <2> QED
    BY <1>3, <1>5, <2>1, <2>2, <2>3, <2>4, <2>5
<1>9. /\ \A v \in NodeWorkers \ {w} : \A m : Taken(v, m)' <=> Taken(v, m)
      /\ \A m : ~Taken(w, m)'
      /\ \A m : Taken(w, m) <=> from = "lock" /\ m = n
      /\ SameLinked
  <2>1. /\ workAt[w] = from /\ workAt'[w] = to
        /\ \A v \in NodeWorkers \ {w} : workAt'[v] = workAt[v] /\ workNode'[v] = workNode[v]
    BY <1>2 DEF Turns, Moves, NodeTypes
  <2> QED
    BY <2>1 DEF Taken, SameLinked, Linked
<1> HIDE DEF n
<1>10. SameList /\ SamePool /\ SameSits
  BY <1>1, Untouched DEF slotVars
<1>11. PagesApart'
  <2>1. FewerPages
    BY <1>1, <1>8, <1>9, <1>10
    DEF FewerPages, Shelf, PagesApart, SameList, SamePool, SameFreed, SameLinked, slotVars
  <2> QED
    BY <2>1, PagesStay DEF Shelf
<1>12. NodesSit'
  <2>1. ASSUME NEW m \in NodePlaces, m \in live' PROVE Sits(m)'
    BY <1>1, <1>3, <1>4, <1>10, <2>1 DEF Shelf, NodesSit, SameSits
  <2>2. ASSUME NEW m \in NodePlaces, NEW v \in NodeWorkers, Taken(v, m)'
        PROVE  /\ Sits(m)' /\ m \notin live'
               /\ \A u \in NodeWorkers : Taken(u, m)' => u = v
               /\ \A t \in NodeThreads : ~Freeing(t, m)'
    <3>1. v # w /\ Taken(v, m) /\ Sits(m) /\ m \notin live
      BY <1>9, <2>2 DEF Shelf, NodesSit
    <3>2. m # n
      <4>1. from = "lock" => m # n
        BY <1>1, <1>4, <3>1 DEF Shelf, NodesSit
      <4>2. from = "made" => m # n
        BY <1>5, <3>1
      <4> QED
        BY <4>1, <4>2
    <3>3. Sits(m)' /\ m \notin live'
      BY <1>3, <1>10, <3>1, <3>2 DEF SameSits
    <3>4. \A u \in NodeWorkers : Taken(u, m)' => u = v
      BY <1>9, <3>1 DEF Shelf, NodesSit
    <3>5. \A t \in NodeThreads : ~Freeing(t, m)'
      BY <1>7, <1>8, <3>1, <3>2 DEF Shelf, NodesSit
    <3> QED
      BY <3>3, <3>4, <3>5
  <2>3. ASSUME NEW m \in NodePlaces, NEW t \in NodeThreads, Freeing(t, m)'
        PROVE  /\ Sits(m)' /\ m \notin live'
               /\ \A u \in NodeThreads : Freeing(u, m)' => u = t
    <3>1. \A u \in NodeThreads : ~Freeing(u, n)
      <4>1. from = "lock" => \A u \in NodeThreads : ~Freeing(u, n)
        BY <1>1, <1>4 DEF Shelf, NodesSit
      <4>2. from = "made" => \A u \in NodeThreads : ~Freeing(u, n)
        BY <1>1, <1>5 DEF Shelf, NodesSit
      <4> QED
        BY <4>1, <4>2
    <3>2. Sits(n)
      BY <1>1, <1>3, <1>4, <1>5 DEF Shelf, NodesSit
    <3>3. CASE t = w
      <4>1. m = n /\ live' # live \cup {n}
        BY <1>8, <2>3, <3>3
      <4>2. n \notin live'
        <5>1. from = "lock" => n \notin live
          BY <1>1, <1>4 DEF Shelf, NodesSit
        <5> QED
          BY <1>3, <4>1, <5>1
      <4>3. \A u \in NodeThreads : Freeing(u, m)' => u = t
        BY <1>8, <3>1, <3>3, <4>1
      <4>4. Sits(m)'
        BY <1>1, <1>10, <3>2, <4>1 DEF SameSits
      <4> QED
        BY <4>1, <4>2, <4>3, <4>4
    <3>4. CASE t # w
      <4>1. Freeing(t, m) /\ Sits(m) /\ m \notin live /\ m # n
        BY <1>8, <2>3, <3>1, <3>4 DEF Shelf, NodesSit
      <4>2. \A u \in NodeThreads : Freeing(u, m)' => u = t
        BY <1>8, <4>1 DEF Shelf, NodesSit
      <4> QED
        BY <1>3, <1>10, <4>1, <4>2 DEF SameSits
    <3> QED
      BY <3>3, <3>4
  <2> QED
    BY <2>1, <2>2, <2>3 DEF NodesSit
<1>13. UsedFits'
  <2>1. \A q \in VPages : InList(q)' => InList(q)
    BY <1>10 DEF SameList
  <2>2. \A v \in NodeWorkers : \A q \in VPages : Linked(v, q)' => Linked(v, q) /\ workNode'[v] = workNode[v]
    BY <1>1, <1>9 DEF SameLinked
  <2> QED
    BY <1>1, <2>1, <2>2, UsedStays DEF Shelf, slotVars
<1>14. RoomSorted'
  BY <1>1 DEF slotVars, Shelf, RoomSorted, Sorted
<1> QED
  BY <1>11, <1>12, <1>13, <1>14 DEF Shelf

(* The service thread takes a node that is still there. *)
LEMMA ServeShelf ==
  ASSUME NodeTypes, NodeTypes', DoomedFit, Shelf, ServeDoomed
  PROVE  Shelf'
<1>1. /\ doomed \in Seq(SlotItem) /\ Len(doomed) \in Nat \ {0} /\ Head(doomed) = doomed[1] /\ Head(doomed) \in SlotItem
  BY TailIs DEF ServeDoomed, NodeTypes
<1>2. PICK n \in NodePlaces : n = Head(doomed).node
  BY <1>1 DEF SlotItem
<1>3. n \in live
  BY <1>1, <1>2 DEF DoomedFit
<1>4. /\ live' = live \ {n} /\ UNCHANGED <<slotVars, pool, workAt, workNode>>
      /\ workFree[Servant] = NoFree /\ workFree' = [workFree EXCEPT ![Servant] = Head(doomed)]
  BY <1>2 DEF ServeDoomed, poolVars
<1>5. Servant \in NodeThreads /\ Head(doomed).what = "slot"
  BY <1>1 DEF NodeThreads, SlotItem
<1>6. /\ \A t \in NodeThreads \ {Servant} : \A p, m : (Dropped(t, p)' <=> Dropped(t, p)) /\ (Freeing(t, m)' <=> Freeing(t, m))
      /\ \A p, m : ~Dropped(Servant, p)' /\ ~Dropped(Servant, p) /\ ~Freeing(Servant, m)
      /\ \A m : Freeing(Servant, m)' <=> m = n
  <2>1. workFree'[Servant] = Head(doomed) /\ \A t \in NodeThreads \ {Servant} : workFree'[t] = workFree[t]
    BY <1>4, <1>5 DEF NodeTypes
  <2>2. \A t \in NodeThreads \ {Servant} : \A p, m : (Dropped(t, p)' <=> Dropped(t, p)) /\ (Freeing(t, m)' <=> Freeing(t, m))
    BY <2>1 DEF Dropped, Freeing
  <2>3. \A p, m : ~Dropped(Servant, p)' /\ ~Dropped(Servant, p) /\ ~Freeing(Servant, m)
    BY <1>4, <1>5, <2>1 DEF Dropped, Freeing, NoFree
  <2>4. \A m : Freeing(Servant, m)' <=> m = n
    BY <1>2, <1>5, <2>1 DEF Freeing
  <2> QED
    BY <2>2, <2>3, <2>4
<1>7. SameList /\ SamePool /\ SameSits /\ SameLinked /\ SameTaken
  BY <1>4, Untouched DEF slotVars
<1>8. SameFreed
  BY <1>6 DEF SameFreed
<1>9. PagesApart'
  <2>1. FewerPages
    BY <1>4, <1>7, <1>8
    DEF FewerPages, Shelf, PagesApart, SameList, SamePool, SameFreed, SameLinked, slotVars
  <2> QED
    BY <2>1, PagesStay DEF Shelf
<1>10. NodesSit'
  <2>1. ASSUME NEW m \in NodePlaces
        PROVE  /\ m \in live' => Sits(m)'
               /\ \A v \in NodeWorkers : Taken(v, m)' =>
                    /\ Sits(m)' /\ m \notin live'
                    /\ \A u \in NodeWorkers : Taken(u, m)' => u = v
                    /\ \A t \in NodeThreads : ~Freeing(t, m)'
    <3>1. \A v \in NodeWorkers : Taken(v, m)' => Taken(v, m) /\ m # n
      BY <1>3, <1>7 DEF SameTaken, Shelf, NodesSit
    <3> QED
      BY <1>4, <1>6, <1>7, <3>1 DEF SameTaken, SameSits, Shelf, NodesSit
  <2>2. ASSUME NEW m \in NodePlaces, NEW t \in NodeThreads, Freeing(t, m)'
        PROVE  /\ Sits(m)' /\ m \notin live'
               /\ \A u \in NodeThreads : Freeing(u, m)' => u = t
    <3>1. \A u \in NodeThreads : ~Freeing(u, n)
      BY <1>3 DEF Shelf, NodesSit
    <3>2. CASE t = Servant
      <4>1. m = n
        BY <1>6, <2>2, <3>2
      <4>2. Sits(m)' /\ m \notin live'
        BY <1>3, <1>4, <1>7, <4>1 DEF Shelf, NodesSit, SameSits
      <4>3. \A u \in NodeThreads : Freeing(u, m)' => u = t
        BY <1>6, <3>1, <3>2, <4>1
      <4> QED
        BY <4>2, <4>3
    <3>3. CASE t # Servant
      <4>1. Freeing(t, m) /\ Sits(m) /\ m \notin live /\ m # n
        BY <1>6, <2>2, <3>1, <3>3 DEF Shelf, NodesSit
      <4>2. \A u \in NodeThreads : Freeing(u, m)' => u = t
        BY <1>6, <4>1 DEF Shelf, NodesSit
      <4> QED
        BY <1>4, <1>7, <4>1, <4>2 DEF SameSits
    <3> QED
      BY <3>2, <3>3
  <2> QED
    BY <2>1, <2>2 DEF NodesSit
<1>11. UsedFits'
  <2>1. \A q \in VPages : InList(q)' => InList(q)
    BY <1>7 DEF SameList
  <2>2. \A v \in NodeWorkers : \A q \in VPages : Linked(v, q)' => Linked(v, q) /\ workNode'[v] = workNode[v]
    BY <1>4, <1>7 DEF SameLinked
  <2> QED
    BY <1>4, <2>1, <2>2, UsedStays DEF Shelf, slotVars
<1>12. RoomSorted'
  BY <1>4 DEF slotVars, Shelf, RoomSorted, Sorted
<1> QED
  BY <1>9, <1>10, <1>11, <1>12 DEF Shelf

(* The thread that frees a node has it for itself. *)
LEMMA SlotGiven ==
  ASSUME NodeTypes, NodesSit, NEW t \in NodeThreads, workFree[t].what = "slot"
  PROVE  \E n \in NodePlaces :
           /\ n = workFree[t].node /\ n[1] \in VPages /\ n[2] \in Slots /\ n = <<n[1], n[2]>>
           /\ InList(n[1]) /\ n[2] \notin freeSlots[n[1]] /\ n \notin live
           /\ \A m : Freeing(t, m) <=> m = n
           /\ \A u \in NodeThreads : Freeing(u, n) => u = t
           /\ \A w \in NodeWorkers : ~Taken(w, n)
           /\ \A q : ~Dropped(t, q)
<1>1. PICK n \in NodePlaces : n = workFree[t].node
  BY FreeItems
<1>2. \A m : Freeing(t, m) <=> m = n
  BY <1>1 DEF Freeing
<1>3. /\ Sits(n) /\ n \notin live
      /\ \A u \in NodeThreads : Freeing(u, n) => u = t
      /\ \A w \in NodeWorkers : ~Taken(w, n)
  BY <1>2 DEF NodesSit
<1>4. \A q : ~Dropped(t, q)
  BY DEF Dropped
<1>5. n[1] \in VPages /\ n[2] \in Slots /\ n = <<n[1], n[2]>>
  BY NodesAre
<1> QED
  BY <1>1, <1>2, <1>3, <1>4, <1>5 DEF Sits

(* The last node takes its page with it: no other node is on it. *)
LEMMA LastSlotShelf ==
  ASSUME NodeTypes, NodeTypes', Shelf, NEW t \in NodeThreads, FreeSlot(t),
         used[workFree[t].node[1]] = 1
  PROVE  Shelf'
<1>1. PICK n \in NodePlaces :
           /\ n = workFree[t].node /\ n[1] \in VPages /\ n[2] \in Slots /\ n = <<n[1], n[2]>>
           /\ InList(n[1]) /\ n[2] \notin freeSlots[n[1]] /\ n \notin live
           /\ \A m : Freeing(t, m) <=> m = n
           /\ \A u \in NodeThreads : Freeing(u, n) => u = t
           /\ \A w \in NodeWorkers : ~Taken(w, n)
           /\ \A q : ~Dropped(t, q)
  BY SlotGiven DEF FreeSlot, Shelf
<1>2. PICK p \in VPages : p = n[1]
  BY <1>1
<1>3. /\ blocks' = RemoveFirst(blocks, p) /\ UNCHANGED <<freeSlots, live, pool, workAt, workNode>>
      /\ used' = [used EXCEPT ![p] = @ - 1]
      /\ workFree' = [workFree EXCEPT ![t] = [what |-> "page", page |-> p, time |-> workFree[t].time]]
  BY <1>1, <1>2 DEF FreeSlot, poolVars
<1>4. /\ blocks \in Seq(VPages) /\ \E k \in 1 .. Len(blocks) : blocks[k] = p
      /\ \A j, k \in 1 .. Len(blocks) : blocks[j] = blocks[k] => j = k
  BY <1>1, <1>2 DEF NodeTypes, InList, Shelf, PagesApart
<1>5. Without(VPages, blocks, p, blocks')
  BY <1>3, <1>4, RemovedMembers
<1>6. RoomSorted'
  BY <1>3, <1>4, RemovedSorted DEF Shelf, RoomSorted
<1>7. /\ \A j, k \in 1 .. Len(blocks') : blocks'[j] = blocks'[k] => j = k
      /\ \A q \in VPages : InList(q)' <=> InList(q) /\ q # p
  BY <1>5 DEF Without, InList
<1>8. Slots \ freeSlots[p] = {n[2]}
  <2>1. IsFiniteSet(Slots \ freeSlots[p])
    BY SlotsAssumption, FS_Subset
  <2>2. Cardinality(Slots \ freeSlots[p]) = 1
    BY <1>1, <1>2 DEF Shelf, UsedFits
  <2>3. PICK x : Slots \ freeSlots[p] = {x}
    BY <2>1, <2>2, FS_Singleton
  <2> QED
    BY <1>1, <1>2, <2>3
<1>9. \A m \in NodePlaces : m # n => (Sits(m)' <=> Sits(m))
  <2> TAKE m \in NodePlaces
  <2>1. m[1] \in VPages /\ m[2] \in Slots /\ m = <<m[1], m[2]>>
    BY NodesAre
  <2>2. m[1] = p /\ m # n => m[2] \in freeSlots[p]
    BY <1>1, <1>2, <1>8, <2>1
  <2> QED
    BY <1>3, <1>7, <2>1, <2>2 DEF Sits
<1>10. /\ \A u \in NodeThreads \ {t} : \A q, m : (Dropped(u, q)' <=> Dropped(u, q)) /\ (Freeing(u, m)' <=> Freeing(u, m))
       /\ \A q, m : (Dropped(t, q)' <=> q = p) /\ ~Freeing(t, m)'
  <2> DEFINE f == [what |-> "page", page |-> p, time |-> workFree[t].time]
  <2>1. f.what = "page" /\ f.page = p
    OBVIOUS
  <2>2. workFree' = [workFree EXCEPT ![t] = f]
    BY <1>3
  <2> HIDE DEF f
  <2> QED
    BY <2>1, <2>2, ThreadStores
<1>11. SamePool /\ SameLinked /\ SameTaken
  BY <1>3, Untouched
<1>12. PagesApart'
  <2>1. \A j, k \in 1 .. Len(pool') : pool'[j].page = pool'[k].page => j = k
    BY <1>3 DEF Shelf, PagesApart
  <2>2. ~Pooled(p) /\ (\A u \in NodeThreads : ~Dropped(u, p)) /\ \A w \in NodeWorkers : ~Linked(w, p)
    BY <1>1, <1>2 DEF Shelf, PagesApart
  <2>3. ASSUME NEW q \in VPages
        PROVE  /\ ~(InList(q)' /\ Pooled(q)')
               /\ \A v \in NodeWorkers : Linked(v, q)' =>
                    /\ ~InList(q)' /\ ~Pooled(q)'
                    /\ \A u \in NodeThreads : ~Dropped(u, q)'
                    /\ \A u \in NodeWorkers : Linked(u, q)' => u = v
               /\ \A u \in NodeThreads : Dropped(u, q)' =>
                    /\ ~InList(q)' /\ ~Pooled(q)'
                    /\ \A x \in NodeThreads : Dropped(x, q)' => x = u
    <3>1. CASE q = p
      BY <1>7, <1>10, <1>11, <2>2, <3>1 DEF SamePool, SameLinked
    <3>2. CASE q # p
      <4>1. /\ InList(q)' <=> InList(q)
            /\ Pooled(q)' <=> Pooled(q)
            /\ \A v \in NodeWorkers : Linked(v, q)' <=> Linked(v, q)
        BY <1>7, <1>11, <3>2 DEF SamePool, SameLinked
      <4>2. \A u \in NodeThreads : Dropped(u, q)' <=> Dropped(u, q)
        BY <1>1, <1>10, <3>2
      <4> QED
        BY <4>1, <4>2 DEF Shelf, PagesApart
    <3> QED
      BY <3>1, <3>2
  <2> QED
    BY <1>7, <2>1, <2>3 DEF PagesApart
<1>13. NodesSit'
  <2>1. ASSUME NEW m \in NodePlaces
        PROVE  /\ m \in live' => Sits(m)'
               /\ \A w \in NodeWorkers : Taken(w, m)' =>
                    /\ Sits(m)' /\ m \notin live'
                    /\ \A v \in NodeWorkers : Taken(v, m)' => v = w
                    /\ \A u \in NodeThreads : ~Freeing(u, m)'
               /\ \A u \in NodeThreads : Freeing(u, m)' =>
                    /\ Sits(m)' /\ m \notin live'
                    /\ \A x \in NodeThreads : Freeing(x, m)' => x = u
    <3>1. CASE m = n
      BY <1>1, <1>3, <1>10, <1>11, <3>1 DEF SameTaken
    <3>2. CASE m # n
      BY <1>3, <1>9, <1>10, <1>11, <3>2 DEF SameTaken, Shelf, NodesSit
    <3> QED
      BY <3>1, <3>2
  <2> QED
    BY <2>1 DEF NodesSit
<1>14. UsedFits'
  <2>1. \A q \in VPages \ {p} : used'[q] = used[q]
    BY <1>3 DEF NodeTypes
  <2>2. ASSUME NEW q \in VPages, InList(q)' PROVE used'[q] = Cardinality(Slots \ freeSlots'[q])
    BY <1>3, <1>7, <2>1, <2>2 DEF Shelf, UsedFits
  <2>3. ASSUME NEW w \in NodeWorkers, NEW q \in VPages, Linked(w, q)'
        PROVE  freeSlots'[q] = Slots \ {workNode'[w][2]} /\ used'[q] = 1
    <3>1. Linked(w, q) /\ q # p
      BY <1>1, <1>2, <1>11, <2>3 DEF SameLinked, Shelf, PagesApart
    <3> QED
      BY <1>3, <2>1, <3>1 DEF Shelf, UsedFits
  <2> QED
    BY <2>2, <2>3 DEF UsedFits
<1> QED
  BY <1>6, <1>12, <1>13, <1>14 DEF Shelf

(* A slot is free again. *)
LEMMA SomeSlotShelf ==
  ASSUME NodeTypes, NodeTypes', Shelf, NEW t \in NodeThreads, FreeSlot(t),
         used[workFree[t].node[1]] # 1
  PROVE  Shelf'
<1>1. PICK n \in NodePlaces :
           /\ n = workFree[t].node /\ n[1] \in VPages /\ n[2] \in Slots /\ n = <<n[1], n[2]>>
           /\ InList(n[1]) /\ n[2] \notin freeSlots[n[1]] /\ n \notin live
           /\ \A m : Freeing(t, m) <=> m = n
           /\ \A u \in NodeThreads : Freeing(u, n) => u = t
           /\ \A w \in NodeWorkers : ~Taken(w, n)
           /\ \A q : ~Dropped(t, q)
  BY SlotGiven DEF FreeSlot, Shelf
<1>2. PICK p \in VPages, k \in Slots : p = n[1] /\ k = n[2]
  BY <1>1
<1>3. /\ blocks' = IF freeSlots[p] = {} THEN Queued(p, blocks) ELSE blocks
      /\ UNCHANGED <<live, pool, workAt, workNode>>
      /\ freeSlots' = [freeSlots EXCEPT ![p] = @ \cup {k}]
      /\ used' = [used EXCEPT ![p] = @ - 1]
      /\ workFree' = [workFree EXCEPT ![t] = NoFree]
  BY <1>1, <1>2 DEF FreeSlot, poolVars
<1>4. /\ blocks \in Seq(VPages) /\ \E j \in 1 .. Len(blocks) : blocks[j] = p
      /\ \A i, j \in 1 .. Len(blocks) : blocks[i] = blocks[j] => i = j
  BY <1>1, <1>2 DEF NodeTypes, InList, Shelf, PagesApart
<1>5. /\ freeSlots'[p] = freeSlots[p] \cup {k} /\ used'[p] = used[p] - 1 /\ used[p] \in Int
      /\ \A q \in VPages \ {p} : freeSlots'[q] = freeSlots[q] /\ used'[q] = used[q]
  BY <1>3 DEF NodeTypes
<1>6. Rearranged(VPages, blocks, blocks') /\ RoomSorted'
  <2>1. freeSlots'[p] # {} /\ \A q \in VPages \ {p} : freeSlots'[q] = freeSlots[q]
    BY <1>5
  <2>2. CASE freeSlots[p] = {}
    <3>1. blocks' = Queued(p, blocks) /\ Sorted(blocks, freeSlots)
      BY <1>3, <2>2 DEF Shelf, RoomSorted
    <3>2. Rearranged(VPages, blocks, blocks') /\ Sorted(blocks', freeSlots')
      BY <1>4, <2>1, <3>1, QueuedParts
    <3> QED
      BY <3>2 DEF RoomSorted
  <2>3. CASE freeSlots[p] # {}
    <3>1. blocks' = blocks
      BY <1>3, <2>3
    <3>2. Rearranged(VPages, blocks, blocks')
      BY <1>4, <3>1 DEF Rearranged
    <3>3. \A q \in VPages : freeSlots'[q] # {} <=> freeSlots[q] # {}
      BY <2>1, <2>3
    <3>4. \A j \in 1 .. Len(blocks) : blocks[j] \in VPages
      BY <1>4
    <3>5. RoomSorted'
      <4>1. ASSUME NEW i \in 1 .. Len(blocks), NEW j \in 1 .. Len(blocks), i < j, freeSlots'[blocks[i]] # {}
            PROVE  freeSlots'[blocks[j]] # {}
        <5>1. freeSlots[blocks[i]] # {}
          BY <3>3, <3>4, <4>1
        <5>2. freeSlots[blocks[j]] # {}
          BY <4>1, <5>1 DEF Shelf, RoomSorted, Sorted
        <5> QED
          BY <3>3, <3>4, <5>2
      <4> QED
        BY <3>1, <4>1 DEF RoomSorted, Sorted
    <3> QED
      BY <3>2, <3>5
  <2> QED
    BY <2>2, <2>3
<1>7. /\ \A i, j \in 1 .. Len(blocks') : blocks'[i] = blocks'[j] => i = j
      /\ SameList
  BY <1>6 DEF Rearranged, SameList, InList
<1>8. /\ \A u \in NodeThreads \ {t} : \A q, m : (Dropped(u, q)' <=> Dropped(u, q)) /\ (Freeing(u, m)' <=> Freeing(u, m))
      /\ \A q, m : ~Dropped(t, q)' /\ ~Freeing(t, m)'
  <2>1. NoFree.what # "slot" /\ NoFree.what # "page"
    BY FreeItems
  <2> QED
    BY <1>3, <2>1, ThreadStores
<1>9. SamePool /\ SameLinked /\ SameTaken
  BY <1>3, Untouched
<1>10. PagesApart'
  <2>1. SameFreed
    BY <1>1, <1>8 DEF SameFreed
  <2>2. FewerPages
    BY <1>3, <1>7, <1>9, <2>1
    DEF FewerPages, Shelf, PagesApart, SameList, SamePool, SameFreed, SameLinked
  <2> QED
    BY <2>2, PagesStay DEF Shelf
<1>11. NodesSit'
  <2>1. ASSUME NEW m \in NodePlaces, m # n PROVE Sits(m)' <=> Sits(m)
    <3>1. m[1] \in VPages /\ m[2] \in Slots /\ m = <<m[1], m[2]>>
      BY NodesAre
    <3>2. m[1] = p => m[2] # k
      BY <1>1, <1>2, <2>1, <3>1
    <3>3. InList(m[1])' <=> InList(m[1])
      BY <1>7, <3>1 DEF SameList
    <3> QED
      BY <1>5, <3>1, <3>2, <3>3 DEF Sits
  <2>2. ASSUME NEW m \in NodePlaces
        PROVE  /\ m \in live' => Sits(m)'
               /\ \A w \in NodeWorkers : Taken(w, m)' =>
                    /\ Sits(m)' /\ m \notin live'
                    /\ \A v \in NodeWorkers : Taken(v, m)' => v = w
                    /\ \A u \in NodeThreads : ~Freeing(u, m)'
               /\ \A u \in NodeThreads : Freeing(u, m)' =>
                    /\ Sits(m)' /\ m \notin live'
                    /\ \A x \in NodeThreads : Freeing(x, m)' => x = u
    <3>1. CASE m = n
      BY <1>1, <1>3, <1>8, <1>9, <3>1 DEF SameTaken
    <3>2. CASE m # n
      BY <1>3, <1>8, <1>9, <2>1, <3>2 DEF SameTaken, Shelf, NodesSit
    <3> QED
      BY <3>1, <3>2
  <2> QED
    BY <2>2 DEF NodesSit
<1>12. UsedFits'
  <2>1. ASSUME NEW q \in VPages, InList(q)' PROVE used'[q] = Cardinality(Slots \ freeSlots'[q])
    <3>1. used[q] = Cardinality(Slots \ freeSlots[q])
      BY <1>7, <2>1 DEF SameList, Shelf, UsedFits
    <3>2. CASE q = p
      <4>1. Slots \ freeSlots'[q] = (Slots \ freeSlots[q]) \ {k} /\ k \in Slots \ freeSlots[q]
        BY <1>1, <1>2, <1>5, <3>2
      <4>2. IsFiniteSet(Slots \ freeSlots[q])
        BY SlotsAssumption, FS_Subset
      <4>3. Cardinality((Slots \ freeSlots[q]) \ {k}) = Cardinality(Slots \ freeSlots[q]) - 1
        BY <4>1, <4>2, FS_RemoveElement
      <4> QED
        BY <1>5, <3>1, <3>2, <4>1, <4>3
    <3>3. CASE q # p
      BY <1>5, <3>1, <3>3
    <3> QED
      BY <3>2, <3>3
  <2>2. ASSUME NEW w \in NodeWorkers, NEW q \in VPages, Linked(w, q)'
        PROVE  freeSlots'[q] = Slots \ {workNode'[w][2]} /\ used'[q] = 1
    <3>1. Linked(w, q) /\ q # p
      BY <1>1, <1>2, <1>9, <2>2 DEF SameLinked, Shelf, PagesApart
    <3> QED
      BY <1>3, <1>5, <3>1 DEF Shelf, UsedFits
  <2> QED
    BY <2>1, <2>2 DEF UsedFits
<1> QED
  BY <1>6, <1>10, <1>11, <1>12 DEF Shelf

(* The pool after a collection of what may go: it has no page it did not have. *)
LEMMA FewerPooled ==
  ASSUME NodeTypes, NodeTypes', Shelf, UNCHANGED <<slotVars, live, workVars>>,
         \A j, k \in 1 .. Len(pool') : pool'[j].page = pool'[k].page => j = k,
         \A p \in VPages : Pooled(p)' => Pooled(p)
  PROVE  Shelf'
<1>1. UNCHANGED <<blocks, freeSlots, used, live, workAt, workNode, workFree>>
  BY DEF slotVars, workVars
<1>2. SameList /\ SameSits /\ SameLinked /\ SameTaken /\ SameFreed /\ SameFreeing
  BY <1>1, Untouched
<1>3. FewerPages
  BY <1>1, <1>2 DEF FewerPages, Shelf, PagesApart, SameList, SameLinked, SameFreed
<1>4. UsedFits'
  <2>1. \A p \in VPages : InList(p)' => InList(p)
    BY <1>2 DEF SameList
  <2>2. \A w \in NodeWorkers : \A p \in VPages : Linked(w, p)' => Linked(w, p) /\ workNode'[w] = workNode[w]
    BY <1>1, <1>2 DEF SameLinked
  <2> QED
    BY <1>1, <2>1, <2>2, UsedStays DEF Shelf
<1>5. RoomSorted'
  BY <1>1 DEF Shelf, RoomSorted, Sorted
<1> QED
  BY <1>1, <1>2, <1>3, <1>4, <1>5, PagesStay, NodesStay DEF Shelf

(* A page that is given back to the pool. *)
LEMMA PooledPage ==
  ASSUME NodeTypes, PagesApart, NEW t \in NodeThreads, PoolPage(t)
  PROVE  \E p \in VPages :
           /\ p = workFree[t].page /\ Dropped(t, p)
           /\ pool' = Append(pool, [page |-> p, time |-> workFree[t].time])
           /\ workFree[t].time \in Nat
           /\ \A u \in NodeThreads \ {t} : \A q, m : (Dropped(u, q)' <=> Dropped(u, q)) /\ (Freeing(u, m)' <=> Freeing(u, m))
           /\ \A q, m : ~Dropped(t, q)' /\ ~Freeing(t, m)' /\ ~Freeing(t, m)
           /\ \A j, k \in 1 .. Len(pool') : pool'[j].page = pool'[k].page => j = k
           /\ \A q \in VPages : Pooled(q)' <=> Pooled(q) \/ q = p
           /\ \A k \in 1 .. Len(pool') : \/ pool'[k].page = p /\ pool'[k].time = workFree[t].time
                                         \/ k \in 1 .. Len(pool) /\ pool'[k] = pool[k]
           /\ Len(pool') = Len(pool) + 1
<1>1. PICK p \in VPages : p = workFree[t].page /\ workFree[t].time \in Nat
  BY FreeItems DEF PoolPage
<1>2. /\ Dropped(t, p) /\ (\A m : ~Freeing(t, m))
      /\ pool' = Append(pool, [page |-> p, time |-> workFree[t].time])
      /\ workFree' = [workFree EXCEPT ![t] = NoFree]
  BY <1>1 DEF PoolPage, Dropped, Freeing
<1>3. ~Pooled(p)
  BY <1>2 DEF PagesApart
<1> DEFINE e == [page |-> p, time |-> workFree[t].time]
<1>4. e \in PoolItem /\ e.page = p /\ e.time = workFree[t].time
  BY <1>1 DEF PoolItem
<1>5. pool' = Append(pool, e) /\ pool \in Seq(PoolItem)
  BY <1>2 DEF NodeTypes
<1> HIDE DEF e
<1>6. /\ Len(pool') = Len(pool) + 1 /\ Len(pool) \in Nat
      /\ \A k \in 1 .. Len(pool) : k \in 1 .. Len(pool') /\ pool'[k] = pool[k] /\ pool[k].page # p
      /\ pool'[Len(pool')] = e /\ Len(pool') \in 1 .. Len(pool')
      /\ \A k \in 1 .. Len(pool') : k # Len(pool') => k \in 1 .. Len(pool)
  <2>1. /\ Len(pool') = Len(pool) + 1 /\ Len(pool) \in Nat
        /\ \A k \in 1 .. Len(pool) : pool'[k] = pool[k]
        /\ pool'[Len(pool) + 1] = e
    BY <1>4, <1>5, AppendIs
  <2> QED
    BY <1>3, <2>1 DEF Pooled
<1>7. ASSUME NEW j \in 1 .. Len(pool'), NEW k \in 1 .. Len(pool'), pool'[j].page = pool'[k].page
      PROVE  j = k
  BY <1>4, <1>6, <1>7 DEF PagesApart
<1>8. \A q \in VPages : Pooled(q)' <=> Pooled(q) \/ q = p
  BY <1>4, <1>6 DEF Pooled
<1>9. \A k \in 1 .. Len(pool') : \/ pool'[k].page = p /\ pool'[k].time = workFree[t].time
                                 \/ k \in 1 .. Len(pool) /\ pool'[k] = pool[k]
  BY <1>4, <1>6
<1>10. /\ \A u \in NodeThreads \ {t} : \A q, m : (Dropped(u, q)' <=> Dropped(u, q)) /\ (Freeing(u, m)' <=> Freeing(u, m))
       /\ \A q, m : ~Dropped(t, q)' /\ ~Freeing(t, m)'
  <2>1. NoFree.what # "slot" /\ NoFree.what # "page"
    BY FreeItems
  <2> QED
    BY <1>2, <2>1, ThreadStores
<1>11. Len(pool') = Len(pool) + 1
  BY <1>6
<1> QED
  BY <1>1, <1>2, <1>7, <1>8, <1>9, <1>10, <1>11

(* It is nowhere else. *)
LEMMA PoolPageShelf ==
  ASSUME NodeTypes, NodeTypes', Shelf, NEW t \in NodeThreads, PoolPage(t)
  PROVE  Shelf'
<1>1. PICK p \in VPages :
           /\ p = workFree[t].page /\ Dropped(t, p)
           /\ \A u \in NodeThreads \ {t} : \A q, m : (Dropped(u, q)' <=> Dropped(u, q)) /\ (Freeing(u, m)' <=> Freeing(u, m))
           /\ \A q, m : ~Dropped(t, q)' /\ ~Freeing(t, m)' /\ ~Freeing(t, m)
           /\ \A j, k \in 1 .. Len(pool') : pool'[j].page = pool'[k].page => j = k
           /\ \A q \in VPages : Pooled(q)' <=> Pooled(q) \/ q = p
  BY PooledPage DEF Shelf
<1>2. UNCHANGED <<blocks, freeSlots, used, live, workAt, workNode>>
  BY DEF PoolPage, slotVars
<1>3. SameList /\ SameSits /\ SameLinked /\ SameTaken
  BY <1>2, Untouched
<1>4. /\ ~InList(p) /\ ~Pooled(p)
      /\ \A u \in NodeThreads : Dropped(u, p) => u = t
      /\ \A w \in NodeWorkers : ~Linked(w, p)
  BY <1>1 DEF Shelf, PagesApart
<1>5. PagesApart'
  <2>1. ASSUME NEW q \in VPages
        PROVE  /\ ~(InList(q)' /\ Pooled(q)')
               /\ \A v \in NodeWorkers : Linked(v, q)' =>
                    /\ ~InList(q)' /\ ~Pooled(q)'
                    /\ \A u \in NodeThreads : ~Dropped(u, q)'
                    /\ \A u \in NodeWorkers : Linked(u, q)' => u = v
               /\ \A u \in NodeThreads : Dropped(u, q)' =>
                    /\ ~InList(q)' /\ ~Pooled(q)'
                    /\ \A x \in NodeThreads : Dropped(x, q)' => x = u
    <3>1. CASE q = p
      BY <1>1, <1>3, <1>4, <3>1 DEF SameList, SameLinked
    <3>2. CASE q # p
      <4>1. /\ InList(q)' <=> InList(q)
            /\ Pooled(q)' <=> Pooled(q)
            /\ \A v \in NodeWorkers : Linked(v, q)' <=> Linked(v, q)
        BY <1>1, <1>3, <3>2 DEF SameList, SameLinked
      <4>2. \A u \in NodeThreads : Dropped(u, q)' => Dropped(u, q)
        BY <1>1
      <4> QED
        BY <4>1, <4>2 DEF Shelf, PagesApart
    <3> QED
      BY <3>1, <3>2
  <2> QED
    BY <1>1, <1>2, <2>1 DEF Shelf, PagesApart
<1>6. NodesSit'
  <2>1. SameFreeing
    BY <1>1 DEF SameFreeing
  <2> QED
    BY <1>2, <1>3, <2>1, NodesStay DEF Shelf
<1>7. UsedFits'
  <2>1. \A q \in VPages : InList(q)' => InList(q)
    BY <1>3 DEF SameList
  <2>2. \A w \in NodeWorkers : \A q \in VPages : Linked(w, q)' => Linked(w, q) /\ workNode'[w] = workNode[w]
    BY <1>2, <1>3 DEF SameLinked
  <2> QED
    BY <1>2, <2>1, <2>2, UsedStays DEF Shelf
<1>8. RoomSorted'
  BY <1>2 DEF Shelf, RoomSorted, Sorted
<1> QED
  BY <1>5, <1>6, <1>7, <1>8 DEF Shelf

(* What a collection puts back it has taken from the pool. *)
LEMMA SiftedPages ==
  ASSUME NodeTypes, PagesApart, NEW t \in NodeThreads, PoolSift(t)
  PROVE  /\ \A j, k \in 1 .. Len(pool') : pool'[j].page = pool'[k].page => j = k
         /\ \A p \in VPages : Pooled(p)' => Pooled(p)
<1>1. pool # <<>> /\ Sift(t) /\ Last(pool).time > nodeGcTime[t]
  BY DEF PoolSift
<1>2. /\ \A k \in 1 .. Len(pool') : \E i \in 1 .. Len(pool) : pool'[k] = pool[i]
      /\ \A j, k \in 1 .. Len(pool') : pool'[j].page = pool'[k].page => j = k
  BY <1>1, SiftedParts
<1> QED
  BY <1>2 DEF Pooled

(* A step of a worker. *)
LEMMA WorkShelf ==
  ASSUME NodeTypes, NodeTypes', WorkersFit, Shelf, NEW w \in NodeWorkers, WorkStep(w)
  PROVE  Shelf'
<1>1. CASE Begin(w)
  <2>1. Turns(w, "idle", "run", workNode[w]) /\ UNCHANGED <<slotVars, live, pool, workFree>>
    BY <1>1, TurnsOnly DEF Begin, poolVars
  <2> QED
    BY <2>1, QuietWorker
<1>2. CASE \E n \in live : LockOld(w, n)
  <2>1. PICK n \in live : LockOld(w, n)
    BY <1>2
  <2>2. Turns(w, "run", "delete", n) /\ UNCHANGED <<slotVars, live, pool, workFree>>
    BY <2>1 DEF LockOld, Turns, poolVars
  <2> QED
    BY <2>2, QuietWorker
<1>3. CASE Commit(w)
  <2>1. PICK from \in {"made", "delete"} : EndTransaction(w, from)
    BY <1>3 DEF Commit
  <2>2. Turns(w, from, "idle", NoNode) /\ UNCHANGED <<slotVars, live, pool, workFree>>
    BY <1>3, <2>1 DEF Commit, EndTransaction, Turns, poolVars
  <2> QED
    BY <2>2, QuietWorker
<1>4. CASE AbortEnd(w)
  <2>1. PICK from \in {"run", "delete", "free"} : EndTransaction(w, from)
    BY <1>4 DEF AbortEnd
  <2>2. Turns(w, from, "idle", NoNode) /\ UNCHANGED <<slotVars, live, pool, workFree>>
    BY <1>4, <2>1 DEF AbortEnd, EndTransaction, Turns, poolVars
  <2> QED
    BY <2>2, QuietWorker
<1> QED
  BY <1>1, <1>2, <1>3, <1>4, TakeSlotShelf, NoSlotShelf, TakePageShelf, LinkPageShelf, LockNewShelf
  DEF WorkStep

(* A step of a thread that frees or collects. *)
LEMMA FreeShelf ==
  ASSUME NodeTypes, NodeTypes', Shelf, NEW t \in NodeThreads, FreeStep(t)
  PROVE  Shelf'
<1>1. CASE FreeSlot(t)
  BY <1>1, LastSlotShelf, SomeSlotShelf
<1>2. CASE PoolPage(t)
  BY <1>2, PoolPageShelf
<1>3. CASE PoolRelease(t)
  <2>1. UNCHANGED <<slotVars, live, workVars>> /\ pool # <<>> /\ pool' = Front(pool)
    BY <1>3 DEF PoolRelease
  <2>2. /\ \A j, k \in 1 .. Len(pool') : pool'[j].page = pool'[k].page => j = k
        /\ \A p \in VPages : Pooled(p)' => Pooled(p)
    BY <2>1, PoolFront DEF Shelf
  <2> QED
    BY <2>1, <2>2, FewerPooled
<1>4. CASE PoolSift(t)
  <2>1. UNCHANGED <<slotVars, live, workVars>>
    BY <1>4 DEF PoolSift
  <2>2. /\ \A j, k \in 1 .. Len(pool') : pool'[j].page = pool'[k].page => j = k
        /\ \A p \in VPages : Pooled(p)' => Pooled(p)
    BY <1>4, SiftedPages DEF Shelf
  <2> QED
    BY <2>1, <2>2, FewerPooled
<1>5. CASE PoolDone(t)
  <2>1. UNCHANGED <<slotVars, live, workVars, pool>>
    BY <1>5 DEF PoolDone
  <2>2. SamePool
    BY <2>1, Untouched
  <2>3. /\ \A j, k \in 1 .. Len(pool') : pool'[j].page = pool'[k].page => j = k
        /\ \A p \in VPages : Pooled(p)' => Pooled(p)
    BY <2>1, <2>2 DEF SamePool, Shelf, PagesApart
  <2> QED
    BY <2>1, <2>3, FewerPooled
<1> QED
  BY <1>1, <1>2, <1>3, <1>4, <1>5 DEF FreeStep

(* Every step. *)
LEMMA ShelfKept ==
  ASSUME NodeTypes, NodeTypes', WorkersFit, DoomedFit, Shelf, [NodeNext]_nodeVars
  PROVE  Shelf'
<1>1. CASE UNCHANGED <<slotVars, live, workVars, pool>>
  <2>1. SamePool
    BY <1>1, Untouched
  <2>2. /\ \A j, k \in 1 .. Len(pool') : pool'[j].page = pool'[k].page => j = k
        /\ \A p \in VPages : Pooled(p)' => Pooled(p)
    BY <1>1, <2>1 DEF SamePool, Shelf, PagesApart
  <2> QED
    BY <1>1, <2>2, FewerPooled
<1>2. UNCHANGED nodeVars \/ ReadBegin \/ ReadFind \/ ReadEnd => UNCHANGED <<slotVars, live, workVars, pool>>
  BY DEF nodeVars, poolVars, ReadBegin, ReadFind, ReadEnd
<1> QED
  BY <1>1, <1>2, WorkShelf, FreeShelf, ServeShelf DEF NodeNext, NodeThreads

-----------------------------------------------------------------------------
(* The workers *)

(* A worker's place, its node and what it frees belong together. *)
Placed(w) ==
  /\ workAt[w] \in {"idle", "run", "page"} <=> workNode[w] = NoNode
  /\ workFree[w] # NoFree \/ nodeGcTime[w] # 0 => workAt[w] = "free"
  /\ workAt[w] # "idle" => workStart[w] # 0

(* A step of one worker is no step of another. *)
LEMMA OthersRest ==
  ASSUME NodeTypes, PagesApart, NEW w \in NodeWorkers, WorkStep(w)
  PROVE  /\ \A v \in NodeWorkers \ {w} :
              /\ workAt'[v] = workAt[v] /\ workNode'[v] = workNode[v]
              /\ workStart'[v] = workStart[v] /\ workFree'[v] = workFree[v]
         /\ UNCHANGED <<nodeGcTime, slowRounds, readStart, readNode>>
<1>1. w \in NodeThreads
  BY DEF NodeThreads
<1>2. CASE Begin(w) \/ NoSlot(w) \/ LinkPage(w) \/ LockNew(w)
  BY <1>1, <1>2 DEF Begin, NoSlot, LinkPage, LockNew, Moves, NodeTypes, poolVars, readVars
<1>3. CASE RefuseNew(w) \/ AbortMade(w)
  BY <1>1, <1>3 DEF RefuseNew, AbortMade, Moves, NodeTypes, NodeThreads, poolVars, readVars
<1>4. CASE TakeSlot(w)
  BY <1>4 DEF TakeSlot, Moves, NodeTypes, poolVars, readVars
<1>5. CASE TakePage(w)
  <2>1. PICK p \in VPages : SetUp(w, p)
    BY <1>5, TakenPage
  <2> QED
    BY <1>5, <2>1 DEF TakePage, SetUp, Moves, NodeTypes, readVars
<1>6. CASE \E n \in live : LockOld(w, n)
  BY <1>6 DEF LockOld, Moves, NodeTypes, poolVars, readVars
<1>7. CASE Commit(w) \/ AbortEnd(w)
  BY <1>7 DEF Commit, AbortEnd, EndTransaction, Moves, NodeTypes, poolVars, readVars
<1> QED
  BY <1>2, <1>3, <1>4, <1>5, <1>6, <1>7 DEF WorkStep

(* Where a worker comes to with which node. *)
LEMMA WorkerPlaced ==
  ASSUME NodeTypes, NodeTypes', PagesApart, NEW w \in NodeWorkers, Placed(w), WorkStep(w)
  PROVE  Placed(w)'
<1>1. /\ w \in NodeThreads /\ (\A n \in NodePlaces : n # NoNode) /\ clock # 0 /\ UNCHANGED nodeGcTime
      /\ workNode[w] \in NodePlaces \cup {NoNode}
  <2>1. \A n \in NodePlaces : n # NoNode
    BY NodesAre
  <2> QED
    BY <2>1, OthersRest DEF NodeThreads, NodeTypes
<1>2. CASE Begin(w)
  BY <1>1, <1>2 DEF Begin, Placed, Moves, NodeTypes
<1>3. CASE TakeSlot(w)
  <2>1. PICK n \in NodePlaces : workNode' = [workNode EXCEPT ![w] = n]
    <3>1. blocks \in Seq(VPages) /\ blocks # <<>> /\ freeSlots \in [VPages -> SUBSET Slots]
      BY <1>3 DEF TakeSlot, NodeTypes
    <3>2. Last(blocks) \in VPages
      BY <3>1, FrontIs
    <3>3. PICK k \in freeSlots[Last(blocks)] : workNode' = [workNode EXCEPT ![w] = <<Last(blocks), k>>]
      BY <1>3 DEF TakeSlot
    <3> QED
      BY <3>1, <3>2, <3>3, NodesAre
  <2> QED
    BY <1>1, <1>3, <2>1 DEF TakeSlot, Placed, Moves, NodeTypes
<1>4. CASE NoSlot(w)
  BY <1>1, <1>4 DEF NoSlot, Placed, Moves, NodeTypes
<1>5. CASE TakePage(w)
  <2>1. PICK n \in NodePlaces : workNode' = [workNode EXCEPT ![w] = n]
    <3>1. PICK p \in VPages : SetUp(w, p)
      BY <1>5, TakenPage
    <3> QED
      BY <3>1, NodesAre DEF SetUp
  <2> QED
    BY <1>1, <1>5, <2>1 DEF TakePage, Placed, Moves, NodeTypes
<1>6. CASE LinkPage(w) \/ LockNew(w)
  BY <1>1, <1>6 DEF LinkPage, LockNew, Placed, Moves, NodeTypes
<1>7. CASE RefuseNew(w) \/ AbortMade(w)
  BY <1>1, <1>7 DEF RefuseNew, AbortMade, Placed, Moves, NodeTypes
<1>8. CASE \E n \in live : LockOld(w, n)
  BY <1>1, <1>8 DEF LockOld, Placed, Moves, NodeTypes
<1>9. CASE Commit(w)
  BY <1>1, <1>9 DEF Commit, EndTransaction, Placed, Moves, NodeTypes
<1>10. CASE AbortEnd(w)
  BY <1>1, <1>10 DEF AbortEnd, EndTransaction, Placed, Moves, NodeTypes
<1> QED
  BY <1>2, <1>3, <1>4, <1>5, <1>6, <1>7, <1>8, <1>9, <1>10 DEF WorkStep

(* A worker frees and collects on its way out. *)
LEMMA FreePlaced ==
  ASSUME NodeTypes, NodeTypes', NEW t \in NodeThreads, NEW w \in NodeWorkers, Placed(w), FreeStep(t)
  PROVE  Placed(w)'
<1>1. w \in NodeThreads /\ UNCHANGED <<workAt, workNode, workStart>>
  BY DEF NodeThreads, FreeStep, FreeSlot, PoolPage, PoolRelease, PoolSift, PoolDone, workVars
<1>2. workFree[w] # NoFree \/ nodeGcTime[w] # 0 => workAt[w] = "free"
  BY DEF Placed
<1>3. workFree'[w] # NoFree => workFree[w] # NoFree
  <2>1. CASE FreeSlot(t)
    <3>1. workFree[t] # NoFree
      BY <2>1, FreeItems DEF FreeSlot
    <3>2. CASE t = w
      BY <3>1, <3>2
    <3>3. CASE t # w
      BY <1>1, <2>1, <3>3 DEF FreeSlot, NodeTypes
    <3> QED
      BY <3>2, <3>3
  <2>2. CASE PoolPage(t)
    BY <1>1, <2>2 DEF PoolPage, NodeTypes
  <2>3. CASE PoolRelease(t) \/ PoolSift(t) \/ PoolDone(t)
    BY <2>3 DEF PoolRelease, PoolSift, PoolDone, workVars
  <2> QED
    BY <2>1, <2>2, <2>3 DEF FreeStep
<1>4. nodeGcTime'[w] # 0 => nodeGcTime[w] # 0 \/ workFree[w] # NoFree
  <2>1. CASE FreeSlot(t) \/ PoolRelease(t)
    BY <2>1 DEF FreeSlot, PoolRelease, poolVars
  <2>2. CASE PoolPage(t)
    <3>1. workFree[t] # NoFree
      BY <2>2, FreeItems DEF PoolPage
    <3>2. CASE t = w
      BY <3>1, <3>2
    <3>3. CASE t # w
      BY <1>1, <2>2, <3>3 DEF PoolPage, NodeTypes
    <3> QED
      BY <3>2, <3>3
  <2>3. CASE PoolSift(t) \/ PoolDone(t)
    BY <1>1, <2>3 DEF PoolSift, PoolDone, NodeTypes
  <2> QED
    BY <2>1, <2>2, <2>3 DEF FreeStep
<1> QED
  BY <1>1, <1>2, <1>3, <1>4 DEF Placed

(* A worker holds the lock of the node it has made or deletes, and the service
   thread has not got the node. *)
Own(w, n)   == workAt[w] \in {"made", "delete"} /\ workNode[w] = n
Holds(w, n) == n \in live /\ ~Doomed(n) /\ lockOf[n] = w
Owned == \A w \in NodeWorkers : \A n \in NodePlaces : Own(w, n) => Holds(w, n)

(* The two parts of what holds of the workers. *)
LEMMA FitIs ==
  WorkersFit <=> (\A w \in NodeWorkers : Placed(w)) /\ Owned
BY DEF WorkersFit, Placed, Owned, Own, Holds, Making, Killing

(* What a transaction comes to has not been left to the service thread. *)
LEMMA ReachableIs ==
  ASSUME NodeTypes
  PROVE  \A n : n \in Reachable <=> n \in live /\ ~Doomed(n)
<1>1. doomed \in Seq(SlotItem)
  BY DEF NodeTypes
<1>2. ToSet(doomed) = {doomed[k] : k \in 1 .. Len(doomed)}
  BY <1>1 DEF ToSet
<1> QED
  BY <1>2 DEF Reachable, Doomed

(* A node the service thread has not got, it does not get by a commit of others. *)
LEMMA DoomedMore ==
  ASSUME NodeTypes, NEW e \in SlotItem, doomed' = Append(doomed, e)
  PROVE  /\ \A n : Doomed(n)' <=> Doomed(n) \/ n = e.node
         /\ \A k \in 1 .. Len(doomed') : \/ k \in 1 .. Len(doomed) /\ doomed'[k] = doomed[k]
                                         \/ k = Len(doomed') /\ doomed'[k] = e
<1>1. /\ Len(doomed') = Len(doomed) + 1 /\ Len(doomed) \in Nat
      /\ \A k \in 1 .. Len(doomed) : doomed'[k] = doomed[k]
      /\ doomed'[Len(doomed) + 1] = e
  BY AppendIs DEF NodeTypes
<1>2. \A k \in 1 .. Len(doomed') : k \in 1 .. Len(doomed) \/ k = Len(doomed')
  BY <1>1
<1>3. \A k \in 1 .. Len(doomed) : k \in 1 .. Len(doomed')
  BY <1>1
<1>4. Len(doomed') \in 1 .. Len(doomed') /\ doomed'[Len(doomed')] = e
  BY <1>1
<1>5. ASSUME NEW n, Doomed(n)' PROVE Doomed(n) \/ n = e.node
  BY <1>1, <1>2, <1>4, <1>5 DEF Doomed
<1>6. ASSUME NEW n, Doomed(n) PROVE Doomed(n)'
  <2>1. PICK k \in 1 .. Len(doomed) : doomed[k].node = n
    BY <1>6 DEF Doomed
  <2>2. doomed'[k].node = n /\ k \in 1 .. Len(doomed')
    BY <1>1, <1>3, <2>1
  <2> QED
    BY <2>2 DEF Doomed
<1>7. Doomed(e.node)'
  BY <1>4 DEF Doomed
<1> QED
  BY <1>1, <1>2, <1>4, <1>5, <1>6, <1>7

(* The node whose deletion a worker commits. *)
LEMMA KilledItem ==
  ASSUME NodeTypes, PagesApart, \A w \in NodeWorkers : Placed(w), NEW w \in NodeWorkers, Commit(w)
  PROVE  \/ workAt[w] = "made" /\ UNCHANGED doomVars
         \/ \E n \in NodePlaces : \E e \in SlotItem :
              /\ workAt[w] = "delete" /\ workNode[w] = n /\ n[1] \in VPages
              /\ e.node = n /\ doomed' = Append(doomed, e)
              /\ lastDeath' = [lastDeath EXCEPT ![n[1]] = clock']
<1>1. CASE EndTransaction(w, "made") /\ UNCHANGED doomVars
  BY <1>1 DEF EndTransaction, Moves
<1>2. CASE /\ EndTransaction(w, "delete")
           /\ doomed' = Append(doomed, FreeOf(workNode[w], clock'))
           /\ lastDeath' = [lastDeath EXCEPT ![workNode[w][1]] = clock']
  <2>1. workAt[w] = "delete" /\ clock' = clock + 1 /\ clock \in Nat
    BY <1>2 DEF EndTransaction, Moves, NodeTypes
  <2>2. workNode[w] \in NodePlaces
    BY <2>1 DEF Placed, NodeTypes
  <2>3. workNode[w][1] \in VPages
    BY <2>2, NodesAre
  <2>4. FreeOf(workNode[w], clock') \in SlotItem /\ FreeOf(workNode[w], clock').node = workNode[w]
    BY <2>1, <2>2 DEF FreeOf, SlotItem
  <2> QED
    BY <1>2, <2>1, <2>2, <2>3, <2>4
<1> QED
  BY <1>1, <1>2 DEF Commit

(* Nobody takes away what a worker holds. *)
LEMMA OthersHold ==
  ASSUME NodeTypes, Shelf, WorkersFit, NEW w \in NodeWorkers, WorkStep(w),
         NEW v \in NodeWorkers \ {w}, NEW n \in NodePlaces, Holds(v, n)
  PROVE  Holds(v, n)'
<1>1. /\ n \in live /\ ~Doomed(n) /\ lockOf[n] = v /\ v # Open
      /\ UNCHANGED doomed => ~Doomed(n)'
  BY SlotsAssumption DEF Holds, Doomed
<1>2. \A m \in NodePlaces : Own(w, m) => m # n
  BY <1>1, FitIs DEF Owned, Holds
<1>3. CASE Begin(w) \/ NoSlot(w) \/ LinkPage(w) \/ RefuseNew(w) \/ TakeSlot(w)
  BY <1>1, <1>3 DEF Begin, NoSlot, LinkPage, RefuseNew, TakeSlot, doomVars, Holds
<1>4. CASE TakePage(w)
  <2>1. PICK p \in VPages : SetUp(w, p) /\ ~InList(p)
    BY <1>4, TakenPage DEF Shelf
  <2>2. n[1] # p
    BY <1>1, <2>1 DEF Shelf, NodesSit, Sits
  <2>3. lockOf'[n] = lockOf[n]
    BY <2>1, <2>2 DEF SetUp
  <2> QED
    BY <1>1, <1>4, <2>3 DEF TakePage, doomVars, Holds
<1>5. CASE LockNew(w)
  <2>1. lockOf[workNode[w]] = Open /\ lockOf' = [lockOf EXCEPT ![workNode[w]] = w] /\ live' = live \cup {workNode[w]} /\ UNCHANGED doomed
    BY <1>5 DEF LockNew, Lockable, doomVars
  <2>2. workNode[w] # n
    BY <1>1, <2>1
  <2>3. lockOf'[n] = lockOf[n]
    BY <2>1, <2>2 DEF NodeTypes
  <2> QED
    BY <1>1, <2>1, <2>3 DEF Holds
<1>6. CASE \E m \in live : LockOld(w, m)
  <2>1. PICK m \in live : /\ lockOf[m] = Open /\ lockOf' = [lockOf EXCEPT ![m] = w]
                          /\ UNCHANGED <<live, doomed>>
    BY <1>6 DEF LockOld, Lockable, doomVars
  <2>2. m # n
    BY <1>1, <2>1
  <2>3. lockOf'[n] = lockOf[n]
    BY <2>1, <2>2 DEF NodeTypes
  <2> QED
    BY <1>1, <2>1, <2>3 DEF Holds
<1>7. CASE AbortMade(w)
  <2>1. workAt[w] = "made" /\ live' = live \ {workNode[w]} /\ UNCHANGED <<lockOf, doomed>>
    BY <1>7 DEF AbortMade, Moves, doomVars
  <2>2. workNode[w] # n
    BY <1>2, <2>1 DEF Own
  <2> QED
    BY <1>1, <2>1, <2>2 DEF Holds
<1>8. ASSUME NEW from, EndTransaction(w, from) PROVE lockOf'[n] = lockOf[n]
  <2>1. CASE workNode[w] # NoNode /\ lockOf[workNode[w]] = w
    <3>1. workNode[w] # n /\ lockOf' = [lockOf EXCEPT ![workNode[w]] = Open]
      BY <1>1, <1>8, <2>1 DEF EndTransaction
    <3> QED
      BY <3>1 DEF NodeTypes
  <2>2. CASE ~(workNode[w] # NoNode /\ lockOf[workNode[w]] = w)
    BY <1>8, <2>2 DEF EndTransaction
  <2> QED
    BY <2>1, <2>2
<1>9. CASE AbortEnd(w)
  <2>1. UNCHANGED <<live, doomed>> /\ lockOf'[n] = lockOf[n]
    BY <1>8, <1>9 DEF AbortEnd, doomVars
  <2> QED
    BY <1>1, <2>1 DEF Holds
<1>10. CASE Commit(w)
  <2>1. UNCHANGED live /\ lockOf'[n] = lockOf[n]
    BY <1>8, <1>10 DEF Commit
  <2>2. \A u \in NodeWorkers : Placed(u)
    BY FitIs
  <2>3. CASE UNCHANGED doomVars
    BY <1>1, <2>1, <2>3 DEF Holds, doomVars
  <2>4. CASE \E m \in NodePlaces : \E e \in SlotItem :
               /\ workAt[w] = "delete" /\ workNode[w] = m
               /\ e.node = m /\ doomed' = Append(doomed, e)
    <3>1. PICK m \in NodePlaces, e \in SlotItem :
               /\ workAt[w] = "delete" /\ workNode[w] = m
               /\ e.node = m /\ doomed' = Append(doomed, e)
      BY <2>4
    <3>2. m # n
      BY <1>2, <3>1 DEF Own
    <3>3. ~Doomed(n)'
      BY <1>1, <3>1, <3>2, DoomedMore
    <3> QED
      BY <1>1, <2>1, <3>3 DEF Holds
  <2> QED
    BY <1>10, <2>2, <2>3, <2>4, KilledItem DEF Shelf
<1> QED
  BY <1>3, <1>4, <1>5, <1>6, <1>7, <1>9, <1>10 DEF WorkStep

(* A worker that begins to own a node has locked it. *)
LEMMA WorkerHolds ==
  ASSUME NodeTypes, Shelf, WorkersFit, DoomedFit, NEW w \in NodeWorkers, WorkStep(w),
         NEW n \in NodePlaces, Own(w, n)'
  PROVE  Holds(w, n)'
<1>1. /\ \A m : Own(w, m)' <=> workAt'[w] \in {"made", "delete"} /\ workNode'[w] = m
      /\ UNCHANGED doomed => (Doomed(n)' <=> Doomed(n))
  BY DEF Own, Doomed
<1>2. CASE LockNew(w)
  <2>1. /\ workAt[w] = "lock" /\ lockOf' = [lockOf EXCEPT ![workNode[w]] = w]
        /\ live' = live \cup {workNode[w]} /\ UNCHANGED <<workNode, doomed>>
    BY <1>2 DEF LockNew, Moves, doomVars
  <2>2. workNode[w] = n
    BY <1>1, <2>1
  <2>3. n \notin live
    BY <2>1, <2>2 DEF Shelf, NodesSit, Taken
  <2>4. ~Doomed(n)
    BY <2>3 DEF Doomed, DoomedFit
  <2> QED
    BY <1>1, <2>1, <2>2, <2>4 DEF Holds, NodeTypes
<1>3. CASE \E m \in live : LockOld(w, m)
  <2>1. PICK m \in live : /\ m \in Reachable /\ lockOf' = [lockOf EXCEPT ![m] = w]
                          /\ workNode' = [workNode EXCEPT ![w] = m]
                          /\ UNCHANGED <<live, doomed>>
    BY <1>3 DEF LockOld, doomVars
  <2>2. m = n
    BY <1>1, <2>1 DEF NodeTypes
  <2>3. ~Doomed(n)
    BY <2>1, <2>2, ReachableIs
  <2> QED
    BY <1>1, <2>1, <2>2, <2>3 DEF Holds, NodeTypes
<1>4. WorkStep(w) => (LockNew(w) \/ (\E m \in live : LockOld(w, m))
                      \/ workAt'[w] \in {"idle", "run", "page", "link", "lock", "free"})
  <2>1. ASSUME NEW from, NEW to, Moves(w, from, to) PROVE workAt'[w] = to
    BY <2>1 DEF Moves, NodeTypes
  <2> QED
    BY <2>1 DEF WorkStep, Begin, TakeSlot, NoSlot, TakePage, LinkPage, RefuseNew, Commit, AbortMade, AbortEnd, EndTransaction
<1> QED
  BY <1>1, <1>2, <1>3, <1>4

(* The service thread turns to the first of its nodes, which is not among the
   others. *)
LEMMA DoomedLess ==
  ASSUME NodeTypes, DoomedFit, ServeDoomed
  PROVE  \E d \in NodePlaces :
           /\ Doomed(d) /\ d \in live /\ live' = live \ {d}
           /\ \A n : Doomed(n)' <=> Doomed(n) /\ n # d
           /\ \A j, k \in 1 .. Len(doomed') : doomed'[j].node = doomed'[k].node => j = k
<1>1. /\ doomed \in Seq(SlotItem) /\ doomed # <<>> /\ doomed' = Tail(doomed) /\ live' = live \ {Head(doomed).node}
  BY DEF ServeDoomed, NodeTypes
<1>2. /\ Len(doomed') = Len(doomed) - 1 /\ Len(doomed) \in Nat \ {0}
      /\ \A k \in 1 .. Len(doomed) - 1 : doomed'[k] = doomed[k + 1]
      /\ Head(doomed) = doomed[1] /\ doomed[1] \in SlotItem
  BY <1>1, TailIs
<1>3. PICK d \in NodePlaces : d = doomed[1].node
  BY <1>2 DEF SlotItem
<1>4. /\ \A k \in 1 .. Len(doomed') : k + 1 \in 1 .. Len(doomed) /\ k + 1 # 1 /\ doomed'[k] = doomed[k + 1]
      /\ \A k \in 1 .. Len(doomed) : k # 1 => k - 1 \in 1 .. Len(doomed') /\ doomed'[k - 1] = doomed[k]
      /\ 1 \in 1 .. Len(doomed)
  BY <1>2
<1>5. \A j, k \in 1 .. Len(doomed) : doomed[j].node = doomed[k].node => j = k
  BY DEF DoomedFit
<1>6. ASSUME NEW j \in 1 .. Len(doomed'), NEW k \in 1 .. Len(doomed'), doomed'[j].node = doomed'[k].node
      PROVE  j = k
  <2>1. j + 1 = k + 1
    BY <1>4, <1>5, <1>6
  <2> QED
    BY <2>1
<1>7. ASSUME NEW n, Doomed(n)' PROVE Doomed(n) /\ n # d
  <2>1. PICK k \in 1 .. Len(doomed') : doomed'[k].node = n
    BY <1>7 DEF Doomed
  <2>2. k + 1 \in 1 .. Len(doomed) /\ doomed[k + 1].node = n /\ k + 1 # 1
    BY <1>4, <2>1
  <2>3. Doomed(n)
    BY <2>2 DEF Doomed
  <2> QED
    BY <1>3, <1>4, <1>5, <2>2, <2>3
<1>8. ASSUME NEW n, Doomed(n), n # d PROVE Doomed(n)'
  <2>1. PICK k \in 1 .. Len(doomed) : doomed[k].node = n
    BY <1>8 DEF Doomed
  <2>2. k # 1
    BY <1>3, <1>8, <2>1
  <2>3. k - 1 \in 1 .. Len(doomed') /\ doomed'[k - 1].node = n
    BY <1>4, <2>1, <2>2
  <2> QED
    BY <2>3 DEF Doomed
<1>9. Doomed(d)
  BY <1>3, <1>4 DEF Doomed
<1>10. d \in live
  BY <1>3, <1>4 DEF DoomedFit
<1> QED
  BY <1>1, <1>2, <1>3, <1>6, <1>7, <1>8, <1>9, <1>10

(* A worker and its node, in every step. *)
LEMMA WorkersKept ==
  ASSUME NodeTypes, NodeTypes', WorkersFit, DoomedFit, Shelf, [NodeNext]_nodeVars
  PROVE  WorkersFit'
<1>1. (\A w \in NodeWorkers : Placed(w)) /\ Owned
  BY FitIs
<1>2. CASE \E w \in NodeWorkers : WorkStep(w)
  <2>1. PICK w \in NodeWorkers : WorkStep(w)
    BY <1>2
  <2>2. \A v \in NodeWorkers \ {w} : /\ workAt'[v] = workAt[v] /\ workNode'[v] = workNode[v]
                                     /\ workStart'[v] = workStart[v] /\ workFree'[v] = workFree[v]
                                     /\ nodeGcTime'[v] = nodeGcTime[v]
    BY <2>1, OthersRest DEF Shelf
  <2>3. \A v \in NodeWorkers \ {w} : Placed(v)'
    BY <1>1, <2>2 DEF Placed
  <2>4. Placed(w)'
    BY <1>1, <2>1, WorkerPlaced DEF Shelf
  <2>5. \A v \in NodeWorkers \ {w} : \A n \in NodePlaces : Own(v, n)' => Holds(v, n)'
    <3>1. \A v \in NodeWorkers \ {w} : \A n \in NodePlaces : Own(v, n)' => Holds(v, n)
      BY <1>1, <2>2 DEF Own, Owned
    <3> QED
      BY <2>1, <3>1, OthersHold
  <2>6. \A n \in NodePlaces : Own(w, n)' => Holds(w, n)'
    BY <2>1, WorkerHolds
  <2>7. Owned'
    BY <2>5, <2>6 DEF Owned
  <2>8. \A v \in NodeWorkers : Placed(v)'
    BY <2>3, <2>4
  <2>9. WorkersFit' <=> (\A v \in NodeWorkers : Placed(v)') /\ Owned'
    BY DEF WorkersFit, Placed, Owned, Own, Holds, Making, Killing
  <2> QED
    BY <2>7, <2>8, <2>9
<1>3. WorkersFit' <=> (\A v \in NodeWorkers : Placed(v)') /\ Owned'
  BY DEF WorkersFit, Placed, Owned, Own, Holds, Making, Killing
<1>4. CASE \E t \in NodeThreads : FreeStep(t)
  <2>1. PICK t \in NodeThreads : FreeStep(t)
    BY <1>4
  <2>2. \A w \in NodeWorkers : Placed(w)'
    BY <1>1, <2>1, FreePlaced
  <2>3. UNCHANGED <<live, doomed, lockOf, workAt, workNode>>
    BY <2>1 DEF FreeStep, FreeSlot, PoolPage, PoolRelease, PoolSift, PoolDone, doomVars, workVars
  <2>4. Owned'
    BY <1>1, <2>3 DEF Owned, Own, Holds, Doomed
  <2> QED
    BY <1>3, <2>2, <2>4
<1>5. CASE ServeDoomed
  <2>1. PICK d \in NodePlaces : /\ Doomed(d) /\ live' = live \ {d}
                                /\ \A n : Doomed(n)' <=> Doomed(n) /\ n # d
    BY <1>5, DoomedLess
  <2>2. /\ UNCHANGED <<lockOf, workAt, workNode, workStart, nodeGcTime>>
        /\ \A w \in NodeWorkers : workFree'[w] = workFree[w]
    BY <1>5, SlotsAssumption DEF ServeDoomed, NodeTypes, NodeThreads, poolVars
  <2>3. \A w \in NodeWorkers : Placed(w)'
    BY <1>1, <2>2 DEF Placed
  <2>4. Owned'
    BY <1>1, <2>1, <2>2 DEF Owned, Own, Holds
  <2> QED
    BY <1>3, <2>3, <2>4
<1>6. CASE UNCHANGED nodeVars \/ ReadBegin \/ ReadFind \/ ReadEnd
  <2>1. UNCHANGED <<live, lockOf, workVars, doomed, nodeGcTime>>
    BY <1>6 DEF nodeVars, poolVars, ReadBegin, ReadFind, ReadEnd, doomVars
  <2> QED
    BY <1>1, <1>3, <2>1 DEF Placed, Owned, Own, Holds, Doomed, workVars
<1> QED
  BY <1>2, <1>4, <1>5, <1>6 DEF NodeNext, NodeThreads

(* The nodes of the service thread are there, each once. *)
LEMMA DoomedKept ==
  ASSUME NodeTypes, WorkersFit, DoomedFit, PagesApart, [NodeNext]_nodeVars
  PROVE  DoomedFit'
<1>1. (\A w \in NodeWorkers : Placed(w)) /\ Owned
  BY FitIs
<1>2. CASE UNCHANGED <<live, doomed>>
  BY <1>2 DEF DoomedFit
<1>3. CASE ServeDoomed
  <2>1. PICK d \in NodePlaces : /\ live' = live \ {d}
                                /\ \A n : Doomed(n)' <=> Doomed(n) /\ n # d
                                /\ \A j, k \in 1 .. Len(doomed') : doomed'[j].node = doomed'[k].node => j = k
    BY <1>3, DoomedLess
  <2>2. ASSUME NEW k \in 1 .. Len(doomed') PROVE doomed'[k].node \in live'
    <3>1. \A n : n = doomed'[k].node => Doomed(n)'
      BY DEF Doomed
    <3>2. Doomed(doomed'[k].node) /\ doomed'[k].node # d
      BY <2>1, <3>1
    <3>3. doomed'[k].node \in live
      BY <3>2 DEF Doomed, DoomedFit
    <3> QED
      BY <2>1, <3>2, <3>3
  <2> QED
    BY <2>1, <2>2 DEF DoomedFit
<1>4. ASSUME NEW w \in NodeWorkers, LockNew(w) PROVE DoomedFit'
  <2>1. UNCHANGED doomed /\ live' = live \cup {workNode[w]}
    BY <1>4 DEF LockNew, doomVars
  <2> QED
    BY <2>1 DEF DoomedFit
<1>5. ASSUME NEW w \in NodeWorkers, AbortMade(w) PROVE DoomedFit'
  <2>1. workAt[w] = "made" /\ live' = live \ {workNode[w]} /\ UNCHANGED doomed
    BY <1>5 DEF AbortMade, Moves, doomVars
  <2>2. workNode[w] \in NodePlaces
    BY <1>1, <2>1 DEF Placed, NodeTypes
  <2>3. ~Doomed(workNode[w])
    BY <1>1, <2>1, <2>2 DEF Owned, Own, Holds
  <2> QED
    BY <2>1, <2>3 DEF DoomedFit, Doomed
<1>6. ASSUME NEW w \in NodeWorkers, Commit(w) PROVE DoomedFit'
  <2>1. UNCHANGED live
    BY <1>6 DEF Commit
  <2>2. CASE UNCHANGED doomVars
    BY <1>2, <2>1, <2>2 DEF doomVars
  <2>3. CASE \E n \in NodePlaces : \E e \in SlotItem :
               /\ workAt[w] = "delete" /\ workNode[w] = n
               /\ e.node = n /\ doomed' = Append(doomed, e)
    <3>1. PICK n \in NodePlaces, e \in SlotItem :
               /\ workAt[w] = "delete" /\ workNode[w] = n
               /\ e.node = n /\ doomed' = Append(doomed, e)
      BY <2>3
    <3>2. n \in live /\ ~Doomed(n)
      BY <1>1, <3>1 DEF Owned, Own, Holds
    <3>3. \A k \in 1 .. Len(doomed') : \/ k \in 1 .. Len(doomed) /\ doomed'[k] = doomed[k]
                                       \/ k = Len(doomed') /\ doomed'[k] = e
      BY <3>1, DoomedMore
    <3>4. \A k \in 1 .. Len(doomed) : doomed[k].node # n
      BY <3>2 DEF Doomed
    <3> QED
      BY <2>1, <3>1, <3>2, <3>3, <3>4 DEF DoomedFit
  <2> QED
    BY <1>1, <1>6, <2>2, <2>3, KilledItem
<1>7. ASSUME NEW w \in NodeWorkers, WorkStep(w), ~LockNew(w), ~AbortMade(w), ~Commit(w)
      PROVE  UNCHANGED <<live, doomed>>
  BY <1>7 DEF WorkStep, Begin, TakeSlot, NoSlot, TakePage, LinkPage, RefuseNew, LockOld, AbortEnd, doomVars
<1>8. ASSUME NEW t \in NodeThreads, FreeStep(t) PROVE UNCHANGED <<live, doomed>>
  BY <1>8 DEF FreeStep, FreeSlot, PoolPage, PoolRelease, PoolSift, PoolDone, doomVars
<1>9. UNCHANGED nodeVars \/ ReadBegin \/ ReadFind \/ ReadEnd => UNCHANGED <<live, doomed>>
  BY DEF nodeVars, ReadBegin, ReadFind, ReadEnd, doomVars
<1> QED
  BY <1>2, <1>3, <1>4, <1>5, <1>6, <1>7, <1>8, <1>9 DEF NodeNext, NodeThreads

-----------------------------------------------------------------------------
(* The clock and the pool's counter *)

(* The clock does not go back, and what ends a transaction advances it. *)
LEMMA ClockRuns ==
  ASSUME NodeTypes, [NodeNext]_nodeVars
  PROVE  clock' \in Nat /\ clock \in Nat /\ clock <= clock'
<1>1. clock \in Nat /\ (clock' = clock \/ clock' = clock + 1)
  BY DEF NodeTypes, NodeNext, WorkStep, FreeStep, nodeVars, Begin, TakeSlot, NoSlot, TakePage, LinkPage,
         LockNew, RefuseNew, LockOld, Commit, AbortMade, AbortEnd, EndTransaction, ServeDoomed, FreeSlot,
         PoolPage, PoolRelease, PoolSift, PoolDone, ReadBegin, ReadFind, ReadEnd
<1> QED
  BY <1>1

(* No transaction begins in the future, and a worker collects for itself. *)
LEMMA TimesKept ==
  ASSUME NodeTypes, NodeTypes', PagesApart, WorkersFit, TimesFit, [NodeNext]_nodeVars
  PROVE  TimesFit'
<1>1. clock' \in Nat /\ clock \in Nat /\ clock <= clock'
  BY ClockRuns
<1>2. \A w \in NodeWorkers : workStart'[w] = workStart[w] \/ workStart'[w] = clock \/ workStart'[w] = 0
  <2>1. CASE \E w \in NodeWorkers : WorkStep(w)
    <3>1. PICK w \in NodeWorkers : WorkStep(w)
      BY <2>1
    <3>2. workStart'[w] = workStart[w] \/ workStart'[w] = clock \/ workStart'[w] = 0
      BY <3>1 DEF NodeTypes, WorkStep, Begin, TakeSlot, NoSlot, TakePage, LinkPage,
         LockNew, RefuseNew, LockOld, Commit, AbortMade, AbortEnd, EndTransaction
    <3> QED
      BY <3>1, <3>2, OthersRest
  <2>2. CASE \E t \in NodeThreads : FreeStep(t)
    BY <2>2 DEF FreeStep, FreeSlot, PoolPage, PoolRelease, PoolSift, PoolDone, workVars
  <2>3. CASE ServeDoomed \/ ReadBegin \/ ReadFind \/ ReadEnd \/ UNCHANGED nodeVars
    BY <2>3 DEF ServeDoomed, ReadBegin, ReadFind, ReadEnd, nodeVars, workVars
  <2> QED
    BY <2>1, <2>2, <2>3 DEF NodeNext, NodeThreads
<1>3. \A w \in NodeWorkers : nodeGcTime'[w] = nodeGcTime[w] \/ nodeGcTime'[w] <= clock
  <2>1. ASSUME NEW t \in NodeThreads, PoolPage(t), NEW w \in NodeWorkers
        PROVE  nodeGcTime'[w] = nodeGcTime[w] \/ nodeGcTime'[w] <= clock
    <3>1. CASE t = w
      <4>1. workFree[w] # NoFree
        BY <2>1, <3>1, FreeItems DEF PoolPage
      <4>2. workStart[w] # 0 /\ workStart[w] <= clock /\ workStart[w] \in Nat
        BY <4>1 DEF WorkersFit, TimesFit, NodeTypes
      <4>3. Oldest <= workStart[w] /\ Oldest \in Nat
        BY <4>2, OldestIs
      <4>4. nodeGcTime'[w] = Oldest \/ nodeGcTime'[w] = nodeGcTime[w]
        BY <2>1, <3>1 DEF PoolPage, NodeTypes
      <4> QED
        BY <1>1, <4>2, <4>3, <4>4
    <3>2. CASE t # w
      BY <2>1, <3>2 DEF PoolPage, NodeTypes
    <3> QED
      BY <3>1, <3>2
  <2>2. ASSUME NEW t \in NodeThreads, PoolSift(t) \/ PoolDone(t), NEW w \in NodeWorkers
        PROVE  nodeGcTime'[w] = nodeGcTime[w] \/ nodeGcTime'[w] <= clock
    <3>1. nodeGcTime' = [nodeGcTime EXCEPT ![t] = 0]
      BY <2>2 DEF PoolSift, PoolDone
    <3>2. nodeGcTime'[w] = nodeGcTime[w] \/ nodeGcTime'[w] = 0
      BY <3>1 DEF NodeTypes, NodeThreads
    <3> QED
      BY <1>1, <3>2
  <2>3. ASSUME NEW t \in NodeThreads, FreeSlot(t) \/ PoolRelease(t) PROVE UNCHANGED nodeGcTime
    BY <2>3 DEF FreeSlot, PoolRelease, poolVars
  <2>4. ASSUME NEW w \in NodeWorkers, WorkStep(w) PROVE UNCHANGED nodeGcTime
    BY <2>4, OthersRest
  <2>5. ServeDoomed \/ ReadBegin \/ ReadFind \/ ReadEnd \/ UNCHANGED nodeVars => UNCHANGED nodeGcTime
    BY DEF ServeDoomed, ReadBegin, ReadFind, ReadEnd, nodeVars, poolVars
  <2> QED
    BY <2>1, <2>2, <2>3, <2>4, <2>5 DEF NodeNext, FreeStep, NodeThreads
<1>4. readStart' <= clock' /\ (readStart' = 0 => readNode' = NoNode)
  <2>1. CASE UNCHANGED <<readStart, readNode>>
    BY <1>1, <2>1 DEF TimesFit, NodeTypes
  <2>2. CASE ReadBegin \/ ReadFind \/ ReadEnd
    BY <1>1, <2>2 DEF ReadBegin, ReadFind, ReadEnd, TimesFit, NodeTypes, readVars
  <2>3. ASSUME NEW w \in NodeWorkers, WorkStep(w) PROVE UNCHANGED <<readStart, readNode>>
    BY <2>3, OthersRest
  <2>4. ASSUME NEW t \in NodeThreads, FreeStep(t) PROVE UNCHANGED <<readStart, readNode>>
    BY <2>4 DEF FreeStep, FreeSlot, PoolPage, PoolRelease, PoolSift, PoolDone, readVars
  <2>5. ServeDoomed \/ UNCHANGED nodeVars => UNCHANGED <<readStart, readNode>>
    BY DEF ServeDoomed, nodeVars, readVars
  <2> QED
    BY <2>1, <2>2, <2>3, <2>4, <2>5 DEF NodeNext, NodeThreads
<1>5. readNode' = NoNode => ~recycled'
  <2>1. readNode = NoNode => ~recycled
    BY DEF TimesFit
  <2>2. CASE UNCHANGED <<readNode, recycled>>
    BY <2>1, <2>2
  <2>3. CASE ReadFind
    <3>1. \A n \in NodePlaces : n # NoNode
      BY NodesAre
    <3>2. readNode' \in NodePlaces
      BY <2>3 DEF ReadFind, Reachable, NodeTypes
    <3> QED
      BY <3>1, <3>2
  <2>4. CASE ReadEnd
    BY <2>4 DEF ReadEnd
  <2>5. ASSUME NEW t \in NodeThreads, PoolRelease(t) \/ PoolSift(t) PROVE readNode' = NoNode => ~recycled'
    BY <2>1, <2>5 DEF PoolRelease, PoolSift, Gone
  <2>6. ASSUME NEW w \in NodeWorkers, TakePage(w) PROVE readNode' = NoNode => ~recycled'
    <3>1. PICK p \in VPages : SetUp(w, p)
      BY <2>6, TakenPage
    <3> QED
      BY <2>1, <2>6, <3>1 DEF TakePage, SetUp
  <2>7. ASSUME NEW w \in NodeWorkers, WorkStep(w), ~TakePage(w) PROVE UNCHANGED <<readNode, recycled>>
    BY <2>7 DEF WorkStep, Begin, TakeSlot, NoSlot, LinkPage, LockNew, RefuseNew, LockOld, Commit, AbortMade,
                AbortEnd, readVars
  <2>8. ASSUME NEW t \in NodeThreads, FreeSlot(t) \/ PoolPage(t) \/ PoolDone(t)
        PROVE  UNCHANGED <<readNode, recycled>>
    BY <2>8 DEF FreeSlot, PoolPage, PoolDone, readVars
  <2>9. ServeDoomed \/ ReadBegin \/ UNCHANGED nodeVars => UNCHANGED <<readNode, recycled>>
    BY DEF ServeDoomed, ReadBegin, nodeVars, readVars
  <2> QED
    BY <2>2, <2>3, <2>4, <2>5, <2>6, <2>7, <2>8, <2>9 DEF NodeNext, FreeStep, NodeThreads
<1>6. \A w \in NodeWorkers : workStart'[w] <= clock' /\ nodeGcTime'[w] <= clock'
  <2>1. \A w \in NodeWorkers : workStart[w] \in Nat /\ nodeGcTime[w] \in Nat /\ workStart[w] <= clock /\ nodeGcTime[w] <= clock
    BY DEF TimesFit, NodeTypes, NodeThreads
  <2>2. \A w \in NodeWorkers : workStart'[w] \in Nat /\ nodeGcTime'[w] \in Nat
    BY DEF NodeTypes, NodeThreads
  <2> QED
    BY <1>1, <1>2, <1>3, <2>1, <2>2
<1> QED
  BY <1>4, <1>5, <1>6 DEF TimesFit

(* Every collection that gives a page back counts one page too many. *)
LEMMA DriftKept ==
  ASSUME NodeTypes, NodeTypes', PagesApart, PoolDrift, [NodeNext]_nodeVars
  PROVE  PoolDrift'
<1>1. poolCount \in Int /\ slowRounds \in Nat /\ Len(pool) \in Nat /\ Len(pool') \in Nat /\ poolCount = Len(pool) - slowRounds
  BY DEF NodeTypes, PoolDrift
<1>2. CASE UNCHANGED <<pool, poolCount, slowRounds>>
  BY <1>1, <1>2 DEF PoolDrift
<1>3. ASSUME NEW w \in NodeWorkers, TakePage(w) PROVE PoolDrift'
  <2>1. \/ pool # <<>> /\ pool' = Front(pool) /\ poolCount' = poolCount - 1
        \/ UNCHANGED <<pool, poolCount>>
    BY <1>3, TakenPage
  <2>2. UNCHANGED slowRounds
    BY <1>3 DEF TakePage
  <2>3. CASE pool # <<>> /\ pool' = Front(pool) /\ poolCount' = poolCount - 1
    <3>1. Len(pool') = Len(pool) - 1
      BY <2>3, PoolFront
    <3> QED
      BY <1>1, <2>2, <2>3, <3>1 DEF PoolDrift
  <2> QED
    BY <1>2, <2>1, <2>2, <2>3
<1>4. ASSUME NEW t \in NodeThreads, PoolPage(t) PROVE PoolDrift'
  <2>1. Len(pool') = Len(pool) + 1
    BY <1>4, PooledPage
  <2>2. poolCount' = poolCount + 1 /\ UNCHANGED slowRounds
    BY <1>4 DEF PoolPage
  <2> QED
    BY <1>1, <2>1, <2>2 DEF PoolDrift
<1>5. ASSUME NEW t \in NodeThreads, PoolRelease(t) PROVE PoolDrift'
  <2>1. pool # <<>> /\ pool' = Front(pool) /\ poolCount' = poolCount - 1 /\ UNCHANGED slowRounds
    BY <1>5 DEF PoolRelease
  <2>2. Len(pool') = Len(pool) - 1
    BY <2>1, PoolFront
  <2> QED
    BY <1>1, <2>1, <2>2 DEF PoolDrift
<1>6. ASSUME NEW t \in NodeThreads, PoolSift(t) PROVE PoolDrift'
  BY <1>1, <1>6 DEF PoolSift, PoolDrift
<1>7. ASSUME NEW w \in NodeWorkers, WorkStep(w), ~TakePage(w) PROVE UNCHANGED <<pool, poolCount, slowRounds>>
  BY <1>7 DEF WorkStep, Begin, TakeSlot, NoSlot, LinkPage, LockNew, RefuseNew, LockOld, Commit, AbortMade,
              AbortEnd, poolVars
<1>8. ASSUME NEW t \in NodeThreads, FreeSlot(t) \/ PoolDone(t) PROVE UNCHANGED <<pool, poolCount, slowRounds>>
  BY <1>8 DEF FreeSlot, PoolDone, poolVars
<1>9. ServeDoomed \/ ReadBegin \/ ReadFind \/ ReadEnd \/ UNCHANGED nodeVars
        => UNCHANGED <<pool, poolCount, slowRounds>>
  BY DEF ServeDoomed, ReadBegin, ReadFind, ReadEnd, nodeVars, poolVars
<1> QED
  BY <1>2, <1>3, <1>4, <1>5, <1>6, <1>7, <1>8, <1>9 DEF NodeNext, FreeStep, NodeThreads

-----------------------------------------------------------------------------
(* The reader *)

(* What it sees of its node, and where the page is. *)
Looks(n) ==
  /\ Readable(n) => n \in live /\ ~Doomed(n)
  /\ (n \in live /\ ~Doomed(n) /\ Unmade(n)) \/ lastDeath[n[1]] > readStart
Keeps(n) ==
  /\ Waiting(n[1])
  /\ \A k \in 1 .. Len(pool) : pool[k].page = n[1] => pool[k].time > readStart
  /\ ~recycled

(* The two parts of what holds of the reader. *)
LEMMA ReaderIs ==
  ReaderSafe <=> \A n \in NodePlaces : readNode = n => Looks(n) /\ Keeps(n)
BY DEF ReaderSafe, Looks, Keeps

(* The page of a reader is not taken, unless too early. *)
LEMMA PageNotTaken ==
  ASSUME NodeTypes, PagesApart, NEW w \in NodeWorkers, TakePage(w), ~early',
         NEW n \in NodePlaces, readStart # 0, Keeps(n)
  PROVE  \E p \in VPages :
           /\ SetUp(w, p) /\ p # n[1] /\ ~InList(p)
           /\ \/ pool # <<>> /\ p = Last(pool).page /\ pool' = Front(pool)
              \/ UNCHANGED pool
<1>1. PICK p \in VPages :
           /\ SetUp(w, p) /\ ~InList(p)
           /\ \A t \in NodeThreads : ~Dropped(t, p)
           /\ \/ /\ pool # <<>> /\ p = Last(pool).page
                 /\ pool' = Front(pool)
                 /\ early' = (early \/ Last(pool).time > Oldest)
              \/ /\ pool = <<>> /\ p \in Unmapped
                 /\ UNCHANGED <<pool, early>>
  BY TakenPage
<1>2. CASE /\ pool # <<>> /\ p = Last(pool).page
           /\ pool' = Front(pool)
           /\ early' = (early \/ Last(pool).time > Oldest)
  <2>1. ~(Last(pool).time > Oldest)
    BY <1>2
  <2>2. /\ Len(pool) \in Nat \ {0} /\ Last(pool) = pool[Len(pool)] /\ Last(pool) \in PoolItem
    BY <1>2, FrontIs DEF NodeTypes
  <2>3. Last(pool).time \in Nat /\ Len(pool) \in 1 .. Len(pool)
    BY <2>2 DEF PoolItem
  <2>4. Oldest \in Nat /\ Oldest <= readStart /\ readStart \in Nat
    BY OldestIs DEF NodeTypes
  <2>5. ~(pool[Len(pool)].time > readStart)
    BY <2>1, <2>2, <2>3, <2>4
  <2>6. p # n[1]
    BY <1>2, <2>2, <2>3, <2>5 DEF Keeps
  <2> QED
    BY <1>1, <1>2, <2>6
<1>3. CASE pool = <<>> /\ p \in Unmapped /\ UNCHANGED <<pool, early>>
  <2>1. ~Pooled(p)
    <3>1. Len(pool) = 0
      BY <1>3
    <3> QED
      BY <3>1 DEF Pooled
  <2>2. p # n[1]
    BY <1>1, <2>1 DEF Keeps, Waiting
  <2> QED
    BY <1>1, <1>3, <2>2
<1> QED
  BY <1>1, <1>2, <1>3

(* Nothing has happened to the node. *)
LEMMA LooksStay ==
  ASSUME NEW n, Looks(n), UNCHANGED <<live, lastDeath, readStart>>,
         Readable(n)' => Readable(n), Doomed(n)' <=> Doomed(n), Unmade(n) => Unmade(n)'
  PROVE  Looks(n)'
BY DEF Looks

(* The end of a transaction leaves a lock alone, or gives it a version that the
   reader does not accept. *)
LEMMA EndUnreadable ==
  ASSUME NodeTypes, TimesFit, NEW w \in NodeWorkers, NEW from, EndTransaction(w, from),
         UNCHANGED readStart, NEW n \in NodePlaces
  PROVE  /\ Readable(n)' => Readable(n)
         /\ clock' > readStart /\ clock' = clock + 1
         /\ workNode[w] = n /\ lockOf[n] = w => ~Readable(n)'
<1>1. /\ clock \in Nat /\ readStart \in Nat /\ readStart <= clock /\ clock' = clock + 1 /\ n # NoNode
  BY NodesAre DEF NodeTypes, TimesFit, EndTransaction
<1>2. CASE workNode[w] # NoNode /\ lockOf[workNode[w]] = w
  <2>1. /\ lockOf' = [lockOf EXCEPT ![workNode[w]] = Open]
        /\ lockVer' = [lockVer EXCEPT ![workNode[w]] = clock']
    BY <1>2 DEF EndTransaction
  <2>2. CASE workNode[w] = n
    <3>1. lockVer'[n] = clock'
      BY <2>1, <2>2 DEF NodeTypes
    <3>2. ~(lockVer'[n] <= readStart)
      BY <1>1, <3>1
    <3>3. ~Readable(n)'
      BY <3>2 DEF Readable
    <3> QED
      BY <1>1, <3>3
  <2>3. CASE workNode[w] # n
    <3>1. lockVer'[n] = lockVer[n] /\ lockOf'[n] = lockOf[n]
      BY <2>1, <2>3 DEF NodeTypes
    <3> QED
      BY <1>1, <2>3, <3>1 DEF Readable
  <2> QED
    BY <2>2, <2>3
<1>3. CASE ~(workNode[w] # NoNode /\ lockOf[workNode[w]] = w)
  <2>1. UNCHANGED <<lockOf, lockVer>>
    BY <1>3 DEF EndTransaction
  <2> QED
    BY <1>1, <1>3, <2>1 DEF Readable
<1> QED
  BY <1>2, <1>3

(* Who makes a node after a step. *)
LEMMA StillUnmade ==
  ASSUME NodeTypes, PagesApart, NEW w \in NodeWorkers, WorkStep(w), NEW n, Unmade(n),
         LockNew(w) => workNode[w] # n
  PROVE  Unmade(n)'
<1>1. \A v \in NodeWorkers \ {w} : workAt'[v] = workAt[v] /\ workNode'[v] = workNode[v]
  BY OthersRest
<1>2. CASE LockNew(w)
  BY <1>1, <1>2 DEF LockNew, Unmade, Making
<1>3. CASE ~LockNew(w)
  <2>1. ASSUME NEW from, NEW to, Moves(w, from, to) PROVE workAt'[w] = to
    BY <2>1 DEF Moves, NodeTypes
  <2>2. workAt'[w] # "made"
    BY <1>3, <2>1 DEF WorkStep, Begin, TakeSlot, NoSlot, TakePage, LinkPage, RefuseNew, LockOld, Commit,
                      AbortMade, AbortEnd, EndTransaction
  <2> QED
    BY <1>1, <2>2 DEF Unmade, Making
<1> QED
  BY <1>2, <1>3

(* What a worker does to the node of the reader. *)
LEMMA WorkerLooks ==
  ASSUME NodeTypes, NodeTypes', Shelf, WorkersFit, TimesFit, NEW w \in NodeWorkers, WorkStep(w), ~early',
         NEW n \in NodePlaces, readStart # 0, Looks(n), Keeps(n)
  PROVE  Looks(n)'
<1>1. UNCHANGED readStart /\ n[1] \in VPages /\ n # NoNode
  BY OthersRest, NodesAre DEF Shelf
<1>2. (\A v \in NodeWorkers : Placed(v)) /\ Owned
  BY FitIs
<1>3. \A m \in NodePlaces : Own(w, m) => m \in live /\ ~Doomed(m) /\ lockOf[m] = w /\ lockOf[m] # Open
  BY <1>2, SlotsAssumption DEF Owned, Holds
<1>4. UNCHANGED doomed => (Doomed(n)' <=> Doomed(n))
  BY DEF Doomed
<1>5. CASE Begin(w) \/ TakeSlot(w) \/ NoSlot(w) \/ LinkPage(w) \/ RefuseNew(w)
  <2>1. UNCHANGED <<live, lockOf, lockVer, doomed, lastDeath>> /\ ~LockNew(w)
    BY <1>5 DEF Begin, TakeSlot, NoSlot, LinkPage, RefuseNew, LockNew, Lockable, Moves, doomVars
  <2>2. Readable(n)' => Readable(n)
    BY <1>1, <2>1 DEF Readable
  <2>3. Unmade(n) => Unmade(n)'
    BY <2>1, StillUnmade DEF Shelf
  <2> QED
    BY <1>1, <1>4, <2>1, <2>2, <2>3, LooksStay
<1>6. CASE TakePage(w)
  <2>1. PICK p \in VPages : SetUp(w, p) /\ p # n[1]
    BY <1>6, PageNotTaken DEF Shelf
  <2>2. lockOf'[n] = lockOf[n] /\ lockVer'[n] = lockVer[n]
    BY <2>1 DEF SetUp
  <2>3. UNCHANGED <<live, doomed, lastDeath>> /\ ~LockNew(w)
    BY <1>6 DEF TakePage, LockNew, Moves, doomVars
  <2>4. Readable(n)' => Readable(n)
    BY <1>1, <2>2 DEF Readable
  <2>5. Unmade(n) => Unmade(n)'
    BY <2>3, StillUnmade DEF Shelf
  <2> QED
    BY <1>1, <1>4, <2>3, <2>4, <2>5, LooksStay
<1>7. CASE LockNew(w)
  <2>1. /\ workAt[w] = "lock" /\ lockOf' = [lockOf EXCEPT ![workNode[w]] = w] /\ live' = live \cup {workNode[w]}
        /\ UNCHANGED <<lockVer, doomed, lastDeath>>
    BY <1>7 DEF LockNew, Moves, doomVars
  <2>2. CASE workNode[w] = n
    <3>1. n \notin live
      BY <2>1, <2>2 DEF Shelf, NodesSit, Taken
    <3>2. lastDeath[n[1]] > readStart
      BY <3>1 DEF Looks
    <3>3. ~Readable(n)'
      <4>1. lockOf'[n] = w /\ w # Open
        BY <2>1, <2>2, SlotsAssumption DEF NodeTypes
      <4> QED
        BY <4>1 DEF Readable
    <3> QED
      BY <1>1, <2>1, <3>2, <3>3 DEF Looks
  <2>3. CASE workNode[w] # n
    <3>1. lockOf'[n] = lockOf[n] /\ (n \in live' <=> n \in live)
      BY <2>1, <2>3 DEF NodeTypes
    <3>2. Readable(n)' => Readable(n)
      BY <1>1, <2>1, <3>1 DEF Readable
    <3>3. Unmade(n) => Unmade(n)'
      BY <2>3, StillUnmade DEF Shelf
    <3> QED
      BY <1>1, <1>4, <2>1, <3>1, <3>2, <3>3 DEF Looks
  <2> QED
    BY <2>2, <2>3
<1>8. CASE \E m \in live : LockOld(w, m)
  <2>1. PICK m \in live : /\ lockOf' = [lockOf EXCEPT ![m] = w] /\ workAt[w] = "run"
                          /\ UNCHANGED <<live, lockVer, doomed, lastDeath>>
    BY <1>8 DEF LockOld, Moves, doomVars
  <2>2. Readable(n)' => Readable(n)
    <3>1. lockOf'[n] = lockOf[n] \/ lockOf'[n] = w
      BY <2>1 DEF NodeTypes
    <3>2. w # Open
      BY SlotsAssumption
    <3> QED
      BY <1>1, <2>1, <3>1, <3>2 DEF Readable
  <2>3. ~LockNew(w)
    BY <2>1 DEF LockNew, Moves
  <2>4. Unmade(n) => Unmade(n)'
    BY <2>3, StillUnmade DEF Shelf
  <2> QED
    BY <1>1, <1>4, <2>1, <2>2, <2>4, LooksStay
<1>9. CASE Commit(w)
  <2>1. PICK from \in {"made", "delete"} : EndTransaction(w, from)
    BY <1>9 DEF Commit
  <2>2. /\ Readable(n)' => Readable(n)
        /\ clock' > readStart
        /\ workNode[w] = n /\ lockOf[n] = w => ~Readable(n)'
    BY <1>1, <2>1, EndUnreadable
  <2>3. workAt[w] = from /\ UNCHANGED live
    BY <1>9, <2>1 DEF Commit, EndTransaction, Moves
  <2>4. Unmade(n) => Unmade(n)'
    <3>1. ~LockNew(w)
      BY <2>3 DEF LockNew, Moves
    <3> QED
      BY <3>1, StillUnmade DEF Shelf
  <2>5. CASE UNCHANGED doomVars
    BY <1>1, <1>4, <2>2, <2>3, <2>4, <2>5, LooksStay DEF doomVars
  <2>6. CASE \E m \in NodePlaces : \E e \in SlotItem :
              /\ workAt[w] = "delete" /\ workNode[w] = m /\ m[1] \in VPages
              /\ e.node = m /\ doomed' = Append(doomed, e)
              /\ lastDeath' = [lastDeath EXCEPT ![m[1]] = clock']
    <3>1. PICK m \in NodePlaces, e \in SlotItem :
              /\ workAt[w] = "delete" /\ workNode[w] = m /\ m[1] \in VPages
              /\ e.node = m /\ doomed' = Append(doomed, e)
              /\ lastDeath' = [lastDeath EXCEPT ![m[1]] = clock']
      BY <2>6
    <3>2. Doomed(n)' <=> Doomed(n) \/ n = m
      BY <3>1, DoomedMore
    <3>3. lastDeath'[m[1]] = clock' /\ (lastDeath'[n[1]] = clock' \/ lastDeath'[n[1]] = lastDeath[n[1]])
      BY <1>1, <3>1 DEF NodeTypes
    <3>4. CASE n = m
      <4>1. lockOf[n] = w
        BY <1>3, <3>1, <3>4 DEF Own
      <4>2. ~Readable(n)'
        BY <2>2, <3>1, <3>4, <4>1
      <4>3. lastDeath'[n[1]] > readStart
        BY <2>2, <3>3, <3>4
      <4> QED
        BY <1>1, <4>2, <4>3 DEF Looks
    <3>5. CASE n # m
      <4>1. lastDeath[n[1]] > readStart => lastDeath'[n[1]] > readStart
        BY <2>2, <3>3
      <4> QED
        BY <1>1, <2>2, <2>3, <2>4, <3>2, <3>5, <4>1 DEF Looks
    <3> QED
      BY <3>4, <3>5
  <2> QED
    BY <1>2, <1>9, <2>5, <2>6, KilledItem DEF Shelf
<1>10. CASE AbortMade(w)
  <2>1. workAt[w] = "made" /\ live' = live \ {workNode[w]} /\ UNCHANGED <<lockOf, lockVer, doomed, lastDeath>>
    BY <1>10 DEF AbortMade, Moves, doomVars
  <2>2. Readable(n)' <=> Readable(n)
    BY <1>1, <2>1 DEF Readable
  <2>3. CASE workNode[w] = n
    <3>1. ~Readable(n)
      BY <1>3, <2>1, <2>3 DEF Own, Readable
    <3>2. ~Unmade(n)
      BY <2>1, <2>3 DEF Unmade, Making
    <3> QED
      BY <1>1, <2>1, <2>2, <3>1, <3>2 DEF Looks
  <2>4. CASE workNode[w] # n
    <3>1. ~LockNew(w)
      BY <2>1 DEF LockNew, Moves
    <3>2. Unmade(n) => Unmade(n)'
      BY <3>1, StillUnmade DEF Shelf
    <3>3. n \in live' <=> n \in live
      BY <2>1, <2>4
    <3> QED
      BY <1>1, <1>4, <2>1, <2>2, <3>2, <3>3 DEF Looks
  <2> QED
    BY <2>3, <2>4
<1>11. CASE AbortEnd(w)
  <2>1. PICK from \in {"run", "delete", "free"} : EndTransaction(w, from)
    BY <1>11 DEF AbortEnd
  <2>2. Readable(n)' => Readable(n)
    BY <1>1, <2>1, EndUnreadable
  <2>3. UNCHANGED <<live, doomed, lastDeath>> /\ workAt[w] = from
    BY <1>11, <2>1 DEF AbortEnd, EndTransaction, Moves, doomVars
  <2>4. Unmade(n) => Unmade(n)'
    <3>1. ~LockNew(w)
      BY <2>3 DEF LockNew, Moves
    <3> QED
      BY <3>1, StillUnmade DEF Shelf
  <2> QED
    BY <1>1, <1>4, <2>2, <2>3, <2>4, LooksStay
<1> QED
  BY <1>5, <1>6, <1>7, <1>8, <1>9, <1>10, <1>11 DEF WorkStep

(* A page stays where it is. *)
LEMMA KeepsStay ==
  ASSUME NEW n, Keeps(n), UNCHANGED <<pool, readStart, recycled>>, Waiting(n[1])'
  PROVE  Keeps(n)'
BY DEF Keeps

(* A worker that does not take the page leaves it where it waits. *)
LEMMA WorkerWaits ==
  ASSUME NodeTypes, Shelf, WorkersFit, NEW w \in NodeWorkers, WorkStep(w),
         NEW p \in VPages, InList(p) \/ \E t \in NodeThreads : Dropped(t, p)
  PROVE  InList(p)' \/ \E t \in NodeThreads : Dropped(t, p)'
<1>1. \A t \in NodeThreads : Dropped(t, p) => Dropped(t, p)'
  <2>1. CASE UNCHANGED workFree
    BY <2>1 DEF Dropped
  <2>2. CASE RefuseNew(w) \/ AbortMade(w)
    <3>1. workFree[w] = NoFree /\ w \in NodeThreads
      BY <2>2 DEF RefuseNew, AbortMade, Moves, WorkersFit, NodeThreads
    <3>2. ~Dropped(w, p)
      BY <3>1, FreeItems DEF Dropped
    <3>3. \A t \in NodeThreads \ {w} : workFree'[t] = workFree[t]
      BY <2>2 DEF RefuseNew, AbortMade, NodeTypes
    <3> QED
      BY <3>2, <3>3 DEF Dropped
  <2>3. UNCHANGED workFree \/ RefuseNew(w) \/ AbortMade(w)
    BY DEF WorkStep, Begin, TakeSlot, NoSlot, TakePage, LinkPage, LockNew, LockOld, Commit, AbortEnd
  <2> QED
    BY <2>1, <2>2, <2>3
<1>2. InList(p) => InList(p)'
  <2>1. CASE UNCHANGED blocks
    BY <2>1 DEF InList
  <2>2. blocks \in Seq(VPages) /\ \A j, k \in 1 .. Len(blocks) : blocks[j] = blocks[k] => j = k
    BY DEF NodeTypes, Shelf, PagesApart
  <2>3. ASSUME blocks # <<>>, blocks' = Swapped(Last(blocks), blocks)
        PROVE  InList(p) => InList(p)'
    <3>1. Last(blocks) \in VPages /\ Last(blocks) = blocks[Len(blocks)] /\ Len(blocks) \in 1 .. Len(blocks)
      BY <2>2, <2>3, FrontIs
    <3>2. \E k \in 1 .. Len(blocks) : blocks[k] = Last(blocks)
      BY <3>1
    <3>3. Without(VPages, blocks, Last(blocks), RemoveFirst(blocks, Last(blocks)))
      BY <2>2, <3>2, RemovedMembers
    <3> DEFINE q == RemoveFirst(blocks, Last(blocks))
               l == Last(blocks)
    <3>4. blocks' = <<l>> \o q /\ q \in Seq(VPages) /\ l \in VPages
      BY <2>3, <3>1, <3>3 DEF Swapped, Without
    <3>5. \A x : (\E k \in 1 .. Len(q) : q[k] = x) <=> x # l /\ \E k \in 1 .. Len(blocks) : blocks[k] = x
      BY <3>3 DEF Without
    <3> HIDE DEF q, l
    <3>6. /\ Len(blocks') = Len(q) + 1 /\ Len(q) \in Nat /\ blocks'[1] = l
          /\ \A k \in 1 .. Len(q) : blocks'[k + 1] = q[k]
      BY <3>4
    <3>7. ASSUME InList(p) PROVE InList(p)'
      <4>1. CASE p = l
        BY <3>6, <4>1 DEF InList
      <4>2. CASE p # l
        <5>1. PICK k \in 1 .. Len(q) : q[k] = p
          BY <3>5, <3>7, <4>2 DEF InList
        <5>2. k + 1 \in 1 .. Len(blocks') /\ blocks'[k + 1] = p
          BY <3>6, <5>1
        <5> QED
          BY <5>2 DEF InList
      <4> QED
        BY <4>1, <4>2
    <3> QED
      BY <3>7
  <2>4. CASE TakeSlot(w)
    <3>1. blocks # <<>> /\ (blocks' = Swapped(Last(blocks), blocks) \/ UNCHANGED blocks)
      BY <2>4 DEF TakeSlot
    <3> QED
      BY <2>1, <2>3, <3>1
  <2>5. CASE NoSlot(w)
    <3>1. UNCHANGED blocks \/ (blocks # <<>> /\ blocks' = Swapped(Last(blocks), blocks))
      BY <2>5 DEF NoSlot
    <3> QED
      BY <2>1, <2>3, <3>1
  <2>6. CASE LinkPage(w)
    <3>1. workNode[w] \in NodePlaces
      <4>1. workAt[w] = "link"
        BY <2>6 DEF LinkPage, Moves
      <4>2. workNode[w] # NoNode /\ workNode[w] \in NodePlaces \cup {NoNode}
        BY <4>1 DEF WorkersFit, NodeTypes
      <4> QED
        BY <4>2
    <3>2. workNode[w][1] \in VPages /\ blocks' = Append(blocks, workNode[w][1])
      BY <2>6, <3>1, NodesAre DEF LinkPage
    <3>3. /\ Len(blocks') = Len(blocks) + 1 /\ Len(blocks) \in Nat
          /\ \A k \in 1 .. Len(blocks) : blocks'[k] = blocks[k]
      BY <2>2, <3>2, AppendIs
    <3>4. \A k \in 1 .. Len(blocks) : k \in 1 .. Len(blocks')
      BY <3>3
    <3> QED
      BY <3>3, <3>4 DEF InList
  <2>7. TakeSlot(w) \/ NoSlot(w) \/ LinkPage(w) \/ UNCHANGED blocks
    BY DEF WorkStep, Begin, TakePage, LockNew, RefuseNew, LockOld, Commit, AbortMade, AbortEnd, slotVars
  <2> QED
    BY <2>1, <2>4, <2>5, <2>6, <2>7
<1> QED
  BY <1>1, <1>2

(* A worker and the page of the reader. *)
LEMMA WorkerKeeps ==
  ASSUME NodeTypes, NodeTypes', Shelf, WorkersFit, NEW w \in NodeWorkers, WorkStep(w), ~early',
         NEW n \in NodePlaces, readNode = n, readStart # 0, Keeps(n)
  PROVE  Keeps(n)'
<1>1. UNCHANGED readStart /\ n[1] \in VPages
  BY OthersRest, NodesAre DEF Shelf
<1>2. InList(n[1]) \/ (\E t \in NodeThreads : Dropped(t, n[1])) =>
        InList(n[1])' \/ \E t \in NodeThreads : Dropped(t, n[1])'
  BY <1>1, WorkerWaits
<1>3. CASE TakePage(w)
  <2>1. PICK p \in VPages :
           /\ SetUp(w, p) /\ p # n[1]
           /\ \/ pool # <<>> /\ p = Last(pool).page /\ pool' = Front(pool)
              \/ UNCHANGED pool
    BY <1>3, PageNotTaken DEF Shelf
  <2>2. ~recycled'
    <3>1. recycled' = (recycled \/ (readNode # NoNode /\ readNode[1] = p))
      BY <2>1 DEF SetUp
    <3>2. ~recycled /\ ~(readNode # NoNode /\ readNode[1] = p)
      BY <2>1 DEF Keeps
    <3> QED
      BY <3>1, <3>2
  <2>3. CASE pool # <<>> /\ p = Last(pool).page /\ pool' = Front(pool)
    <3>1. /\ Pooled(n[1]) => Pooled(n[1])'
          /\ \A k \in 1 .. Len(pool') : k \in 1 .. Len(pool) /\ pool'[k] = pool[k]
      BY <1>1, <2>1, <2>3, PoolFront DEF Shelf
    <3>2. Waiting(n[1])'
      BY <1>2, <3>1 DEF Keeps, Waiting
    <3>3. \A k \in 1 .. Len(pool') : pool'[k].page = n[1] => pool'[k].time > readStart'
      BY <1>1, <3>1 DEF Keeps
    <3> QED
      BY <2>2, <3>2, <3>3 DEF Keeps
  <2>4. CASE UNCHANGED pool
    <3>1. Pooled(n[1]) => Pooled(n[1])'
      BY <2>4 DEF Pooled
    <3>2. Waiting(n[1])'
      BY <1>2, <3>1 DEF Keeps, Waiting
    <3> QED
      BY <1>1, <2>2, <2>4, <3>2 DEF Keeps
  <2> QED
    BY <2>1, <2>3, <2>4
<1>4. CASE ~TakePage(w)
  <2>1. UNCHANGED <<pool, recycled>>
    BY <1>4 DEF WorkStep, Begin, TakeSlot, NoSlot, LinkPage, LockNew, RefuseNew, LockOld, Commit, AbortMade,
                AbortEnd, poolVars, readVars
  <2>2. Pooled(n[1]) => Pooled(n[1])'
    BY <2>1 DEF Pooled
  <2>3. Waiting(n[1])'
    BY <1>2, <2>2 DEF Keeps, Waiting
  <2> QED
    BY <1>1, <2>1, <2>3, KeepsStay
<1> QED
  BY <1>3, <1>4

(* A collection that may not wait for the reader finds the node alive, so that the
   page is not in the pool. *)
LEMMA CollectedYoung ==
  ASSUME NodeTypes, Shelf, GcWaits, NEW t \in NodeThreads, NEW n \in NodePlaces, readNode = n, readStart # 0,
         Keeps(n), NEW k \in 1 .. Len(pool), pool[k].page = n[1]
  PROVE  pool[k].time > nodeGcTime[t] /\ ~InList(n[1])
<1>1. /\ pool[k].time > readStart /\ pool[k].time \in Nat /\ nodeGcTime[t] \in Nat /\ readStart \in Nat
  <2>1. pool[k] \in PoolItem
    BY DEF NodeTypes
  <2> QED
    BY <2>1 DEF Keeps, NodeTypes, PoolItem
<1>2. n[1] \in VPages /\ Pooled(n[1])
  BY NodesAre DEF Pooled
<1>3. ~InList(n[1])
  BY <1>2 DEF Shelf, PagesApart
<1>4. n \notin live
  BY <1>3 DEF Shelf, NodesSit, Sits
<1>5. ~(nodeGcTime[t] > readStart)
  BY <1>4 DEF GcWaits
<1> QED
  BY <1>1, <1>3, <1>5

(* What a collection takes away is not the reader's page. *)
LEMMA FreeKeeps ==
  ASSUME NodeTypes, NodeTypes', Shelf, GcWaits, NEW t \in NodeThreads, FreeStep(t), ~early',
         NEW n \in NodePlaces, readNode = n, readStart # 0, Looks(n), Keeps(n)
  PROVE  Keeps(n)'
<1>1. UNCHANGED readStart /\ n[1] \in VPages /\ n # NoNode /\ ~recycled /\ Waiting(n[1])
  BY NodesAre DEF FreeStep, FreeSlot, PoolPage, PoolRelease, PoolSift, PoolDone, readVars, Keeps
<1>2. \A k \in 1 .. Len(pool) : pool[k].page = n[1] => pool[k].time > readStart /\ pool[k].time > nodeGcTime[t]
  BY CollectedYoung DEF Keeps
<1>3. CASE FreeSlot(t)
  <2>1. UNCHANGED <<pool, recycled>>
    BY <1>3 DEF FreeSlot, poolVars, readVars
  <2>2. Pooled(n[1]) => Pooled(n[1])'
    BY <2>1 DEF Pooled
  <2>3. PICK m \in NodePlaces : m = workFree[t].node /\ m[1] \in VPages /\ InList(m[1]) /\ \A q : ~Dropped(t, q)
    BY <1>3, SlotGiven DEF FreeSlot, Shelf
  <2>4. \A u \in NodeThreads \ {t} : Dropped(u, n[1]) => Dropped(u, n[1])'
    BY <1>3 DEF FreeSlot, NodeTypes, Dropped
  <2>5. /\ blocks \in Seq(VPages) /\ \E k \in 1 .. Len(blocks) : blocks[k] = m[1]
        /\ \A j, k \in 1 .. Len(blocks) : blocks[j] = blocks[k] => j = k
    BY <2>3 DEF NodeTypes, InList, Shelf, PagesApart
  <2>6. CASE used[m[1]] = 1
    <3>1. blocks' = RemoveFirst(blocks, m[1])
      BY <1>3, <2>3, <2>6 DEF FreeSlot
    <3>2. Without(VPages, blocks, m[1], blocks')
      BY <2>5, <3>1, RemovedMembers
    <3>3. InList(n[1]) /\ n[1] # m[1] => InList(n[1])'
      BY <3>2 DEF Without, InList
    <3>4. Dropped(t, m[1])'
      <4>1. workFree' = [workFree EXCEPT ![t] = [what |-> "page", page |-> m[1], time |-> workFree[t].time]]
        BY <1>3, <2>3, <2>6 DEF FreeSlot
      <4>2. workFree'[t] = [what |-> "page", page |-> m[1], time |-> workFree[t].time]
        BY <4>1 DEF NodeTypes
      <4> QED
        BY <4>2 DEF Dropped
    <3>5. Waiting(n[1])'
      BY <1>1, <2>2, <2>3, <2>4, <3>3, <3>4 DEF Waiting
    <3> QED
      BY <1>1, <2>1, <3>5, KeepsStay
  <2>7. CASE used[m[1]] # 1
    <3>1. InList(n[1]) => InList(n[1])'
      <4>1. CASE blocks' = blocks
        BY <4>1 DEF InList
      <4>2. CASE blocks' = Queued(m[1], blocks)
        <5>1. Without(VPages, blocks, m[1], RemoveFirst(blocks, m[1]))
          BY <2>5, RemovedMembers
        <5> DEFINE q == RemoveFirst(blocks, m[1])
        <5>2. /\ q \in Seq(VPages) /\ m[1] \in VPages /\ blocks' = q \o <<m[1]>>
              /\ \A x : (\E k \in 1 .. Len(q) : q[k] = x) <=> x # m[1] /\ \E k \in 1 .. Len(blocks) : blocks[k] = x
          BY <2>3, <4>2, <5>1 DEF Without, Queued
        <5> HIDE DEF q
        <5>3. /\ Len(blocks') = Len(q) + 1 /\ Len(q) \in Nat /\ blocks'[Len(q) + 1] = m[1]
              /\ \A k \in 1 .. Len(q) : k \in 1 .. Len(blocks') /\ blocks'[k] = q[k]
          BY <5>2
        <5>4. CASE n[1] = m[1]
          BY <5>3, <5>4 DEF InList
        <5>5. CASE n[1] # m[1]
          BY <5>2, <5>3, <5>5 DEF InList
        <5> QED
          BY <5>4, <5>5
      <4>3. blocks' = blocks \/ blocks' = Queued(m[1], blocks)
        BY <1>3, <2>3, <2>7 DEF FreeSlot
      <4> QED
        BY <4>1, <4>2, <4>3
    <3>2. Waiting(n[1])'
      BY <1>1, <2>2, <2>3, <2>4, <3>1 DEF Waiting
    <3> QED
      BY <1>1, <2>1, <3>2, KeepsStay
  <2> QED
    BY <2>6, <2>7
<1>4. CASE PoolPage(t)
  <2>1. PICK p \in VPages :
           /\ p = workFree[t].page /\ Dropped(t, p) /\ workFree[t].time \in Nat
           /\ \A u \in NodeThreads \ {t} : \A q, m : (Dropped(u, q)' <=> Dropped(u, q)) /\ (Freeing(u, m)' <=> Freeing(u, m))
           /\ \A q \in VPages : Pooled(q)' <=> Pooled(q) \/ q = p
           /\ \A k \in 1 .. Len(pool') : \/ pool'[k].page = p /\ pool'[k].time = workFree[t].time
                                         \/ k \in 1 .. Len(pool) /\ pool'[k] = pool[k]
    BY <1>4, PooledPage DEF Shelf
  <2>2. UNCHANGED <<blocks, recycled>>
    BY <1>4 DEF PoolPage, slotVars, readVars
  <2>3. Waiting(n[1])'
    <3>1. InList(n[1]) => InList(n[1])'
      BY <2>2 DEF InList
    <3>2. Dropped(t, n[1]) => n[1] = p
      BY <2>1 DEF Dropped
    <3> QED
      BY <1>1, <2>1, <3>1, <3>2 DEF Waiting
  <2>4. p = n[1] => workFree[t].time > readStart
    <3>1. SUFFICES ASSUME p = n[1] PROVE workFree[t].time > readStart
      OBVIOUS
    <3>2. ~InList(n[1])
      BY <2>1, <3>1 DEF Shelf, PagesApart
    <3>3. n \notin live
      BY <3>2 DEF Shelf, NodesSit, Sits
    <3>4. lastDeath[p] > readStart /\ lastDeath[p] \in Nat /\ readStart \in Nat
      BY <3>1, <3>3 DEF Looks, NodeTypes
    <3>5. ~(workFree[t].time < lastDeath[p])
      <4>1. early' = (early \/ workFree[t].time < lastDeath[p])
        BY <1>4, <2>1 DEF PoolPage
      <4> QED
        BY <4>1
    <3> QED
      BY <2>1, <3>4, <3>5
  <2>5. ASSUME NEW k \in 1 .. Len(pool'), pool'[k].page = n[1] PROVE pool'[k].time > readStart'
    BY <1>1, <1>2, <2>1, <2>4, <2>5
  <2> QED
    BY <1>1, <2>2, <2>3, <2>5 DEF Keeps
<1>5. CASE PoolRelease(t)
  <2>1. /\ pool # <<>> /\ pool' = Front(pool) /\ Last(pool).time <= nodeGcTime[t]
        /\ recycled' = (recycled \/ (readNode # NoNode /\ readNode[1] \in {Last(pool).page}))
        /\ UNCHANGED <<blocks, workFree>>
    BY <1>5 DEF PoolRelease, Gone, slotVars, workVars
  <2>2. n[1] # Last(pool).page
    <3>1. /\ Len(pool) \in Nat \ {0} /\ Last(pool) = pool[Len(pool)] /\ Last(pool) \in PoolItem
      BY <2>1, FrontIs DEF NodeTypes
    <3>2. Len(pool) \in 1 .. Len(pool) /\ Last(pool).time \in Nat /\ nodeGcTime[t] \in Nat
      <4>1. nodeGcTime[t] \in Nat
        BY DEF NodeTypes
      <4> QED
        BY <3>1, <4>1 DEF PoolItem
    <3>3. ~(pool[Len(pool)].time > nodeGcTime[t])
      BY <2>1, <3>1, <3>2
    <3> QED
      BY <1>2, <3>1, <3>2, <3>3
  <2>3. /\ Pooled(n[1]) => Pooled(n[1])'
        /\ \A k \in 1 .. Len(pool') : k \in 1 .. Len(pool) /\ pool'[k] = pool[k]
    BY <1>1, <2>1, <2>2, PoolFront DEF Shelf
  <2>4. Waiting(n[1])'
    <3>1. InList(n[1]) => InList(n[1])'
      BY <2>1 DEF InList
    <3>2. \A u \in NodeThreads : Dropped(u, n[1]) => Dropped(u, n[1])'
      BY <2>1 DEF Dropped
    <3> QED
      BY <1>1, <2>3, <3>1, <3>2 DEF Waiting
  <2>5. ~recycled'
    BY <1>1, <2>1, <2>2
  <2>6. \A k \in 1 .. Len(pool') : pool'[k].page = n[1] => pool'[k].time > readStart'
    BY <1>1, <1>2, <2>3
  <2> QED
    BY <2>4, <2>5, <2>6 DEF Keeps
<1>6. CASE PoolSift(t)
  <2>1. /\ pool # <<>> /\ Sift(t) /\ Last(pool).time > nodeGcTime[t]
        /\ recycled' = (recycled \/ (readNode # NoNode /\ readNode[1] \in {e.page : e \in ToSet(pool) \ ToSet(pool')}))
        /\ UNCHANGED <<blocks, workFree>>
    BY <1>6 DEF PoolSift, Gone, slotVars, workVars
  <2>2. /\ pool' \in Seq(PoolItem)
        /\ \A k \in 1 .. Len(pool') : \E i \in 1 .. Len(pool) : pool'[k] = pool[i]
        /\ \A i \in 1 .. Len(pool) : pool[i].time > nodeGcTime[t] =>
              \E k \in 1 .. Len(pool') : pool'[k] = pool[i]
    BY <2>1, SiftedParts DEF Shelf
  <2>3. \A i \in 1 .. Len(pool) : pool[i].page = n[1] => \E k \in 1 .. Len(pool') : pool'[k] = pool[i]
    BY <1>2, <2>2
  <2>4. Waiting(n[1])'
    <3>1. InList(n[1]) => InList(n[1])'
      BY <2>1 DEF InList
    <3>2. \A u \in NodeThreads : Dropped(u, n[1]) => Dropped(u, n[1])'
      BY <2>1 DEF Dropped
    <3>3. Pooled(n[1]) => Pooled(n[1])'
      BY <2>3 DEF Pooled
    <3> QED
      BY <1>1, <3>1, <3>2, <3>3 DEF Waiting
  <2>5. ~recycled'
    <3>1. ToSet(pool) = {pool[k] : k \in 1 .. Len(pool)} /\ ToSet(pool') = {pool'[k] : k \in 1 .. Len(pool')}
      <4>1. ASSUME NEW s \in Seq(PoolItem) PROVE ToSet(s) = {s[k] : k \in 1 .. Len(s)}
        BY DEF ToSet
      <4>2. pool \in Seq(PoolItem)
        BY DEF NodeTypes
      <4> QED
        BY <2>2, <4>1, <4>2
    <3>2. \A e \in ToSet(pool) : e.page = n[1] => e \in ToSet(pool')
      BY <2>3, <3>1
    <3>3. n[1] \notin {e.page : e \in ToSet(pool) \ ToSet(pool')}
      BY <3>2
    <3> QED
      BY <1>1, <2>1, <3>3
  <2>6. \A k \in 1 .. Len(pool') : pool'[k].page = n[1] => pool'[k].time > readStart'
    BY <1>1, <1>2, <2>2
  <2> QED
    BY <2>4, <2>5, <2>6 DEF Keeps
<1>7. CASE PoolDone(t)
  <2>1. UNCHANGED <<pool, recycled, blocks, workFree>>
    BY <1>7 DEF PoolDone, slotVars, workVars, readVars
  <2>2. Waiting(n[1])'
    BY <1>1, <2>1 DEF Waiting, InList, Pooled, Dropped
  <2> QED
    BY <1>1, <2>1, <2>2, KeepsStay
<1> QED
  BY <1>3, <1>4, <1>5, <1>6, <1>7 DEF FreeStep

(* What it found is as before, unless a page was taken or given back too early. *)
LEMMA ReaderKept ==
  ASSUME NodeTypes, NodeTypes', Shelf, WorkersFit, DoomedFit, TimesFit, GcWaits, early \/ ReaderSafe,
         [NodeNext]_nodeVars
  PROVE  early' \/ ReaderSafe'
<1>1. ~early' => ~early
  <2>1. early' = early \/ (\E x : early' = (early \/ x))
    <3>1. ASSUME NEW t \in NodeThreads, PoolPage(t) PROVE \E x : early' = (early \/ x)
      <4>1. early' = (early \/ workFree[t].time < lastDeath[workFree[t].page])
        BY <3>1 DEF PoolPage
      <4> QED
        BY <4>1
    <3>2. ASSUME NEW w \in NodeWorkers, TakePage(w) PROVE early' = early \/ \E x : early' = (early \/ x)
      <4>1. early' = early \/ early' = (early \/ Last(pool).time > Oldest)
        BY <3>2 DEF TakePage
      <4> QED
        BY <4>1
    <3>3. ASSUME NEW w \in NodeWorkers, WorkStep(w), ~TakePage(w) PROVE early' = early
      BY <3>3 DEF WorkStep, Begin, TakeSlot, NoSlot, LinkPage, LockNew, RefuseNew, LockOld, Commit, AbortMade,
                  AbortEnd, poolVars
    <3>4. ASSUME NEW t \in NodeThreads, FreeStep(t), ~PoolPage(t) PROVE early' = early
      BY <3>4 DEF FreeStep, FreeSlot, PoolRelease, PoolSift, PoolDone, poolVars
    <3>5. ServeDoomed \/ ReadBegin \/ ReadFind \/ ReadEnd \/ UNCHANGED nodeVars => early' = early
      BY DEF ServeDoomed, ReadBegin, ReadFind, ReadEnd, nodeVars, poolVars
    <3> QED
      BY <3>1, <3>2, <3>3, <3>4, <3>5 DEF NodeNext, NodeThreads
  <2> QED
    BY <2>1
<1>2. SUFFICES ASSUME ~early', NEW n \in NodePlaces, readNode' = n
               PROVE  Looks(n)' /\ Keeps(n)'
  BY DEF ReaderSafe, Looks, Keeps
<1>3. n # NoNode /\ n[1] \in VPages
  BY NodesAre
<1>4. readNode = n => Looks(n) /\ Keeps(n) /\ readStart # 0
  BY <1>1, <1>2, <1>3, ReaderIs DEF TimesFit
<1>5. ASSUME NEW w \in NodeWorkers, WorkStep(w) PROVE Looks(n)' /\ Keeps(n)'
  <2>1. readNode = n
    BY <1>2, <1>5, OthersRest DEF Shelf
  <2> QED
    BY <1>2, <1>4, <1>5, <2>1, WorkerLooks, WorkerKeeps
<1>6. ASSUME NEW t \in NodeThreads, FreeStep(t) PROVE Looks(n)' /\ Keeps(n)'
  <2>1. UNCHANGED <<live, doomed, lastDeath, lockOf, lockVer, workAt, workNode, readStart, readNode>>
    BY <1>6 DEF FreeStep, FreeSlot, PoolPage, PoolRelease, PoolSift, PoolDone, doomVars, workVars, readVars
  <2>2. Looks(n)'
    BY <1>2, <1>4, <2>1 DEF Looks, Readable, Doomed, Unmade, Making
  <2> QED
    BY <1>2, <1>4, <1>6, <2>1, <2>2, FreeKeeps
<1>7. CASE ServeDoomed
  <2>1. UNCHANGED <<lastDeath, lockOf, lockVer, workAt, workNode, pool, blocks, readStart, readNode, recycled>>
    BY <1>7 DEF ServeDoomed, readVars, poolVars, slotVars
  <2>2. PICK d \in NodePlaces : /\ Doomed(d) /\ live' = live \ {d}
                                /\ \A m : Doomed(m)' <=> Doomed(m) /\ m # d
    BY <1>7, DoomedLess
  <2>3. /\ Readable(n)' <=> Readable(n)
        /\ Unmade(n)' <=> Unmade(n)
    BY <2>1 DEF Readable, Unmade, Making
  <2>4. readNode = n /\ Looks(n) /\ Keeps(n)
    BY <1>2, <1>4, <2>1
  <2>5. Looks(n)'
    <3>1. CASE n = d
      BY <2>1, <2>2, <2>3, <2>4, <3>1 DEF Looks
    <3>2. CASE n # d
      BY <2>1, <2>2, <2>3, <2>4, <3>2 DEF Looks
    <3> QED
      BY <3>1, <3>2
  <2>6. \A t \in NodeThreads : Dropped(t, n[1]) => Dropped(t, n[1])'
    <3>1. workFree[Servant] = NoFree /\ \A t \in NodeThreads \ {Servant} : workFree'[t] = workFree[t]
      BY <1>7 DEF ServeDoomed, NodeTypes
    <3>2. NoFree.what # "page"
      BY DEF NoFree
    <3> QED
      BY <3>1, <3>2 DEF Dropped
  <2>7. Waiting(n[1])'
    BY <2>1, <2>4, <2>6 DEF Keeps, Waiting, InList, Pooled
  <2> QED
    BY <2>1, <2>4, <2>5, <2>7, KeepsStay
<1>8. CASE ReadFind
  <2>1. PICK m \in Reachable : Readable(m) /\ readNode' = m
    BY <1>8 DEF ReadFind
  <2>2. /\ m = n /\ readNode = NoNode
        /\ UNCHANGED <<live, doomed, lastDeath, lockOf, lockVer, workAt, workNode, pool, blocks, readStart, recycled>>
    BY <1>2, <1>8, <2>1 DEF ReadFind, slotVars, poolVars, workVars, doomVars
  <2>3. n \in live /\ ~Doomed(n) /\ lockOf[n] = Open
    BY <2>1, <2>2, ReachableIs DEF Readable
  <2>4. Unmade(n)
    BY <2>3, SlotsAssumption, FitIs DEF Owned, Own, Holds, Unmade, Making
  <2>5. Looks(n)'
    BY <2>2, <2>3, <2>4 DEF Looks, Doomed, Unmade, Making
  <2>6. InList(n[1]) /\ ~Pooled(n[1])
    BY <1>3, <2>3 DEF Shelf, NodesSit, Sits, PagesApart
  <2>7. ~recycled
    BY <2>2 DEF TimesFit
  <2>8. Waiting(n[1])' /\ \A k \in 1 .. Len(pool) : pool[k].page # n[1]
    BY <2>2, <2>6 DEF Waiting, InList, Pooled
  <2> QED
    BY <2>2, <2>5, <2>7, <2>8 DEF Keeps
<1>9. CASE ReadBegin
  <2>1. readNode = n /\ readStart = 0
    BY <1>2, <1>9 DEF ReadBegin
  <2> QED
    BY <1>4, <2>1
<1>10. CASE ReadEnd
  BY <1>2, <1>3, <1>10 DEF ReadEnd
<1>11. CASE UNCHANGED nodeVars
  <2>1. UNCHANGED <<lastDeath, lockOf, lockVer, live, doomed, workAt, workNode, workFree, pool, blocks, readStart, readNode, recycled>>
    BY <1>11 DEF nodeVars, workVars, readVars, poolVars, slotVars
  <2>2. Looks(n)'
    BY <1>2, <1>4, <2>1 DEF Looks, Readable, Doomed, Unmade, Making
  <2>3. Waiting(n[1])'
    BY <1>2, <1>4, <2>1 DEF Keeps, Waiting, InList, Pooled, Dropped
  <2> QED
    BY <1>2, <1>4, <2>1, <2>2, <2>3, KeepsStay
<1> QED
  BY <1>5, <1>6, <1>7, <1>8, <1>9, <1>10, <1>11 DEF NodeNext, NodeThreads

(* A collection that may overtake the reader is the service thread's, has begun
   before the reader found its node, and ends before the node can be freed. *)
LEMMA GcWaitsKept ==
  ASSUME NodeTypes, NodeTypes', Shelf, WorkersFit, TimesFit, GcWaits, [NodeNext]_nodeVars
  PROVE  GcWaits'
<1>1. SUFFICES ASSUME NEW t \in NodeThreads, readStart' # 0, nodeGcTime'[t] > readStart'
               PROVE  t = Servant /\ \A n \in NodePlaces : readNode' = n => n \in live' /\ Unmade(n)'
  BY DEF GcWaits
<1>2. readStart \in Nat /\ readStart' \in Nat /\ nodeGcTime[t] \in Nat /\ nodeGcTime'[t] \in Nat
  BY DEF NodeTypes
<1>3. ASSUME NEW n \in NodePlaces, readNode = n, n \in live, Unmade(n), NEW w \in NodeWorkers, WorkStep(w)
      PROVE  n \in live' /\ Unmade(n)'
  <2>1. LockNew(w) => workNode[w] # n
    BY <1>3 DEF LockNew, Moves, Shelf, NodesSit, Taken
  <2>2. Unmade(n)'
    BY <1>3, <2>1, StillUnmade DEF Shelf
  <2>3. CASE AbortMade(w)
    BY <1>3, <2>2, <2>3 DEF AbortMade, Moves, Unmade, Making
  <2>4. CASE ~AbortMade(w)
    BY <1>3, <2>2, <2>4 DEF WorkStep, Begin, TakeSlot, NoSlot, TakePage, LinkPage, LockNew, RefuseNew, LockOld, Commit,
                      AbortEnd
  <2> QED
    BY <2>2, <2>3, <2>4
<1>4. ASSUME NEW w \in NodeWorkers, WorkStep(w)
      PROVE  t = Servant /\ \A n \in NodePlaces : readNode' = n => n \in live' /\ Unmade(n)'
  <2>1. UNCHANGED <<nodeGcTime, readStart, readNode>>
    BY <1>4, OthersRest DEF Shelf
  <2>2. t = Servant /\ \A n \in NodePlaces : readNode = n => n \in live /\ Unmade(n)
    BY <1>1, <2>1 DEF GcWaits
  <2> QED
    BY <1>3, <1>4, <2>1, <2>2
<1>5. ASSUME NEW u \in NodeThreads, FreeStep(u)
      PROVE  t = Servant /\ \A n \in NodePlaces : readNode' = n => n \in live' /\ Unmade(n)'
  <2>1. UNCHANGED <<live, workAt, workNode, readStart, readNode>>
    BY <1>5 DEF FreeStep, FreeSlot, PoolPage, PoolRelease, PoolSift, PoolDone, workVars, readVars
  <2>2. nodeGcTime'[t] = nodeGcTime[t] \/ nodeGcTime'[t] = Oldest \/ nodeGcTime'[t] = 0
    BY <1>5 DEF FreeStep, FreeSlot, PoolPage, PoolRelease, PoolSift, PoolDone, poolVars, NodeTypes
  <2>3. Oldest \in Nat /\ Oldest <= readStart
    BY <1>1, <2>1, OldestIs
  <2>4. nodeGcTime[t] > readStart
    BY <1>1, <1>2, <2>1, <2>2, <2>3
  <2>5. t = Servant /\ \A n \in NodePlaces : readNode = n => n \in live /\ Unmade(n)
    BY <1>1, <2>1, <2>4 DEF GcWaits
  <2> QED
    BY <2>1, <2>5 DEF Unmade, Making
<1>6. CASE ServeDoomed
  <2>1. UNCHANGED <<nodeGcTime, workAt, workNode, readStart, readNode>> /\ nodeGcTime[Servant] = 0
    BY <1>6 DEF ServeDoomed, poolVars, readVars
  <2>2. t = Servant /\ nodeGcTime[t] > readStart
    BY <1>1, <2>1 DEF GcWaits
  <2> QED
    BY <1>2, <2>1, <2>2
<1>7. CASE ReadBegin
  <2>1. readStart' = clock /\ readNode' = readNode /\ readStart = 0 /\ UNCHANGED nodeGcTime
    BY <1>7 DEF ReadBegin, poolVars
  <2>2. readNode = NoNode
    BY <2>1 DEF TimesFit
  <2>3. \A n \in NodePlaces : readNode' # n
    BY <2>1, <2>2, NodesAre
  <2>4. t \notin NodeWorkers
    <3>1. clock \in Nat
      BY DEF NodeTypes
    <3> QED
      BY <1>1, <1>2, <2>1, <3>1 DEF TimesFit
  <2> QED
    BY <2>3, <2>4 DEF NodeThreads
<1>8. CASE ReadFind
  <2>1. UNCHANGED <<nodeGcTime, readStart, live, workAt, workNode>>
    BY <1>8 DEF ReadFind, poolVars, workVars
  <2>2. t = Servant
    BY <1>1, <2>1 DEF GcWaits
  <2>3. PICK m \in Reachable : Readable(m) /\ readNode' = m
    BY <1>8 DEF ReadFind
  <2>4. m \in live /\ lockOf[m] = Open
    BY <2>3 DEF Reachable, Readable
  <2>5. ASSUME NEW n \in NodePlaces, m = n PROVE Unmade(n)
    BY <2>4, <2>5, SlotsAssumption, FitIs DEF Owned, Own, Holds, Unmade, Making
  <2> QED
    BY <2>1, <2>2, <2>3, <2>4, <2>5 DEF Unmade, Making
<1>9. CASE ReadEnd
  BY <1>1, <1>9 DEF ReadEnd
<1>10. CASE UNCHANGED nodeVars
  <2>1. UNCHANGED <<nodeGcTime, readStart, readNode, live, workAt, workNode>>
    BY <1>10 DEF nodeVars, poolVars, readVars, workVars
  <2> QED
    BY <1>1, <2>1 DEF GcWaits, Unmade, Making
<1> QED
  BY <1>4, <1>5, <1>6, <1>7, <1>8, <1>9, <1>10 DEF NodeNext, NodeThreads

-----------------------------------------------------------------------------
(* The invariant *)

(* Nothing is in a page, and nobody has one. *)
LEMMA NodeInvInitially ==
  ASSUME NodeInit
  PROVE  NodeInv
<1>1. NodeTypes
  BY NodeTypesInitially
<1>2. /\ Len(blocks) = 0 /\ Len(pool) = 0 /\ Len(doomed) = 0 /\ live = {} /\ readNode = NoNode
      /\ readStart = 0 /\ clock = 1 /\ early = FALSE /\ recycled = FALSE /\ poolCount = 0 /\ slowRounds = 0
      /\ \A w \in NodeWorkers : workAt[w] = "idle" /\ workNode[w] = NoNode /\ workStart[w] = 0
  BY DEF NodeInit
<1>3. \A t \in NodeThreads : workFree[t] = NoFree /\ nodeGcTime[t] = 0
  BY DEF NodeInit, NodeThreads
<1>4. NoFree.what = "none"
  BY DEF NoFree
<1>5. \A p \in VPages : ~InList(p) /\ ~Pooled(p)
  BY <1>2 DEF InList, Pooled
<1>6. WorkersFit
  BY <1>2, <1>3 DEF WorkersFit, Making, Killing, NodeThreads
<1>7. PagesApart
  BY <1>2, <1>3, <1>4, <1>5 DEF PagesApart, Linked, Dropped
<1>8. NodesSit
  BY <1>2, <1>3, <1>4 DEF NodesSit, Taken, Freeing
<1>9. UsedFits /\ RoomSorted
  BY <1>2, <1>5 DEF UsedFits, Linked, RoomSorted, Sorted
<1>10. DoomedFit /\ TimesFit
  BY <1>2, <1>3 DEF DoomedFit, TimesFit, NodeThreads
<1>11. GcWaits /\ PoolDrift
  BY <1>2 DEF GcWaits, PoolDrift
<1>12. ReaderSafe
  <2>1. \A n \in NodePlaces : readNode # n
    BY <1>2, NodesAre
  <2> QED
    BY <2>1 DEF ReaderSafe
<1> QED
  BY <1>1, <1>6, <1>7, <1>8, <1>9, <1>10, <1>11, <1>12 DEF NodeInv

(* Every step keeps all of it. *)
LEMMA NodeInvKept ==
  ASSUME NodeInv, [NodeNext]_nodeVars
  PROVE  NodeInv'
<1>1. NodeTypes'
  BY NodeTypesKept
<1>2. /\ NodeTypes /\ Shelf /\ WorkersFit /\ PagesApart /\ DoomedFit /\ TimesFit /\ GcWaits /\ PoolDrift
      /\ early \/ ReaderSafe
  BY DEF NodeInv, Shelf
<1>3. PagesApart' /\ NodesSit' /\ UsedFits' /\ RoomSorted'
  <2>1. Shelf'
    BY <1>1, <1>2, ShelfKept
  <2> QED
    BY <2>1 DEF Shelf
<1>4. WorkersFit' /\ DoomedFit'
  BY <1>1, <1>2, WorkersKept, DoomedKept
<1>5. TimesFit' /\ GcWaits'
  BY <1>1, <1>2, TimesKept, GcWaitsKept
<1>6. early' \/ ReaderSafe'
  BY <1>1, <1>2, ReaderKept
<1>7. PoolDrift'
  BY <1>1, <1>2, DriftKept
<1> QED
  BY <1>1, <1>3, <1>4, <1>5, <1>6, <1>7 DEF NodeInv

(* In every behaviour, always. *)
LEMMA NodeInvAlways == NodeSpec => []NodeInv
<1>1. NodeInit => NodeInv
  BY NodeInvInitially
<1>2. NodeInv /\ [NodeNext]_nodeVars => NodeInv'
  BY NodeInvKept
<1> QED
  BY <1>1, <1>2, PTL DEF NodeSpec

(* node_allocator_alloc looks at one page only, the last of the list, and maps a
   new one when that page is full: however transactions create, delete, abort and
   commit, it never does so while a page of the list has a free slot. *)
THEOREM RoomAlwaysLast == NodeSpec => []RoomIsLast
<1>1. NodeInv => RoomIsLast
  <2>1. SUFFICES ASSUME NodeInv, NEW k \in DOMAIN blocks, freeSlots[blocks[k]] # {}
                 PROVE  freeSlots[Last(blocks)] # {}
    BY DEF RoomIsLast
  <2>2. blocks \in Seq(VPages) /\ Sorted(blocks, freeSlots)
    BY <2>1 DEF NodeInv, NodeTypes, RoomSorted
  <2>3. k \in 1 .. Len(blocks) /\ Len(blocks) \in 1 .. Len(blocks) /\ Last(blocks) = blocks[Len(blocks)]
    BY <2>1, <2>2 DEF Last
  <2>4. CASE k = Len(blocks)
    BY <2>1, <2>3, <2>4
  <2>5. CASE k # Len(blocks)
    <3>1. k < Len(blocks)
      BY <2>3, <2>5
    <3> QED
      BY <2>1, <2>2, <2>3, <3>1 DEF Sorted
  <2> QED
    BY <2>4, <2>5
<1> QED
  BY <1>1, NodeInvAlways, PTL

(* The counter of the pool falls behind the pool by one page for each collection
   that puts a page back, and for no other reason. *)
THEOREM DriftAlwaysCounted == NodeSpec => []PoolDrift
<1>1. NodeInv => PoolDrift
  BY DEF NodeInv
<1> QED
  BY <1>1, NodeInvAlways, PTL

(* What a transaction has read of a node fails its check once the node is gone, and
   the lock it looks at is still there: unless a page was taken from the pool before
   its time, or put there with a time before the last deletion on it. *)
THEOREM StaleReadsAlwaysFail == NodeSpec => []StaleReadsFailUnlessEarly
<1>1. NodeInv => StaleReadsFailUnlessEarly
  <2>1. SUFFICES ASSUME NodeInv, ~early PROVE StaleReadsFail
    BY DEF StaleReadsFailUnlessEarly
  <2>2. ReaderSafe /\ readNode \in NodePlaces \cup {NoNode}
    BY <2>1 DEF NodeInv, NodeTypes
  <2>3. CASE readNode = NoNode
    BY <2>3 DEF StaleReadsFail
  <2>4. CASE readNode # NoNode
    <3>1. PICK n \in NodePlaces : readNode = n
      BY <2>2, <2>4
    <3>2. Looks(n) /\ Keeps(n)
      BY <2>2, <3>1, ReaderIs
    <3> QED
      BY <3>1, <3>2 DEF Looks, Keeps, StaleReadsFail
  <2> QED
    BY <2>3, <2>4
<1> QED
  BY <1>1, NodeInvAlways, PTL
=============================================================================
