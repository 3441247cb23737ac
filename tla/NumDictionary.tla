---------------------------- MODULE NumDictionary ----------------------------
(***************************************************************************)
(* The dictionary of ids the loading of a database looks nodes up in       *)
(* (utils/num_dictionary.h): hashing into buckets, a table of capacities   *)
(* the array of buckets walks up and down, and cells cut from pages that   *)
(* are given back only with the whole dictionary.  The order within a      *)
(* bucket and within the list of free cells is left out.                   *)
(***************************************************************************)
EXTENDS Naturals, Sequences, FiniteSets

CONSTANTS
  Keys,            (* keys, natural numbers                                 *)
  Vals,            (* values                                                *)
  Cells,           (* cells of all pages; finite, a bound of the model      *)
  CellsPerPage,    (* (PAGE_ALLOCATOR_PAGE_SIZE - header) / node_size       *)
  Capacities,      (* _ndict_capacities: 0, sizes, 0                        *)
  HashFactor       (* 2971215073                                            *)

ASSUME DictAssumption ==
  /\ Keys \subseteq Nat /\ HashFactor \in Nat /\ IsFiniteSet(Cells)
  /\ CellsPerPage \in 1 .. Cardinality(Cells)
  /\ Len(Capacities) > 2
  /\ \A i \in DOMAIN Capacities :
       Capacities[i] \in Nat /\ (Capacities[i] = 0 <=> i \in {1, Len(Capacities)})

VARIABLES
  dictSize, capIndex,   (* size and capacity_index, here from 1             *)
  buckets,              (* the cells of each bucket                         *)
  cellKey, cellVal,
  freeCells, dictPages, (* free_nodes and pages, as sets of cells           *)
  entries               (* history: what has been put in and not taken out  *)

dictVars == <<dictSize, capIndex, buckets, cellKey, cellVal, freeCells, dictPages,
              entries>>

Hash(cap, k) == (k * HashFactor) % cap
Capacity     == Capacities[capIndex]
Chained      == UNION {buckets[b] : b \in DOMAIN buckets}

DictInit ==
  /\ dictSize = 0 /\ capIndex = 1
  /\ buckets = <<>>
  /\ cellKey = [c \in Cells |-> 0]
  /\ cellVal = [c \in Cells |-> CHOOSE v \in Vals : TRUE]
  /\ freeCells = {} /\ dictPages = {}
  /\ entries = <<>>

(* ndict_generic_get_node: the cells of one bucket are compared. *)
GetNode(k) ==
  IF Capacity = 0 THEN {} ELSE {c \in buckets[Hash(Capacity, k)] : cellKey[c] = k}

(* Mutant: the cells stay in the buckets they were in. *)
ResizeInPlace(cells, i) ==
  [b \in 0 .. Capacities[i] - 1 |->
     IF b \in DOMAIN buckets THEN buckets[b] \cap cells ELSE {}]

(* _ndict_resize: all cells are hashed anew. *)
Resize(cells, i) ==
  [b \in 0 .. Capacities[i] - 1 |-> {c \in cells : Hash(Capacities[i], cellKey[c]) = b}]

(* A free cell will do; without one a new page is cut into cells. *)
NewPages ==
  IF freeCells # {} THEN {{}}
  ELSE {p \in SUBSET (Cells \ UNION dictPages) : Cardinality(p) = CellsPerPage}

(* ndict_insert: without effect on the entries if the key is known.  At the end
   of the table of capacities the program would end. *)
Insert(k, v) ==
  \E page \in NewPages : \E c \in freeCells \cup page :
    /\ dictPages' = (dictPages \cup {page}) \ {{}}
    /\ cellKey' = [cellKey EXCEPT ![c] = k]
    /\ cellVal' = [cellVal EXCEPT ![c] = v]
    /\ IF GetNode(k) # {}
       THEN /\ freeCells' = freeCells \cup page
            /\ UNCHANGED <<dictSize, capIndex, buckets, entries>>
       ELSE LET grow  == Capacity < 2 * dictSize + 1
                i     == IF grow THEN capIndex + 1 ELSE capIndex
                wider == IF grow THEN Resize(Chained, i) ELSE buckets
            IN  /\ Capacities[i] # 0
                /\ capIndex' = i
                /\ buckets' = [wider EXCEPT ![Hash(Capacities[i], k)] = @ \cup {c}]
                /\ dictSize' = dictSize + 1
                /\ freeCells' = (freeCells \cup page) \ {c}
                /\ entries' = [x \in DOMAIN entries \cup {k} |->
                                 IF x = k THEN v ELSE entries[x]]

(* ndict_remove *)
RemoveKey(k) ==
  \E c \in GetNode(k) :
    LET shrink == Capacity > 4 * (dictSize - 1) /\ Capacities[capIndex - 1] # 0
        i      == IF shrink THEN capIndex - 1 ELSE capIndex
    IN  /\ capIndex' = i
        /\ buckets' = IF shrink THEN Resize(Chained \ {c}, i)
                      ELSE [buckets EXCEPT ![Hash(Capacity, k)] = @ \ {c}]
        /\ dictSize' = dictSize - 1
        /\ freeCells' = freeCells \cup {c}
        /\ entries' = [x \in DOMAIN entries \ {k} |-> entries[x]]
        /\ UNCHANGED <<cellKey, cellVal, dictPages>>

(* ndict_destroy *)
Destroy ==
  /\ dictSize' = 0 /\ capIndex' = 1
  /\ buckets' = <<>>
  /\ freeCells' = {} /\ dictPages' = {}
  /\ entries' = <<>>
  /\ UNCHANGED <<cellKey, cellVal>>

DictNext == \/ \E k \in Keys : RemoveKey(k) \/ \E v \in Vals : Insert(k, v)
            \/ Destroy

DictSpec == DictInit /\ [][DictNext]_dictVars

-----------------------------------------------------------------------------
(* Whatever insertions, removals and changes of capacity came before, a look-up
   finds what was put in and not taken out, size counts it, and each cell of
   each page is free or in one bucket. *)
DictionaryIsMap ==
  /\ \A k \in Keys : {cellVal[c] : c \in GetNode(k)} =
                       IF k \in DOMAIN entries THEN {entries[k]} ELSE {}
  /\ dictSize = Cardinality(DOMAIN entries)
  /\ \A c \in UNION dictPages :
       Cardinality({b \in DOMAIN buckets : c \in buckets[b]})
         = IF c \in freeCells THEN 0 ELSE 1
=============================================================================
