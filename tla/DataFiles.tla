------------------------------ MODULE DataFiles ------------------------------
(***************************************************************************)
(* The sequence of data files over the life of a database: load_data       *)
(* (database.include/database_create.c), _database_new_file                *)
(* (database.include/database.c), the write buffer of the service thread   *)
(* (database.include/threads.c), crashes at every step, restarts, and the  *)
(* two things a user does to the files: deleting those older than a dump,  *)
(* and cutting off a damaged end with the tool storage/rescuer.c.          *)
(*                                                                         *)
(* A transaction here creates one node, or changes only memory of indexes. *)
(* What several transactions make of each other is HybridStm's subject,    *)
(* and how a dump and transactions mix in a file that of DumpReplay: here  *)
(* the nodes of a dump follow each other.                                  *)
(***************************************************************************)
EXTENDS Naturals, Sequences, FiniteSets, SequencesExt

CONSTANTS
  PowerLoss,   \* crashes may lose what no fsync has put on the disk
  MemoryOnly,  \* there are transactions that change only memory
  MaxNodes,    \* bound: nodes
  MaxFiles,    \* bound: files that have ever existed
  MaxStarts    \* bound: calls of database_create

ASSUME FilesAssumption ==
  /\ {PowerLoss, MemoryOnly} \subseteq BOOLEAN
  /\ {MaxNodes, MaxFiles, MaxStarts} \subseteq Nat \ {0}

VARIABLES
  files,      \* the data files in the order of their numbers
  created,    \* how many there have been
  stage,      \* where the program is, "down" if it does not run
  task,       \* what a new file is created for
  fd,         \* the file D->file_desc refers to, 0 if it is closed
  buffer,     \* the Writer W of the service thread
  mem,        \* the nodes in memory
  committed,  \* nodes committed, and not lost since: history
  acked,      \* those that tr_commit(CT_SYNC) has answered for: history
  excuse,     \* what has happened that loses data: history
  starts      \* calls of database_create so far

onDisk == <<files, created>>
program == <<stage, task, fd, buffer, mem>>
history == <<committed, acked, excuse>>
filesVars == <<onDisk, program, history, starts>>

F == INSTANCE Loading WITH InitValue <- 0

-----------------------------------------------------------------------------
NewFile == [header |-> FALSE, magic |-> 0, records |-> <<>>, synced |-> 0]

(* The file with records r written to its end. *)
Extended(f, r) == [f EXCEPT !.records = @ \o r]
Synced(f) == [f EXCEPT !.synced = Len(f.records)]

(* The file cut off behind its first n records. *)
Cut(f, n) == [f EXCEPT !.records = SubSeq(@, 1, n)]

Closed(f) == \E i \in DOMAIN f.records : f.records[i].kind = "END OF FILE"
HasDump(f) ==
  \E i \in 1 .. f.synced :
    /\ f.records[1] = F!DumpBegin
    /\ f.records[i] = F!DumpEnd

(* Files are loaded one after another; load_data stops after one that is
   corrupted, and after one that is not closed. *)
Stops(d) == d.status \in {"CORRUPTED", "UNFINISHED"}
LoadFiles(fs, n) ==
  LET after[k \in 0 .. n] ==
        IF k = 0 THEN F!Nothing
        ELSE IF Stops(after[k - 1]) THEN after[k - 1]
        ELSE F!LoadFile(after[k - 1], fs[k], k = 1)
  IN  after[n]
LoadAll(fs) == LoadFiles(fs, Len(fs))

(* Whether all of them have been loaded. *)
LastLoaded(fs) == \A k \in 1 .. Len(fs) - 1 : LoadFiles(fs, k).status = "SUCCESS"

Nodes == DOMAIN mem

-----------------------------------------------------------------------------
(* database_create *)

(* load_data up to the opening of the file that is written to.  Without a
   file, or if the last one is closed, a new one is created. *)
Start ==
  /\ stage = "down"
  /\ starts < MaxStarts
  /\ starts' = starts + 1
  /\ LET d == LoadAll(files)
         readOnly == d.status = "CORRUPTED" \/ ~LastLoaded(files)
     IN  /\ mem' = d.nodes
         /\ \/ /\ readOnly
               /\ stage' = "readonly" /\ fd' = 0
               /\ UNCHANGED <<committed, acked>>
            \/ /\ ~readOnly
               /\ IF d.status = "UNFINISHED"
                    THEN stage' = "up" /\ fd' = Len(files)
                    ELSE stage' = "open" /\ fd' = 0
               /\ committed' = committed \cap DOMAIN d.nodes
               /\ acked' = acked \cap DOMAIN d.nodes
  /\ task' = "start"
  /\ UNCHANGED <<onDisk, buffer, excuse>>

-----------------------------------------------------------------------------
(* _database_new_file *)

(* The requests DB_SERVICE__CREATE_NEW_FILE and DB_SERVICE__START_DUMP: what is
   in the buffer is synchronised, then the old file gets its end mark and is
   closed.  Nothing synchronises the end mark. *)
CloseOld(t) ==
  /\ stage = "up" /\ fd # 0
  /\ created < MaxFiles
  /\ files' = [files EXCEPT ![fd] =
       Extended(Synced(Extended(@, buffer)), <<F!EndOfFile(created + 1)>>)]
  /\ buffer' = <<>>
  /\ fd' = 0
  /\ acked' = committed
  /\ stage' = "open"
  /\ task' = t
  /\ UNCHANGED <<created, mem, committed, excuse, starts>>

OpenNew ==
  /\ stage = "open"
  /\ created < MaxFiles
  /\ files' = Append(files, NewFile)
  /\ created' = created + 1
  /\ stage' = "head"
  /\ UNCHANGED <<task, fd, buffer, mem, history, starts>>

(* Mutant: after a failure the old file is used again. *)
OpenFailsReopens ==
  /\ stage = "open"
  /\ IF task = "start" THEN stage' = "down" /\ fd' = 0
                       ELSE stage' = "up" /\ fd' = Len(files)
  /\ UNCHANGED <<onDisk, task, buffer, mem, history, starts>>

(* open() fails: database_create gives up; a request is answered with an error,
   and file_desc remains closed. *)
OpenFails ==
  /\ stage = "open"
  /\ IF task = "start" THEN stage' = "down" ELSE stage' = "up"
  /\ UNCHANGED <<onDisk, task, fd, buffer, mem, history, starts>>

(* Mutant: the header gets a magic number of its own. *)
WriteHeadFresh ==
  /\ stage = "head"
  /\ LET n == Len(files)
         begin == IF task = "dump" \/ n = 1 THEN <<F!DumpBegin>> ELSE <<>>
     IN  /\ files' = [files EXCEPT ![n] =
              Synced([@ EXCEPT !.header = TRUE, !.magic = n - 1,
                               !.records = begin])]
         /\ fd' = n
  /\ stage' = CASE task = "start" -> "finish"
                [] task = "new file" -> "up"
                [] task = "dump" -> "dump"
  /\ UNCHANGED <<created, task, buffer, mem, history, starts>>

(* The header, with the magic number that has gone into the old file's end mark
   or has been found there by load_data, and DUMP BEGIN in the first file and
   for a dump; fsync. *)
WriteHead ==
  /\ stage = "head"
  /\ LET n == Len(files)
         magic == IF task = "start" THEN LoadFiles(files, n - 1).magic ELSE created
         begin == IF task = "dump" \/ n = 1 THEN <<F!DumpBegin>> ELSE <<>>
     IN  /\ files' = [files EXCEPT ![n] =
              Synced([@ EXCEPT !.header = TRUE, !.magic = magic,
                               !.records = begin])]
         /\ fd' = n
  /\ stage' = CASE task = "start" -> "finish"
                [] task = "new file" -> "up"
                [] task = "dump" -> "dump"
  /\ UNCHANGED <<created, task, buffer, mem, history, starts>>

(* The end of load_data: the dump in the first file is empty.  If there were
   files, the one that was loaded last is opened for appending, whether or not
   a new one has been created just before. *)
FinishStart ==
  /\ stage = "finish"
  /\ stage' = "up"
  /\ IF Len(files) = 1
       THEN /\ files' = [files EXCEPT ![fd] = Extended(@, <<F!DumpEnd>>)]
            /\ UNCHANGED <<fd, excuse>>
       ELSE /\ fd' = Len(files) - 1
            /\ excuse' = excuse \cup {"reopened"}
            /\ UNCHANGED files
  /\ UNCHANGED <<created, task, buffer, mem, committed, acked, starts>>

-----------------------------------------------------------------------------
(* The service thread *)

(* The job of a transaction that has created a node is put into the buffer. *)
Commit ==
  /\ stage = "up"
  /\ LET i == Max(Nodes \cup {0}) + 1
     IN  /\ i <= MaxNodes
         /\ buffer' = Append(buffer, F!Transaction(<<F!Created(i)>>))
         /\ mem' = F!Put(mem, i, 0)
         /\ committed' = committed \cup {i}
  /\ UNCHANGED <<onDisk, stage, task, fd, acked, excuse, starts>>

(* The job of a transaction that has changed only memory: an empty array. *)
CommitMemory ==
  /\ stage = "up"
  /\ MemoryOnly /\ "memory" \notin excuse
  /\ buffer' = Append(buffer, F!Transaction(<<>>))
  /\ excuse' = excuse \cup {"memory"}
  /\ UNCHANGED <<onDisk, stage, task, fd, mem, committed, acked, starts>>

(* buffered_write finds the buffer full. *)
Spill ==
  /\ stage = "up" /\ fd # 0
  /\ buffer # <<>>
  /\ files' = [files EXCEPT ![fd] = Extended(@, buffer)]
  /\ buffer' = <<>>
  /\ UNCHANGED <<created, stage, task, fd, mem, history, starts>>

(* Mutant: buffered_sync does not write the buffer first. *)
SyncUnwritten ==
  /\ stage = "up" /\ fd # 0
  /\ files' = [files EXCEPT ![fd] = Synced(@)]
  /\ buffer' = buffer
  /\ acked' = committed
  /\ UNCHANGED <<created, stage, task, fd, mem, committed, excuse, starts>>

(* buffered_sync, after which a synchronous commit returns. *)
Sync ==
  /\ stage = "up" /\ fd # 0
  /\ files' = [files EXCEPT ![fd] = Synced(Extended(@, buffer))]
  /\ buffer' = <<>>
  /\ acked' = committed
  /\ UNCHANGED <<created, stage, task, fd, mem, committed, excuse, starts>>

(* do_dump, with its end mark: all nodes, as they lie in memory. *)
Dump ==
  /\ stage = "dump"
  /\ \E order \in SetToSeqs(Nodes) :
       LET dumped == [k \in DOMAIN order |-> F!Dumped(order[k], mem[order[k]])]
       IN  files' = [files EXCEPT ![fd] = Extended(@, Append(dumped, F!DumpEnd))]
  /\ stage' = "dumped"
  /\ UNCHANGED <<created, task, fd, buffer, mem, history, starts>>

DumpSync ==
  /\ stage = "dumped"
  /\ files' = [files EXCEPT ![fd] = Synced(@)]
  /\ stage' = "up"
  /\ UNCHANGED <<created, task, fd, buffer, mem, history, starts>>

(* The service thread's last buffered_sync, and database_close. *)
Close ==
  /\ stage = "up" /\ fd # 0
  /\ files' = [files EXCEPT ![fd] = Synced(Extended(@, buffer))]
  /\ acked' = committed
  /\ stage' = "down" /\ fd' = 0 /\ buffer' = <<>>
  /\ UNCHANGED <<created, task, mem, committed, excuse, starts>>

-----------------------------------------------------------------------------
(* Failures *)

(* What a power failure may leave of a file: all that is synchronised, any part
   of the rest, and perhaps a piece of one more record. *)
Remains(f) ==
  {[f EXCEPT !.records = SubSeq(@, 1, n), !.synced = n] :
     n \in f.synced .. Len(f.records)}
  \cup {[f EXCEPT !.records = Append(SubSeq(@, 1, n), F!Torn), !.synced = n + 1] :
     n \in f.synced .. Len(f.records) - 1}

Stopped == stage' = "down" /\ fd' = 0 /\ buffer' = <<>>

(* The process ends: by utilDie, as it does when it has to write to a file that
   is closed, or for any other reason. *)
Crash ==
  /\ stage # "down"
  /\ Stopped
  /\ UNCHANGED <<onDisk, task, mem, history, starts>>

PowerFails ==
  /\ PowerLoss
  /\ stage # "down"
  /\ Stopped
  /\ \E fs \in [DOMAIN files -> UNION {Remains(files[k]) : k \in DOMAIN files}] :
       /\ \A k \in DOMAIN files : fs[k] \in Remains(files[k])
       /\ files' = fs
       /\ excuse' = excuse \cup
            (IF \E k \in DOMAIN files \ {Len(files)} : Closed(files[k]) /\ ~Closed(fs[k])
               THEN {"end mark"} ELSE {})
  /\ UNCHANGED <<created, task, mem, committed, acked, starts>>

-----------------------------------------------------------------------------
(* The user *)

(* Files older than a complete dump are deleted. *)
DeleteOlder ==
  \E k \in DOMAIN files \ {1} :
    /\ HasDump(files[k])
    /\ stage \in {"down", "up"}
    /\ fd = 0 \/ fd >= k
    /\ files' = SubSeq(files, k, Len(files))
    /\ fd' = IF fd = 0 THEN 0 ELSE fd - (k - 1)
    /\ UNCHANGED <<created, stage, task, buffer, mem, history, starts>>

(* rescuer.c copies all root elements up to the first it cannot read. *)
Rescue ==
  /\ stage = "down"
  /\ \E k \in DOMAIN files : \E i \in DOMAIN files[k].records :
       /\ files[k].records[i] = F!Torn
       /\ \A j \in 1 .. i - 1 : files[k].records[j] # F!Torn
       /\ files' = [files EXCEPT ![k] = Synced(Cut(@, i - 1))]
  /\ UNCHANGED <<created, program, history, starts>>

-----------------------------------------------------------------------------
FilesInit ==
  /\ files = <<>> /\ created = 0
  /\ stage = "down" /\ task = "start"
  /\ fd = 0
  /\ buffer = <<>>
  /\ mem = <<>>
  /\ committed = {} /\ acked = {} /\ excuse = {}
  /\ starts = 0

FilesNext ==
  \/ Start \/ OpenNew \/ OpenFails \/ WriteHead \/ FinishStart
  \/ \E t \in {"new file", "dump"} : CloseOld(t)
  \/ Commit \/ CommitMemory \/ Spill \/ Sync \/ Dump \/ DumpSync \/ Close
  \/ Crash \/ PowerFails
  \/ DeleteOlder \/ Rescue

FilesSpec == FilesInit /\ [][FilesNext]_filesVars
-----------------------------------------------------------------------------
(* A start finds the nodes of the first so many transactions, all that have
   been acknowledged among them (text/kap1.tex:15-17, enums.h:172).  Nodes are
   numbered in the order of their transactions. *)
Recovers ==
  /\ acked \subseteq DOMAIN mem' /\ DOMAIN mem' \subseteq committed
  /\ \A i \in DOMAIN mem', j \in committed : j < i => j \in DOMAIN mem'
RecoveryIsPrefix == [][Start => Recovers]_filesVars

(* So it is unless a closed file was opened again, an end mark was lost in a
   power failure, or a transaction changed only memory. *)
RecoveryIsPrefixUnless == [][Start /\ excuse = {} => Recovers]_filesVars

(* As long as none of the three has happened, loading the files as they are,
   with what is still in the buffer, gives the nodes in memory: whatever
   sequence of crashes, repairs, dumps and deletions of files came before. *)
FilesHoldAll ==
  stage = "up" /\ fd # 0 /\ excuse = {} =>
    LoadAll([files EXCEPT ![fd] = Extended(@, buffer)]).nodes = mem

(* The database comes up read-only only because of an excuse, a damaged end, or
   a new file that has not got its header. *)
ReadOnlyReasons ==
  stage = "readonly" =>
    \/ excuse # {}
    \/ ~Last(files).header
    \/ Last(files).records # <<>> /\ Last(Last(files).records) = F!Torn

(* Nothing is appended behind an end mark, or to another file than the last,
   unless a closed file was opened again. *)
AppendsToLast ==
  fd # 0 /\ "reopened" \notin excuse => fd = Len(files) /\ ~Closed(files[fd])
=============================================================================
