--------------------------- MODULE MCDatabaseFiles ---------------------------
(* Small instances of the modules about files for TLC.  They share no state, and
   one run explores them side by side: what an initial state calls part is the
   machine that runs from it, and the others stand still. *)
EXTENDS DumpReplay, DataFiles, StorageFormat, TLC

CONSTANT Parts   \* of "dump", "files", "format"

VARIABLE part

SomeTexts == {<<>>, <<2, 4, 7>>, [k \in 1 .. 11 |-> 15 - k]}

PartInit == part \in Parts /\ Init /\ FilesInit /\ FormatInit

DumpPart   == part = "dump" /\ Next /\ UNCHANGED <<part, filesVars, formatVars>>
FilesPart  == part = "files" /\ FilesNext /\ UNCHANGED <<part, vars, formatVars>>
FormatPart == part = "format" /\ FormatNext /\ UNCHANGED <<part, vars, filesVars>>

(* Files and tools may come to an end; the service thread and transactions of
   DumpReplay may not block, but for the end the bounds put to them. *)
MayStop == part # "dump" /\ UNCHANGED <<part, vars, filesVars, formatVars>>

PartSpec == PartInit /\ [][DumpPart \/ FilesPart \/ FormatPart \/ MayStop]_<<
              part, vars, filesVars, formatVars>>

Symmetry == Permutations(Handles)
=============================================================================
