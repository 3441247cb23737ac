---------------------------- MODULE StorageFormat ----------------------------
(***************************************************************************)
(* The bytes of a data file (storage/): the Writer, the write buffer of    *)
(* the service thread (database.include/threads.c), a crash that keeps     *)
(* only a first part of what has been written, and the tool that copies    *)
(* what can still be read, storage/rescuer.c, with its Reader.             *)
(*                                                                         *)
(* A byte has ByteBits bits and a word WordBytes bytes, 8 and 8 in the     *)
(* code; all lengths that follow from them follow here too.  The growth    *)
(* of the Writer's memory is left out, and crc32_c is some sum.  What the  *)
(* elements of a database file mean is Loading's subject.                  *)
(***************************************************************************)
EXTENDS Integers, Sequences, FiniteSets, SequencesExt

CONSTANTS
  ByteBits, WordBytes,
  StString,      (* ST_STRING, the code of the empty string                 *)
  Texts,         (* strings that are written, sequences of bytes            *)
  Numbers,       (* numbers that are written                                *)
  WriteBuffer,   (* DB_WRITE_BUFFER_SIZE                                    *)
  MaxElements,   (* bound: elements written                                 *)
  MaxTokens      (* bound: brackets, strings and numbers written            *)

Byte == 2 ^ ByteBits

ASSUME FormatAssumption ==
  /\ {ByteBits, WordBytes} \subseteq Nat \ {0}
  /\ StString \in 5 .. Byte \div 2 - 1 - WordBytes
  /\ \A t \in Texts : \A k \in DOMAIN t : t[k] \in 0 .. Byte - 1

ST_ARRAY_BEGIN == 1
ST_ARRAY_END   == 3
ST_DOT         == 2
ST_CRC         == 4
ST_LEN_BEGIN   == 7
ST_LEN_END     == 9

-----------------------------------------------------------------------------
(* Numbers as bytes, the lowest first. *)
Digits(n, k)  == [i \in 1 .. k |-> (n \div Byte ^ (i - 1)) % Byte]
FromDigits(s) == FoldRight(LAMBDA d, n : n * Byte + d, s, 0)

(* How many bytes n takes without zeros at its end. *)
Width(n) == CHOOSE k \in 0 .. WordBytes :
              /\ n < Byte ^ k
              /\ k > 0 => n >= Byte ^ (k - 1)

(* _write_number: as in UTF-8 the first byte has a one for each that follows,
   then the highest bits. *)
Fits(n, i) == n \div Byte ^ i < 2 ^ (ByteBits - 1 - i)
LengthCode(n) ==
  IF n < Byte \div 2 THEN <<n>>
  ELSE IF n >= Byte ^ (WordBytes - 1) THEN <<Byte - 1>> \o Digits(n, WordBytes)
  ELSE LET i == CHOOSE i \in 1 .. ByteBits - 1 :
                  Fits(n, i) /\ \A j \in 1 .. i - 1 : ~Fits(n, j)
       IN  <<Byte - 2 ^ (ByteBits - i) + n \div Byte ^ i>> \o Digits(n, i)

StringBytes(t) == LengthCode(Len(t) + StString) \o t
NumberBytes(n) == <<StString + Width(n)>> \o Digits(n, Width(n))

Crc(s) == Digits(FoldRight(LAMBDA b, x : (3 * x + b) % Byte ^ 4, s, 1), 4)

-----------------------------------------------------------------------------
(* A Writer: the memory up to ptr, where the current element begins in it, and
   the depth of arrays.  In front of an element there is room for its header. *)
HeaderLength == WordBytes + 2
Hole == [k \in 1 .. HeaderLength |-> 0]
WriterNew == [bytes |-> Hole, begin |-> HeaderLength, depth |-> 0]

Put(W, s)        == [W EXCEPT !.bytes = @ \o s]
WriteArray(W)    == [Put(W, <<ST_ARRAY_BEGIN>>) EXCEPT !.depth = @ + 1]
WriteArrayEnd(W) == [Put(W, <<ST_ARRAY_END>>) EXCEPT !.depth = @ - 1]

WriterFinish(W, checksum) ==
  LET body   == SubSeq(W.bytes, W.begin + 1, Len(W.bytes))
      tail   == (IF checksum THEN <<ST_CRC>> \o Crc(body) ELSE <<>>) \o <<ST_DOT>>
      header == <<ST_LEN_BEGIN>> \o Digits(Len(body \o tail), WordBytes) \o <<ST_LEN_END>>
      bytes  == SubSeq(W.bytes, 1, W.begin - HeaderLength) \o header \o body \o tail \o Hole
  IN  [W EXCEPT !.bytes = bytes, !.begin = Len(bytes)]

WriterDiscard(W) == [W EXCEPT !.bytes = Hole, !.begin = HeaderLength]

(* writer_ptr and writer_length, between two elements *)
WriterData(W) == SubSeq(W.bytes, 1, Len(W.bytes) - HeaderLength)

DirectWrite(W, s) == [W EXCEPT !.bytes = WriterData(W) \o s \o Hole,
                               !.begin = @ + Len(s)]

-----------------------------------------------------------------------------
VARIABLES
  phase,     (* "write", "read", or how the reading has ended               *)
  job,       (* the Writer of the element in the making                     *)
  buf,       (* the Writer W of the service thread                          *)
  dataFile,  (* the bytes of the file                                       *)
  stream,    (* history: all elements that have been handed over            *)
  marks,     (* history: where elements end in stream                       *)
  tokens,    (* history: how much has been written                          *)
  intact,    (* history: how many bytes of the file have survived           *)
  filePos,   (* bytes the FILE of the Reader has delivered                  *)
  body, ptr, (* R->begin .. R->end and R->ptr - R->begin                    *)
  indent,    (* of process_element; -1 between elements                     *)
  out,       (* the Writer of the tool                                      *)
  copy       (* what it has passed to stdio for its standard output         *)

writeVars == <<job, buf, stream, marks, tokens>>
toolVars == <<filePos, body, ptr, indent, out, copy>>
formatVars == <<phase, writeVars, dataFile, intact, toolVars>>

FormatInit ==
  /\ phase = "write"
  /\ job = WriterNew /\ buf = WriterNew
  /\ dataFile = <<>> /\ stream = <<>>
  /\ marks = {0} /\ tokens = 0 /\ intact = 0
  /\ filePos = 0 /\ body = <<>> /\ ptr = 0 /\ indent = -1
  /\ out = WriterNew /\ copy = <<>>

(* An element is one string or one array. *)
Started == Len(job.bytes) > job.begin
Whole   == Started /\ job.depth = 0

WriteToken ==
  /\ phase = "write" /\ ~Whole
  /\ tokens < MaxTokens /\ Cardinality(marks) <= MaxElements
  /\ tokens' = tokens + 1
  /\ \/ job' = WriteArray(job)
     \/ job.depth > 0 /\ job' = WriteArrayEnd(job)
     \/ \E t \in Texts   : job' = Put(job, StringBytes(t))
     \/ \E n \in Numbers : job' = Put(job, NumberBytes(n))
  /\ UNCHANGED <<phase, buf, dataFile, stream, marks, intact, toolVars>>

(* Mutant: a long job overtakes what is in the buffer. *)
BufferedWriteOvertakes(s) ==
  IF Len(WriterData(buf)) + Len(s) <= WriteBuffer
  THEN buf' = DirectWrite(buf, s) /\ UNCHANGED dataFile
  ELSE IF 2 * Len(s) > WriteBuffer
       THEN dataFile' = dataFile \o s /\ UNCHANGED buf
       ELSE /\ dataFile' = dataFile \o WriterData(buf)
            /\ buf' = DirectWrite(WriterDiscard(buf), s)

(* buffered_write *)
BufferedWrite(s) ==
  IF Len(WriterData(buf)) + Len(s) <= WriteBuffer
  THEN buf' = DirectWrite(buf, s) /\ UNCHANGED dataFile
  ELSE IF 2 * Len(s) > WriteBuffer
       THEN /\ dataFile' = dataFile \o WriterData(buf) \o s
            /\ buf' = WriterDiscard(buf)
       ELSE /\ dataFile' = dataFile \o WriterData(buf)
            /\ buf' = DirectWrite(WriterDiscard(buf), s)

(* writer_finish, and the job goes to the service thread's buffer. *)
FinishElement ==
  /\ phase = "write" /\ Whole
  /\ \E checksum \in BOOLEAN :
       LET data == WriterData(WriterFinish(job, checksum))
       IN  /\ BufferedWrite(data)
           /\ stream' = stream \o data
           /\ marks' = marks \cup {Len(stream \o data)}
  /\ job' = WriterDiscard(job)
  /\ UNCHANGED <<phase, tokens, intact, toolVars>>

BufferedSync ==
  /\ phase = "write"
  /\ WriterData(buf) # <<>>
  /\ dataFile' = dataFile \o WriterData(buf)
  /\ buf' = WriterDiscard(buf)
  /\ UNCHANGED <<phase, job, stream, marks, tokens, intact, toolVars>>

(* The file keeps its first n bytes; the others are gone, or are zeros. *)
PowerLost ==
  /\ phase = "write" /\ ~Started
  /\ \E n \in 0 .. Len(dataFile) :
       /\ intact' = n
       /\ dataFile' \in {SubSeq(dataFile, 1, n),
                     [k \in DOMAIN dataFile |-> IF k <= n THEN dataFile[k] ELSE 0]}
  /\ phase' = "read"
  /\ UNCHANGED <<writeVars, toolVars>>

-----------------------------------------------------------------------------
(* reader_begin; file_reader_read gives the end of the file only if not even
   one byte is left. *)
LeftInFile == Len(dataFile) - filePos
BodyLength == FromDigits(SubSeq(dataFile, filePos + 2, filePos + 1 + WordBytes))
HeaderRead == /\ LeftInFile >= HeaderLength
              /\ dataFile[filePos + 1] = ST_LEN_BEGIN
              /\ dataFile[filePos + HeaderLength] = ST_LEN_END
ElementRead == HeaderRead /\ LeftInFile >= HeaderLength + BodyLength

ReaderBegin ==
  /\ phase = "read" /\ indent = -1
  /\ ElementRead
  /\ body' = SubSeq(dataFile, filePos + HeaderLength + 1, filePos + HeaderLength + BodyLength)
  /\ filePos' = filePos + HeaderLength + BodyLength
  /\ ptr' = 0
  /\ indent' = 0
  /\ UNCHANGED <<phase, writeVars, dataFile, intact, out, copy>>

ReaderBeginFails ==
  /\ phase = "read" /\ indent = -1
  /\ ~ElementRead
  /\ phase' = IF LeftInFile = 0 THEN "end of file" ELSE "failed"
  /\ UNCHANGED <<writeVars, dataFile, intact, toolVars>>

(* read_string: the length and where the text begins.  A length below ST_STRING
   wraps around. *)
Left  == Len(body) - ptr
First == body[ptr + 1]
Ones  == CHOOSE l \in 1 .. ByteBits :
           /\ First >= Byte - 2 ^ (ByteBits - l)
           /\ l < ByteBits => First < Byte - 2 ^ (ByteBits - l - 1)
More  == IF First < Byte \div 2 THEN 0
         ELSE IF First = Byte - 1 THEN WordBytes ELSE Ones
ReadLength ==
  LET low == FromDigits(SubSeq(body, ptr + 2, ptr + 1 + More))
  IN  CASE More = 0 -> First
        [] First = Byte - 1 -> low
        [] OTHER -> (First % 2 ^ (ByteBits - Ones)) * Byte ^ More + low

TextFrom   == ptr + 1 + More
StringRead == /\ Left > More
              /\ ReadLength >= StString => TextFrom + ReadLength - StString <= Len(body)

(* rNext: what comes next, 0 at the end of the element *)
Following == IF Left = 0 THEN 0 ELSE IF First >= StString THEN StString ELSE First

(* process_element, one element of the grammar after the other *)
Token(w, n) ==
  /\ out' = w
  /\ ptr' = ptr + n

InElement == phase = "read" /\ (indent > 0 \/ (indent = 0 /\ ptr = 0))

ReadBracket ==
  /\ InElement
  /\ \/ /\ Following = ST_ARRAY_BEGIN
        /\ Token(WriteArray(out), 1)
        /\ indent' = indent + 1
     \/ /\ Following = ST_ARRAY_END /\ indent > 0
        /\ Token(WriteArrayEnd(out), 1)
        /\ indent' = indent - 1
  /\ UNCHANGED <<phase, writeVars, dataFile, intact, filePos, body, copy>>

ReadString ==
  /\ InElement
  /\ Following = StString /\ StringRead
  /\ ReadLength >= StString
  /\ LET n == ReadLength - StString
         t == SubSeq(body, TextFrom + 1, TextFrom + n)
     IN  Token(Put(out, StringBytes(t)), 1 + More + n)
  /\ UNCHANGED <<phase, indent, writeVars, dataFile, intact, filePos, body, copy>>

(* The tool copies a text of almost a whole address space and crashes.  What
   stdio has not written by then is lost: the output stops anywhere, within an
   element too. *)
ReadStringCrashes ==
  /\ InElement
  /\ Following = StString /\ StringRead
  /\ ReadLength < StString
  /\ phase' = "crashed"
  /\ \E n \in 0 .. Len(copy) : copy' = SubSeq(copy, 1, n)
  /\ UNCHANGED <<writeVars, dataFile, intact, filePos, body, ptr, indent, out>>

(* rNext or read_string fails. *)
ReadElementFails ==
  /\ InElement
  /\ Following \notin {ST_ARRAY_BEGIN, ST_ARRAY_END}
  /\ ~(Following = StString /\ StringRead)
  /\ phase' = "failed"
  /\ UNCHANGED <<writeVars, dataFile, intact, toolVars>>

(* reader_finish *)
Finishes(checksum) ==
  IF checksum
  THEN /\ Left = 6
       /\ body[Len(body)] = ST_DOT
       /\ SubSeq(body, ptr + 2, ptr + 5) = Crc(SubSeq(body, 1, ptr))
  ELSE Left = 1

AtEnd == phase = "read" /\ indent = 0 /\ ptr > 0

(* fwrite to stdout; main returns in every case but the crash, and exit writes
   what is still buffered. *)
RescueElement ==
  /\ AtEnd
  /\ Following \in {ST_DOT, ST_CRC}
  /\ LET checksum == Following = ST_CRC
     IN  /\ Finishes(checksum)
         /\ copy' = copy \o WriterData(WriterFinish(out, checksum))
  /\ out' = WriterDiscard(out)
  /\ indent' = -1
  /\ UNCHANGED <<phase, writeVars, dataFile, intact, filePos, body, ptr>>

RescueFails ==
  /\ AtEnd
  /\ ~(Following \in {ST_DOT, ST_CRC} /\ Finishes(Following = ST_CRC))
  /\ phase' = "failed"
  /\ UNCHANGED <<writeVars, dataFile, intact, toolVars>>

FormatNext ==
  \/ WriteToken \/ FinishElement \/ BufferedSync \/ PowerLost
  \/ ReaderBegin \/ ReaderBeginFails \/ ReadBracket
  \/ ReadString \/ ReadStringCrashes \/ ReadElementFails
  \/ RescueElement \/ RescueFails

FormatSpec == FormatInit /\ [][FormatNext]_formatVars

-----------------------------------------------------------------------------
(* Whatever a crash leaves of the file, the tool copies the elements that were
   written completely, byte for byte in the order of the jobs, and no other;
   and it takes the file for complete only if it ends between two elements.
   When the tool itself crashes, its output is a first part of that. *)
WholeElements == CHOOSE m \in marks : m <= intact /\ \A k \in marks : k <= intact => k <= m

RescuedIsWhole ==
  LET whole == SubSeq(stream, 1, WholeElements)
  IN  /\ phase \in {"end of file", "failed"} => copy = whole
      /\ phase = "crashed" => IsPrefix(copy, whole)
      /\ phase \in {"end of file", "failed", "crashed"} =>
           (phase = "end of file" <=> Len(dataFile) = WholeElements)
=============================================================================
