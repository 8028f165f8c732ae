----------------------------- MODULE Container ------------------------------
(***************************************************************************)
(* The class MpoContainer over a stream: blobs are written one after the   *)
(* other behind a header, a table of contents follows them when the        *)
(* container is closed, and another object reads the file. Its methods may *)
(* be called in any order; out of turn they fail.                          *)
(*                                                                         *)
(* A cell of the file is a field of a header (whatever its number of       *)
(* bytes), an entry of the table or a byte of data: <<kind, value>>. The   *)
(* constants of the code in bytes are constants here in cells. MD5 is the  *)
(* identity under a tag: different inputs have different digests. A field  *)
(* that fits only in part, which the code takes for written, is left out.  *)
(***************************************************************************)
EXTENDS MemStream, FiniteSetsExt

CONSTANTS
  Ids,       \* blob ids
  Bytes,     \* values of a byte of data
  Pieces,    \* the buffers given to WriteToBlob
  ReadSizes, \* the bytes asked of ReadFromBlob
  MaxBlobs,  \* bound: blobs of one container
  MaxBytes,  \* bound: bytes of one blob
  MaxTimes,  \* bound: how often the stream is written as a container
  Habits     \* "reuse": writes after Close; "damage": data changes in the file

ASSUME ContainerAssumption ==
  /\ Pieces \subseteq Seq(Bytes) /\ ReadSizes \subseteq Nat
  /\ MaxBlobs \in Nat /\ MaxBytes \in Nat /\ MaxTimes \in Nat /\ Ids \subseteq Nat
  /\ Habits \subseteq {"reuse", "damage"}

VARIABLES
  stream,       \* m_pStream
  readHeader,   \* m_bReadHeader
  wroteHeader,  \* m_bWroteHeader
  needsUpdate,  \* m_bHeaderNeedsUpdate
  writing,      \* m_bWriteBlobStarted
  bytesWritten, \* m_u64CurBytesWritten
  startOffset,  \* m_u64CurBlobStartOffset
  blobSize,     \* m_u64BlobSizeBytes
  blobMD5,      \* m_arrBlobMD5
  bytesRead,    \* m_u64CurBytesRead
  reading,      \* m_bReadBlobStarted
  totalBlobs,   \* m_Header.u64TotalBlobs
  totalMD5,     \* m_Header.TotalMD5
  hashed,       \* what m_md5CurBlob was fed
  toc,          \* m_vTOC
  curBlob,      \* m_u64CurBlobIdx
  maxBlob,      \* m_u64MaxBlobSizeBytes
  ignore,       \* m_bIgnoreReadIntegrity
  written,      \* history: the finished blobs, as the caller knows them
  open,         \* history: the blob being written, none or one
  gotId,        \* history: the id StartReadBlob returned
  delivered,    \* history: what ReadFromBlob returned since
  verdict,      \* history: what the last EndReadBlob that ended a blob said
  atClose,      \* history: the file when it was closed, empty before
  damaged,      \* history: data was changed in the file
  verified,     \* history: what VerifyContainer said, and whether it was so
  times         \* history: how often WriteHeader was called

headerVars == <<readHeader, wroteHeader, needsUpdate, totalBlobs, totalMD5, toc,
                maxBlob, ignore>>
writeVars == <<writing, bytesWritten>>
readVars  == <<reading, blobSize, blobMD5, bytesRead>>
store     == <<written, open, damaged, atClose, times>>
seen      == <<gotId, delivered, verdict>>
vars == <<stream, headerVars, writeVars, readVars, startOffset, hashed, curBlob,
          store, seen, verified>>

Num(n)      == <<"num", n>>
Byte(b)     == <<"byte", b>>
Digest(cs)  == <<"md5", cs>>
Junk        == <<"junk", 0>>       \* a placeholder, from the stack
Version     == <<"version", 0>>
Data(bytes) == [i \in DOMAIN bytes |-> Byte(bytes[i])]

HeaderCells == 4   \* version, MD5, number of blobs, offset of the table
BlobHeader  == 4   \* size, MD5, reserved, id: 32 bytes
Covered     == 2   \* where the MD5 of the container begins: 20 bytes

At(s, pos) == AfterSeek(s, pos, "SET")

Init ==
  /\ stream = EmptyStream
  /\ readHeader = FALSE /\ wroteHeader = FALSE /\ needsUpdate = FALSE
  /\ totalBlobs = 0 /\ totalMD5 = Junk /\ toc = <<>> /\ maxBlob = 0
  /\ ignore \in BOOLEAN
  /\ writing = FALSE /\ bytesWritten = 0
  /\ reading = FALSE /\ blobSize = 0 /\ blobMD5 = Num(0) /\ bytesRead = 0
  /\ startOffset = 0 /\ hashed = <<>> /\ curBlob = 0
  /\ written = <<>> /\ open = <<>> /\ damaged = FALSE /\ atClose = <<>>
  /\ gotId = 0 /\ delivered = <<>> /\ verdict = "none" /\ verified = <<>>
  /\ times = 0

-----------------------------------------------------------------------------
(* Writing *)

WriteHeader ==
  /\ ~wroteHeader /\ ~readHeader
  /\ times < MaxTimes /\ times' = times + 1
  /\ LET new == <<Version, Junk, Junk, Junk>>
     IN /\ stream' = AfterWrite(At(stream, 0), new)
        /\ wroteHeader' = Wrote(At(stream, 0), new)
        /\ needsUpdate' = wroteHeader'
  /\ written' = <<>> /\ open' = <<>> /\ damaged' = FALSE /\ atClose' = <<>>
  /\ UNCHANGED <<readHeader, totalBlobs, totalMD5, toc, maxBlob, ignore, writeVars,
                 readVars, startOffset, hashed, curBlob, seen, verified>>

(* m_bWroteHeader stays true after Close: only a caller that knows better    *)
(* does not write then.                                                      *)
StartWriteBlob(id) ==
  /\ wroteHeader /\ ~writing
  /\ needsUpdate \/ "reuse" \in Habits
  /\ Len(written) < MaxBlobs
  /\ startOffset' = stream.pos
  /\ LET new == <<Junk, Junk, Num(0), Num(id)>>
     IN /\ stream' = AfterWrite(stream, new)
        /\ IF Wrote(stream, new)
           THEN /\ writing' = TRUE /\ bytesWritten' = 0 /\ hashed' = <<>>
                /\ open' = <<[id |-> id, data |-> <<>>]>>
           ELSE UNCHANGED <<writing, bytesWritten, hashed, open>>
  /\ UNCHANGED <<headerVars, readVars, curBlob, written, damaged, atClose, times, seen,
                 verified>>

(* mutant: the bytes of a blob are hashed only when it is started *)
NotHashed(bytes) == hashed

Hashed(bytes) == hashed \o Data(bytes)

(* The caller is told how much was written, but all of it is hashed. *)
WriteToBlob(bytes) ==
  /\ writing /\ bytesWritten + Len(bytes) <= MaxBytes
  /\ LET k == Fits(stream, Len(bytes))
     IN /\ bytesWritten' = bytesWritten + k
        /\ open' = <<[id |-> open[1].id,
                      data |-> open[1].data \o SubSeq(bytes, 1, k)]>>
  /\ stream' = AfterWrite(stream, Data(bytes))
  /\ hashed' = Hashed(bytes)
  /\ UNCHANGED <<headerVars, writing, readVars, startOffset, curBlob, written,
                 damaged, atClose, times, seen, verified>>

(* EndWriteBlob fills in size and digest, and goes back to the end of the    *)
(* data. They overwrite cells that were written, so nothing can fail.        *)
EndedStream ==
  AfterSeek(AfterWrite(At(stream, startOffset),
                       <<Num(bytesWritten), Digest(hashed)>>),
            bytesWritten + (BlobHeader - 2), "CUR")

Entry(offset) == offset

EndWriteBlob ==
  /\ writing /\ writing' = FALSE
  /\ stream' = EndedStream
  /\ totalBlobs' = totalBlobs + 1 /\ curBlob' = curBlob + 1
  /\ toc' = Append(toc, Entry(startOffset))
  /\ written' = written \o open /\ open' = <<>>
  /\ UNCHANGED <<readHeader, wroteHeader, needsUpdate, totalMD5, maxBlob, ignore,
                 bytesWritten, readVars, startOffset, hashed, damaged, atClose,
                 times, seen, verified>>

(* Close ends the blob that is open; then it writes the table, number and    *)
(* offset in the header, and the digest of what is covered.                  *)
Blobs == totalBlobs + (IF writing THEN 1 ELSE 0)
Table == IF writing THEN Append(toc, Entry(startOffset)) ELSE toc
EndOfBlobs == IF writing THEN EndedStream ELSE stream
WithTable == AfterWrite(EndOfBlobs, [i \in DOMAIN Table |-> Num(Table[i])])
WithHeader == AfterWrite(At(WithTable, Covered), <<Num(Blobs), Num(EndOfBlobs.pos)>>)

(* mutant: the container is hashed before its header is filled in *)
HashedEarly == Digest(SubSeq(WithTable.cells, Covered + 1, Len(WithTable.cells)))

SumAtClose == Digest(SubSeq(WithHeader.cells, Covered + 1, Len(WithHeader.cells)))

ClosedStream ==
  IF needsUpdate THEN AfterWrite(At(WithHeader, 1), <<SumAtClose>>) ELSE EndOfBlobs

FileIsClosed ==
  /\ stream' = ClosedStream
  /\ written' = written \o open /\ open' = <<>>
  /\ atClose' = IF needsUpdate THEN stream'.cells ELSE atClose

Close ==
  /\ FileIsClosed
  /\ writing' = FALSE /\ needsUpdate' = FALSE
  /\ totalBlobs' = Blobs /\ toc' = Table
  /\ curBlob' = IF writing THEN curBlob + 1 ELSE curBlob
  /\ totalMD5' = IF needsUpdate THEN SumAtClose ELSE totalMD5
  /\ UNCHANGED <<readHeader, wroteHeader, maxBlob, ignore, bytesWritten, readVars,
                 startOffset, hashed, damaged, times, seen, verified>>

(* A new object is made for the stream, and the old one goes away, which     *)
(* closes it, before the new one is used.                                    *)
CreateInstance ==
  /\ FileIsClosed
  /\ ignore' \in BOOLEAN
  /\ readHeader' = FALSE /\ wroteHeader' = FALSE /\ needsUpdate' = FALSE
  /\ totalBlobs' = 0 /\ totalMD5' = Junk /\ toc' = <<>> /\ maxBlob' = 0
  /\ writing' = FALSE /\ bytesWritten' = 0
  /\ reading' = FALSE /\ blobSize' = 0 /\ blobMD5' = Num(0) /\ bytesRead' = 0
  /\ startOffset' = 0 /\ hashed' = <<>> /\ curBlob' = 0
  /\ verified' = <<>> /\ gotId' = 0 /\ delivered' = <<>> /\ verdict' = "none"
  /\ UNCHANGED <<damaged, times>>

-----------------------------------------------------------------------------
(* Reading *)

(* An entry that cannot be read keeps what was in the buffer: the one before *)
(* it, or the offset of the table.                                           *)
EntryRead(offset, i) ==
  LET have == Len(stream.cells) - offset
      j    == Fewer(i, have)
  IN IF j > 0 THEN stream.cells[offset + j][2] ELSE offset

(* mutant: the last blob is left out *)
SizesButLast(list, end) == {list[i + 1] - list[i] - BlobHeader : i \in 1..(Len(list) - 1)}

SizesOf(list, end) ==
  {list[i + 1] - list[i] - BlobHeader : i \in 1..(Len(list) - 1)}
    \cup {end - list[i] - BlobHeader : i \in {Len(list)} \ {0}}

ReadHeader ==
  /\ ~wroteHeader /\ ~readHeader
  /\ LET head == ReadFrom(At(stream, 0), HeaderCells)
     IN IF Len(head) = HeaderCells /\ head[1] = Version
        THEN LET offset == head[4][2]
                 list   == [i \in 1..head[3][2] |-> EntryRead(offset, i)]
             IN /\ readHeader' = TRUE
                /\ totalMD5' = head[2] /\ totalBlobs' = head[3][2]
                /\ toc' = list
                /\ maxBlob' = Max({maxBlob} \cup SizesOf(list, offset))
                /\ stream' = At(stream, HeaderCells)
        ELSE /\ stream' = AfterRead(At(stream, 0), HeaderCells)
             /\ UNCHANGED <<readHeader, totalMD5, totalBlobs, toc, maxBlob>>
  /\ UNCHANGED <<wroteHeader, needsUpdate, ignore, writeVars, readVars, startOffset,
                 hashed, curBlob, store, seen, verified>>

JumpToBlob(i) ==
  /\ readHeader /\ ~reading /\ i < totalBlobs
  /\ stream' = At(stream, toc[i + 1]) /\ curBlob' = i
  /\ verified' = <<>>
  /\ UNCHANGED <<headerVars, writeVars, readVars, startOffset, hashed, store, seen>>

StartReadBlob ==
  /\ readHeader /\ ~reading /\ curBlob < totalBlobs
  /\ startOffset' = stream.pos
  /\ LET head == ReadFrom(stream, BlobHeader)
     IN IF Len(head) = BlobHeader /\ head[3] = Num(0)
        THEN /\ reading' = TRUE /\ bytesRead' = 0
             /\ blobSize' = head[1][2] /\ blobMD5' = head[2] /\ gotId' = head[4][2]
             /\ hashed' = IF ignore THEN hashed ELSE <<>>
             /\ stream' = AfterRead(stream, BlobHeader)
             /\ delivered' = <<>> /\ verdict' = "none"
        ELSE /\ stream' = AfterRead(stream, BlobHeader - 1)
             /\ UNCHANGED <<readVars, seen, hashed>>
  /\ UNCHANGED <<headerVars, writeVars, curBlob, store, verified>>

UpToEnd(n) == IF n + bytesRead > blobSize THEN blobSize - bytesRead ELSE n

ReadFromBlob(n) ==
  /\ reading
  /\ LET data == ReadFrom(stream, UpToEnd(n))
     IN /\ bytesRead' = bytesRead + Len(data)
        /\ delivered' = delivered \o [i \in DOMAIN data |-> data[i][2]]
        /\ hashed' = IF ignore THEN hashed ELSE hashed \o data
  /\ stream' = AfterRead(stream, UpToEnd(n))
  /\ UNCHANGED <<headerVars, writeVars, reading, blobSize, blobMD5, startOffset,
                 curBlob, store, gotId, verdict, verified>>

EndReadBlob ==
  /\ reading /\ bytesRead = blobSize
  /\ reading' = FALSE /\ curBlob' = curBlob + 1
  /\ verdict' = IF ignore \/ Digest(hashed) = blobMD5 THEN "good" ELSE "bad"
  /\ UNCHANGED <<stream, headerVars, writeVars, blobSize, blobMD5, bytesRead,
                 startOffset, hashed, store, gotId, delivered, verified>>

(* VerifyContainer reads to the end of the file, and leaves the stream there. *)
VerifyContainer ==
  /\ readHeader /\ curBlob = 0 /\ ~reading
  /\ LET end == Len(stream.cells)
         sum == Digest(SubSeq(stream.cells, Covered + 1, end))
     IN /\ stream' = AfterSeek(stream, 0, "END")
        /\ verified' = <<sum = totalMD5, stream.cells = atClose>>
  /\ UNCHANGED <<headerVars, writeVars, readVars, startOffset, hashed, curBlob,
                 store, seen>>

(* A byte of data changes in the file. *)
Damage ==
  /\ "damage" \in Habits /\ ~damaged /\ damaged' = TRUE
  /\ \E i \in DOMAIN stream.cells : \E b \in Bytes :
       /\ stream.cells[i][1] = "byte" /\ stream.cells[i] # Byte(b)
       /\ stream' = [stream EXCEPT !.cells[i] = Byte(b)]
  /\ UNCHANGED <<headerVars, writeVars, readVars, startOffset, hashed, curBlob,
                 written, open, atClose, times, seen, verified>>

-----------------------------------------------------------------------------
Writer ==
  \/ WriteHeader \/ EndWriteBlob \/ Close \/ CreateInstance
  \/ \E id \in Ids : StartWriteBlob(id)
  \/ \E bytes \in Pieces : WriteToBlob(bytes)
Reader ==
  \/ ReadHeader \/ StartReadBlob \/ EndReadBlob \/ VerifyContainer
  \/ \E i \in 0..(MaxBlobs - 1) : JumpToBlob(i)
  \/ \E n \in ReadSizes : ReadFromBlob(n)
Next == Writer \/ Reader \/ Damage

Spec == Init /\ [][Next]_vars

-----------------------------------------------------------------------------
(* Properties *)

(* The members keep their types, and what an object has counted of a blob    *)
(* lies within that blob.                                                    *)
TypeOK ==
  /\ stream.pos \in 0..Len(stream.cells)
  /\ {readHeader, wroteHeader, needsUpdate, writing, reading, ignore, damaged}
       \subseteq BOOLEAN
  /\ ~(readHeader /\ wroteHeader)
  /\ bytesWritten \in 0..MaxBytes /\ totalBlobs \in 0..MaxBlobs
  /\ blobSize \in 0..MaxBytes /\ bytesRead \in 0..blobSize
  /\ curBlob \in 0..totalBlobs /\ Len(toc) = totalBlobs
  /\ written \in Seq([id : Ids, data : Seq(Bytes)])
  /\ Len(open) = IF writing THEN 1 ELSE 0

(* What the container promises, see BlobStore: what is read is what was      *)
(* written, in the order asked for and with the ids given, and a blob whose  *)
(* data changed in the file does not end well unless the caller did not want *)
(* it checked.                                                               *)
Store ==
  INSTANCE BlobStore WITH
    phase <- IF needsUpdate THEN "writing"
             ELSE IF atClose = <<>> THEN "empty" ELSE "closed",
    blobs <- written,
    trusting <- ignore,
    reading <- IF reading THEN curBlob + 1 ELSE 0,
    id <- gotId,
    got <- delivered
Implements == Store!Spec

(* VerifyContainer returns true exactly if nothing has changed in the file   *)
(* since Close, whatever was in the stream before the container was written. *)
VerifyExact == verified = <<>> \/ verified[1] = verified[2]

(* Once ReadHeader has succeeded the object knows the container: how many    *)
(* blobs, the size of the largest, where each begins; and whenever it is     *)
(* between two blobs the stream is where the next one begins. VerifyContainer *)
(* moves the stream away, until the next JumpToBlob.                         *)
KnowsTheFile ==
  readHeader =>
    /\ totalBlobs = Len(written)
    /\ maxBlob = Max({0} \cup {Len(written[i].data) : i \in DOMAIN written})
    /\ \A i \in DOMAIN written :
         toc[i] + BlobHeader + Len(written[i].data)
           = IF i < totalBlobs THEN toc[i + 1] ELSE stream.cells[HeaderCells][2]
    /\ ~reading /\ curBlob < totalBlobs /\ verified = <<>>
         => stream.pos = toc[curBlob + 1]

(* Without that exception: after VerifyContainer the first blob can be read  *)
(* with StartReadBlob as after ReadHeader (mpo_container.h:52, "Can only be  *)
(* done when reading from the container, right after reading the header").   *)
InPlaceAfterVerify ==
  readHeader /\ ~reading /\ curBlob < totalBlobs => stream.pos = toc[curBlob + 1]

(* Close returns true and the header says that the container is complete:    *)
(* nothing that the object does changes the file after that.                 *)
ClosedIsFinal == atClose # <<>> /\ ~damaged => stream.cells = atClose
=============================================================================
