--------------------------- MODULE ContainerProofs ---------------------------
(***************************************************************************)
(* Proofs about Container, for any blobs, pieces and reads.                *)
(***************************************************************************)
EXTENDS Container, SequenceTheorems, TLAPS

USE DEF HeaderCells, BlobHeader, Covered

-----------------------------------------------------------------------------
(* Streams *)

IsText(q) == \E S : q \in Seq(S)

LEMMA TextMeans ==
  ASSUME NEW q, IsText(q)
  PROVE  Len(q) \in Nat /\ DOMAIN q = 1 .. Len(q)
<1>1. PICK S : q \in Seq(S)
  BY DEF IsText
<1> QED BY <1>1

LEMMA SameText ==
  ASSUME NEW q, NEW r, IsText(q), IsText(r), Len(q) = Len(r),
         \A i \in 1 .. Len(q) : q[i] = r[i]
  PROVE  q = r
<1>1. PICK S, T : q \in Seq(S) /\ r \in Seq(T)
  BY DEF IsText
<1>2. q \in Seq(S \cup T) /\ r \in Seq(S \cup T)
  BY <1>1, SeqMonotonic
<1> QED BY <1>2, SeqEqual

LEMMA PartText ==
  ASSUME NEW q, IsText(q), NEW m \in Int, NEW n \in Int, 1 <= m, n <= Len(q)
  PROVE  /\ IsText(SubSeq(q, m, n))
         /\ Len(SubSeq(q, m, n)) = IF m <= n THEN n - m + 1 ELSE 0
         /\ \A i \in 1 .. n - m + 1 : SubSeq(q, m, n)[i] = q[m + i - 1]
<1>1. PICK S : q \in Seq(S)
  BY DEF IsText
<1>2. Len(q) \in Nat
  BY <1>1
<1>3. \A i \in m .. n : q[i] \in S
  BY <1>1, <1>2
<1> QED BY <1>3, SubSeqProperties DEF IsText

LEMMA JoinedText ==
  ASSUME NEW q, NEW r, IsText(q), IsText(r)
  PROVE  /\ IsText(q \o r)
         /\ Len(q \o r) = Len(q) + Len(r)
         /\ \A i \in 1 .. Len(q) + Len(r) :
              (q \o r)[i] = IF i <= Len(q) THEN q[i] ELSE r[i - Len(q)]
<1>1. PICK S, T : q \in Seq(S) /\ r \in Seq(T)
  BY DEF IsText
<1>2. q \in Seq(S \cup T) /\ r \in Seq(S \cup T)
  BY <1>1, SeqMonotonic
<1> QED BY <1>2, ConcatProperties DEF IsText

IsStream(s) == /\ s = [cells |-> s.cells, pos |-> s.pos]
               /\ IsText(s.cells) /\ s.pos \in Nat

(* What covers k cells of new after pos cells, and what stays.               *)
Covers(s, new, k, r) ==
  /\ IsStream(r) /\ r.pos = s.pos + k
  /\ Len(r.cells) = IF r.pos > Len(s.cells) THEN r.pos ELSE Len(s.cells)
  /\ \A i \in 1 .. Len(r.cells) :
       r.cells[i] = IF s.pos < i /\ i <= s.pos + k THEN new[i - s.pos] ELSE s.cells[i]

LEMMA WriteMeans ==
  ASSUME NEW s, IsStream(s), s.pos <= Len(s.cells), NEW new, IsText(new)
  PROVE  /\ Fits(s, Len(new)) \in 0 .. Len(new)
         /\ Covers(s, new, Fits(s, Len(new)), AfterWrite(s, new))
<1> DEFINE k == Fits(s, Len(new))
           before == SubSeq(s.cells, 1, Fewer(s.pos, Len(s.cells)))
           gap == [i \in 1 .. MoreThanNone(s.pos - Len(s.cells)) |-> Padding]
           part == SubSeq(new, 1, k)
           after == SubSeq(s.cells, s.pos + k + 1, Len(s.cells))
           r == AfterWrite(s, new)
<1>1. /\ Len(s.cells) \in Nat /\ s.pos \in 0 .. Len(s.cells) /\ Len(new) \in Nat
      /\ Capacity \in Nat
  BY TextMeans, StreamAssumption DEF IsStream
<1>2. k \in 0 .. Len(new)
  BY <1>1 DEF Fits, Fewer, MoreThanNone
<1> HIDE DEF k
<1>3. /\ IsText(before) /\ Len(before) = s.pos
      /\ \A i \in 1 .. s.pos : before[i] = s.cells[i]
  <2>1. before = SubSeq(s.cells, 1, s.pos)
    BY <1>1 DEF Fewer
  <2> HIDE DEF before
  <2>2. /\ IsText(SubSeq(s.cells, 1, s.pos))
        /\ Len(SubSeq(s.cells, 1, s.pos)) = IF 1 <= s.pos THEN s.pos - 1 + 1 ELSE 0
        /\ \A i \in 1 .. s.pos - 1 + 1 : SubSeq(s.cells, 1, s.pos)[i] = s.cells[1 + i - 1]
    BY <1>1, PartText DEF IsStream
  <2> QED BY <1>1, <2>1, <2>2
<1>4. gap = <<>>
  BY <1>1 DEF MoreThanNone
<1>5. /\ IsText(part) /\ Len(part) = k
      /\ \A i \in 1 .. k : part[i] = new[i]
  <2>2. /\ IsText(SubSeq(new, 1, k))
        /\ Len(SubSeq(new, 1, k)) = IF 1 <= k THEN k - 1 + 1 ELSE 0
        /\ \A i \in 1 .. k - 1 + 1 : SubSeq(new, 1, k)[i] = new[1 + i - 1]
    BY <1>1, <1>2, PartText
  <2> QED BY <1>2, <2>2
<1>6. /\ IsText(after)
      /\ Len(after) = IF s.pos + k > Len(s.cells) THEN 0 ELSE Len(s.cells) - (s.pos + k)
      /\ \A i \in 1 .. Len(s.cells) - (s.pos + k) : after[i] = s.cells[s.pos + k + i]
  <2>1. /\ s.pos + k + 1 \in Int /\ 1 <= s.pos + k + 1
    BY <1>1, <1>2
  <2>2. /\ IsText(after)
        /\ Len(after) = IF s.pos + k + 1 <= Len(s.cells)
                        THEN Len(s.cells) - (s.pos + k + 1) + 1 ELSE 0
        /\ \A i \in 1 .. Len(s.cells) - (s.pos + k + 1) + 1 :
             after[i] = s.cells[s.pos + k + 1 + i - 1]
    BY <1>1, <2>1, PartText DEF IsStream
  <2> HIDE DEF after
  <2>3. ASSUME NEW i \in 1 .. Len(s.cells) - (s.pos + k)
        PROVE  after[i] = s.cells[s.pos + k + i]
    <3>1. i \in 1 .. Len(s.cells) - (s.pos + k + 1) + 1
      BY <1>1, <1>2
    <3>2. s.pos + k + 1 + i - 1 = s.pos + k + i
      BY <1>1, <1>2
    <3> QED BY <2>2, <3>1, <3>2
  <2>4. s.pos + k + 1 <= Len(s.cells) => Len(s.cells) - (s.pos + k + 1) + 1 = Len(s.cells) - (s.pos + k)
    BY <1>1, <1>2
  <2> QED BY <1>1, <1>2, <2>2, <2>3, <2>4
<1> HIDE DEF before, gap, part, after
<1>7. /\ IsText(before \o gap) /\ Len(before \o gap) = s.pos
      /\ \A i \in 1 .. s.pos : (before \o gap)[i] = s.cells[i]
  <2>1. PICK S : before \in Seq(S)
    BY <1>3 DEF IsText
  <2>2. before \o gap = before
    BY <1>4, <2>1, ConcatEmptySeq
  <2> QED BY <1>3, <2>2
<1>8. /\ IsText((before \o gap) \o part) /\ Len((before \o gap) \o part) = s.pos + k
      /\ \A i \in 1 .. s.pos + k :
           ((before \o gap) \o part)[i] = IF i <= s.pos THEN s.cells[i] ELSE new[i - s.pos]
  <2> DEFINE a == before \o gap
  <2>1. IsText(a) /\ Len(a) = s.pos /\ \A i \in 1 .. s.pos : a[i] = s.cells[i]
    BY <1>7
  <2> HIDE DEF a
  <2>2. /\ IsText(a \o part) /\ Len(a \o part) = s.pos + k
        /\ \A i \in 1 .. s.pos + k :
             (a \o part)[i] = IF i <= s.pos THEN a[i] ELSE part[i - s.pos]
    BY <1>5, <2>1, JoinedText
  <2>3. ASSUME NEW i \in 1 .. s.pos + k
        PROVE  (a \o part)[i] = IF i <= s.pos THEN s.cells[i] ELSE new[i - s.pos]
    <3>1. i > s.pos => i - s.pos \in 1 .. k
      BY <1>1, <1>2
    <3>2. i <= s.pos => i \in 1 .. s.pos
      OBVIOUS
    <3> QED BY <1>1, <1>2, <1>5, <2>1, <2>2, <3>1, <3>2
  <2> QED BY <2>2, <2>3 DEF a
<1> DEFINE first == (before \o gap) \o part
<1>9. r = [cells |-> first \o after, pos |-> s.pos + k]
  BY DEF AfterWrite, before, gap, part, after, k
<1> HIDE DEF first
<1>10. IsText(first) /\ Len(first) = s.pos + k
  BY <1>8 DEF first
<1>11. /\ IsText(first \o after)
       /\ Len(first \o after)
            = IF s.pos + k > Len(s.cells) THEN s.pos + k ELSE Len(s.cells)
       /\ \A i \in 1 .. Len(first \o after) :
            (first \o after)[i] = IF i <= s.pos + k THEN first[i] ELSE after[i - (s.pos + k)]
  <2>1. /\ IsText(first \o after) /\ Len(first \o after) = Len(first) + Len(after)
        /\ \A i \in 1 .. Len(first) + Len(after) :
             (first \o after)[i] = IF i <= Len(first) THEN first[i] ELSE after[i - Len(first)]
    BY <1>6, <1>10, JoinedText
  <2>2. Len(first \o after)
          = IF s.pos + k > Len(s.cells) THEN s.pos + k ELSE Len(s.cells)
    <3>1. Len(first) + Len(after)
            = IF s.pos + k > Len(s.cells) THEN s.pos + k ELSE Len(s.cells)
      BY <1>1, <1>2, <1>6, <1>10
    <3> QED BY <2>1, <3>1
  <2> QED BY <1>10, <2>1, <2>2, Zenon
<1>12. ASSUME NEW i \in 1 .. Len(first \o after)
       PROVE  (first \o after)[i]
                = IF s.pos < i /\ i <= s.pos + k THEN new[i - s.pos] ELSE s.cells[i]
  <2>1. CASE i <= s.pos + k
    <3>1. i \in 1 .. s.pos + k
      BY <2>1
    <3>2. first[i] = IF i <= s.pos THEN s.cells[i] ELSE new[i - s.pos]
      BY <1>8, <3>1 DEF first
    <3>3. (first \o after)[i] = first[i]
      BY <1>11, <2>1
    <3> QED BY <1>1, <1>2, <2>1, <3>2, <3>3
  <2>2. CASE i > s.pos + k
    <3>1. i - (s.pos + k) \in 1 .. Len(s.cells) - (s.pos + k)
      BY <1>1, <1>2, <1>11, <2>2
    <3>2. after[i - (s.pos + k)] = s.cells[s.pos + k + (i - (s.pos + k))]
      BY <1>6, <3>1
    <3>3. s.pos + k + (i - (s.pos + k)) = i /\ ~ (i <= s.pos + k)
      BY <1>1, <1>2, <2>2
    <3>4. (first \o after)[i] = after[i - (s.pos + k)]
      BY <1>11, <3>3
    <3> QED BY <3>2, <3>3, <3>4
  <2> QED BY <1>1, <1>2, <2>1, <2>2
<1>13. r.cells = first \o after /\ r.pos = s.pos + k /\ r.pos \in Nat
  BY <1>1, <1>2, <1>9
<1> QED BY <1>2, <1>9, <1>11, <1>12, <1>13 DEF Covers, IsStream, k

(* What is behind the part that the digest of the container leaves out.      *)
Behind(q) == SubSeq(q, Covered + 1, Len(q))

LEMMA BehindMeans ==
  ASSUME NEW q, IsText(q), Len(q) >= Covered
  PROVE  /\ IsText(Behind(q)) /\ Len(Behind(q)) = Len(q) - Covered
         /\ \A i \in 1 .. Len(q) - Covered : Behind(q)[i] = q[i + Covered]
<1>1. Len(q) \in Nat
  BY TextMeans
<1>2. /\ IsText(Behind(q))
      /\ Len(Behind(q)) = IF Covered + 1 <= Len(q) THEN Len(q) - (Covered + 1) + 1 ELSE 0
      /\ \A i \in 1 .. Len(q) - (Covered + 1) + 1 : Behind(q)[i] = q[Covered + 1 + i - 1]
  BY <1>1, PartText DEF Behind
<1>3. ASSUME NEW i \in 1 .. Len(q) - Covered
      PROVE  /\ i \in 1 .. Len(q) - (Covered + 1) + 1
             /\ Covered + 1 + i - 1 = i + Covered
  BY <1>1
<1>4. ASSUME NEW i \in 1 .. Len(q) - Covered PROVE Behind(q)[i] = q[i + Covered]
  <2>1. Behind(q)[i] = q[Covered + 1 + i - 1]
    BY <1>2, <1>3, Zenon
  <2> QED BY <1>3, <2>1, Zenon
<1>5. Len(Behind(q)) = Len(q) - Covered
  <2>1. PICK n \in Nat : n = Len(q)
    BY <1>1
  <2>2. Len(Behind(q)) = IF Covered + 1 <= n THEN n - (Covered + 1) + 1 ELSE 0
    BY <1>2, <2>1, Zenon
  <2>3. n >= Covered
    BY <2>1
  <2>4. (IF Covered + 1 <= n THEN n - (Covered + 1) + 1 ELSE 0) = n - Covered
    BY <2>3
  <2> QED BY <2>1, <2>2, <2>4, SMT
<1> QED BY <1>2, <1>4, <1>5

LEMMA SameBehind ==
  ASSUME NEW q, NEW r, IsText(q), IsText(r), Len(q) >= Covered, Len(r) >= Covered
  PROVE  Behind(q) = Behind(r)
           <=> /\ Len(q) = Len(r)
               /\ \A i \in Covered + 1 .. Len(q) : q[i] = r[i]
<1>1. Len(q) \in Nat /\ Len(r) \in Nat
  BY TextMeans
<1>2. /\ IsText(Behind(q)) /\ Len(Behind(q)) = Len(q) - Covered
      /\ \A i \in 1 .. Len(q) - Covered : Behind(q)[i] = q[i + Covered]
  BY BehindMeans
<1>3. /\ IsText(Behind(r)) /\ Len(Behind(r)) = Len(r) - Covered
      /\ \A i \in 1 .. Len(r) - Covered : Behind(r)[i] = r[i + Covered]
  BY BehindMeans
<1>4. ASSUME Behind(q) = Behind(r)
      PROVE  Len(q) = Len(r) /\ \A i \in Covered + 1 .. Len(q) : q[i] = r[i]
  <2>1. Len(q) = Len(r)
    BY <1>1, <1>2, <1>3, <1>4
  <2>2. ASSUME NEW i \in Covered + 1 .. Len(q) PROVE q[i] = r[i]
    <3>1. i - Covered \in 1 .. Len(q) - Covered /\ (i - Covered) + Covered = i
      BY <1>1
    <3> QED BY <1>2, <1>3, <1>4, <2>1, <3>1
  <2> QED BY <2>1, <2>2
<1>5. ASSUME Len(q) = Len(r), \A i \in Covered + 1 .. Len(q) : q[i] = r[i]
      PROVE  Behind(q) = Behind(r)
  <2>1. ASSUME NEW i \in 1 .. Len(q) - Covered PROVE Behind(q)[i] = Behind(r)[i]
    <3>1. i + Covered \in Covered + 1 .. Len(q)
      BY <1>1
    <3> QED BY <1>2, <1>3, <1>5, <3>1
  <2>2. Len(Behind(q)) = Len(q) - Covered /\ Len(Behind(r)) = Len(q) - Covered
    BY <1>2, <1>3, <1>5
  <2> QED BY <1>2, <1>3, <2>1, <2>2, SameText
<1> QED BY <1>4, <1>5

-----------------------------------------------------------------------------
(* The digest of the container                                               *)

(* What the file begins with after a Close: version and digest are never     *)
(* overwritten, not even by blobs that are written after it.                 *)
Sealed ==
  /\ IsText(atClose) /\ Len(atClose) >= HeaderCells /\ Len(stream.cells) >= HeaderCells
  /\ atClose[1] = Version /\ stream.cells[1] = Version
  /\ atClose[2] = Digest(Behind(atClose))
  /\ stream.cells[2] = atClose[2]

(* Where a writer is.                                                        *)
WriterInv ==
  /\ needsUpdate \/ writing => wroteHeader
  /\ ~ (readHeader /\ wroteHeader) /\ (reading => readHeader)
  /\ ~readHeader => IsText(toc)
  /\ wroteHeader => /\ stream.pos \in Covered .. Len(stream.cells)
                    /\ Len(stream.cells) >= HeaderCells
  /\ writing => /\ startOffset \in Nat /\ startOffset >= Covered /\ bytesWritten \in Nat
                /\ stream.pos = startOffset + BlobHeader + bytesWritten

SumInv ==
  /\ stream = [cells |-> stream.cells, pos |-> stream.pos]
  /\ IsText(stream.cells) /\ Len(stream.cells) <= Capacity
  /\ WriterInv
  /\ needsUpdate => atClose = <<>> /\ stream.cells[1] = Version
  /\ atClose # <<>> => Sealed
  /\ needsUpdate \/ atClose # <<>> \/ Len(stream.cells) < HeaderCells
  /\ readHeader => atClose # <<>> /\ totalMD5 = stream.cells[2]
  /\ VerifyExact

LEMMA AtMeans ==
  ASSUME NEW s, s = [cells |-> s.cells, pos |-> s.pos], NEW p \in Nat
  PROVE  At(s, p) = [cells |-> s.cells, pos |-> p]
BY DEF At, AfterSeek, CanReach, Origin

LEMMA PairText ==
  ASSUME NEW a, NEW b
  PROVE  /\ IsText(<<a, b>>) /\ Len(<<a, b>>) = 2
         /\ <<a, b>>[1] = a /\ <<a, b>>[2] = b
<1>1. <<a, b>> \in Seq({a, b})
  OBVIOUS
<1> QED BY <1>1 DEF IsText

(* Ending a blob fills in the two cells at its beginning.                    *)
LEMMA EndedMeans ==
  ASSUME IsStream(stream), stream.pos <= Len(stream.cells), Len(stream.cells) <= Capacity,
         startOffset \in Nat, bytesWritten \in Nat,
         stream.pos = startOffset + BlobHeader + bytesWritten
  PROVE  /\ IsStream(EndedStream) /\ EndedStream.pos = stream.pos
         /\ Len(EndedStream.cells) = Len(stream.cells)
         /\ \A i \in 1 .. Len(stream.cells) :
              EndedStream.cells[i]
                = IF i = startOffset + 1 THEN Num(bytesWritten)
                  ELSE IF i = startOffset + 2 THEN Digest(hashed)
                  ELSE stream.cells[i]
<1> DEFINE s == At(stream, startOffset)
           new == <<Num(bytesWritten), Digest(hashed)>>
           r == AfterWrite(s, new)
<1>1. s = [cells |-> stream.cells, pos |-> startOffset]
  BY AtMeans DEF IsStream
<1>2. Len(stream.cells) \in Nat /\ Capacity \in Nat /\ stream.pos \in Nat
  BY TextMeans, StreamAssumption DEF IsStream
<1>3. IsStream(s) /\ s.pos = startOffset /\ s.cells = stream.cells /\ s.pos <= Len(s.cells)
  BY <1>1, <1>2 DEF IsStream
<1>4. IsText(new) /\ Len(new) = 2 /\ new[1] = Num(bytesWritten) /\ new[2] = Digest(hashed)
  BY PairText
<1> HIDE DEF new, s
<1>5. Fits(s, Len(new)) = 2
  BY <1>2, <1>3, <1>4 DEF Fits, Fewer, MoreThanNone
<1>6. Covers(s, new, 2, r)
  BY <1>3, <1>4, <1>5, WriteMeans
<1> HIDE DEF r
<1>7. /\ IsStream(r) /\ r.pos = startOffset + 2 /\ Len(r.cells) = Len(stream.cells)
      /\ \A i \in 1 .. Len(r.cells) :
           r.cells[i] = IF startOffset < i /\ i <= startOffset + 2 THEN new[i - startOffset]
                        ELSE stream.cells[i]
  BY <1>2, <1>3, <1>6 DEF Covers
<1>8. EndedStream = AfterSeek(r, bytesWritten + 2, "CUR")
  BY DEF EndedStream, r, s, new
<1>9. EndedStream = [cells |-> r.cells, pos |-> stream.pos]
  BY <1>2, <1>7, <1>8 DEF AfterSeek, CanReach, Origin, IsStream
<1>10. ASSUME NEW i \in 1 .. Len(stream.cells)
       PROVE  r.cells[i] = IF i = startOffset + 1 THEN Num(bytesWritten)
                           ELSE IF i = startOffset + 2 THEN Digest(hashed)
                           ELSE stream.cells[i]
  <2>1. CASE i = startOffset + 1
    BY <1>4, <1>7, <2>1
  <2>2. CASE i = startOffset + 2
    BY <1>4, <1>7, <2>2
  <2>3. CASE i # startOffset + 1 /\ i # startOffset + 2
    BY <1>7, <2>3
  <2> QED BY <2>1, <2>2, <2>3
<1> QED BY <1>2, <1>7, <1>9, <1>10 DEF IsStream

LEMMA OneText ==
  ASSUME NEW a
  PROVE  IsText(<<a>>) /\ Len(<<a>>) = 1 /\ <<a>>[1] = a
<1>1. <<a>> \in Seq({a})
  OBVIOUS
<1> QED BY <1>1 DEF IsText

LEMMA AddedText ==
  ASSUME NEW q, NEW a, IsText(q)
  PROVE  /\ IsText(Append(q, a)) /\ Len(Append(q, a)) = Len(q) + 1
         /\ \A i \in 1 .. Len(q) : Append(q, a)[i] = q[i]
         /\ Append(q, a)[Len(q) + 1] = a
<1>1. PICK S : q \in Seq(S)
  BY DEF IsText
<1>2. q \in Seq(S \cup {a}) /\ a \in S \cup {a}
  BY <1>1, SeqMonotonic
<1>3. Len(q) \in Nat
  BY <1>1
<1> QED BY <1>2, <1>3, AppendProperties DEF IsText

LEMMA ListText ==
  ASSUME NEW q, IsText(q)
  PROVE  /\ IsText([i \in DOMAIN q |-> Num(q[i])])
         /\ Len([i \in DOMAIN q |-> Num(q[i])]) = Len(q)
<1>1. Len(q) \in Nat /\ DOMAIN q = 1 .. Len(q)
  BY TextMeans
<1> DEFINE S == {Num(q[i]) : i \in 1 .. Len(q)}
<1>2. [i \in 1 .. Len(q) |-> Num(q[i])] \in [1 .. Len(q) -> S]
  OBVIOUS
<1>3. [i \in DOMAIN q |-> Num(q[i])] = [i \in 1 .. Len(q) |-> Num(q[i])]
  BY <1>1
<1> HIDE DEF S
<1>4. /\ [i \in 1 .. Len(q) |-> Num(q[i])] \in Seq(S)
      /\ Len([i \in 1 .. Len(q) |-> Num(q[i])]) = Len(q)
  BY <1>1, <1>2
<1> QED BY <1>3, <1>4, Zenon DEF IsText

Tabled == [i \in DOMAIN Table |-> Num(Table[i])]
InTable == Fits(EndOfBlobs, Len(Tabled))

(* A Close that fills in the header: the table goes behind the blobs, as far *)
(* as it fits.                                                               *)
LEMMA ClosedMeans ==
  ASSUME needsUpdate, IsStream(EndOfBlobs), EndOfBlobs.pos <= Len(EndOfBlobs.cells),
         HeaderCells <= Len(EndOfBlobs.cells), Len(EndOfBlobs.cells) <= Capacity,
         IsText(Table)
  PROVE  /\ IsStream(ClosedStream) /\ ClosedStream.pos = Covered
         /\ InTable \in 0 .. Len(Table)
         /\ Len(ClosedStream.cells) =
              IF EndOfBlobs.pos + InTable > Len(EndOfBlobs.cells)
              THEN EndOfBlobs.pos + InTable ELSE Len(EndOfBlobs.cells)
         /\ \A i \in 1 .. Len(ClosedStream.cells) :
              ClosedStream.cells[i] =
                IF i = 2 THEN SumAtClose
                ELSE IF i = 3 THEN Num(Blobs)
                ELSE IF i = 4 THEN Num(EndOfBlobs.pos)
                ELSE IF EndOfBlobs.pos < i /\ i <= EndOfBlobs.pos + InTable
                THEN Tabled[i - EndOfBlobs.pos]
                ELSE EndOfBlobs.cells[i]
         /\ SumAtClose = Digest(Behind(ClosedStream.cells))
<1> DEFINE e == EndOfBlobs
           k == InTable
           t == WithTable
           h == WithHeader
           c == ClosedStream
<1>1. e.pos \in Nat /\ Len(e.cells) \in Nat /\ Capacity \in Nat
  BY TextMeans, StreamAssumption DEF IsStream
<1>2. IsText(Tabled) /\ Len(Tabled) = Len(Table) /\ Len(Table) \in Nat
  BY ListText, TextMeans DEF Tabled
<1>3. t = AfterWrite(e, Tabled)
  BY DEF WithTable, Tabled
<1> HIDE DEF e, t
<1>4. k \in 0 .. Len(Table) /\ Covers(e, Tabled, k, t)
  BY <1>2, <1>3, WriteMeans DEF e, InTable
<1>5. k \in Nat /\ (k > 0 => e.pos + k <= Capacity)
  <2>1. k = Fewer(Len(Tabled), MoreThanNone(Capacity - e.pos))
    BY DEF InTable, Fits, e
  <2> HIDE DEF k
  <2> QED BY <1>1, <1>2, <1>4, <2>1 DEF Fewer, MoreThanNone
<1> HIDE DEF k
<1>6. /\ IsStream(t) /\ t.pos = e.pos + k /\ t.pos <= Len(t.cells)
      /\ Len(t.cells) \in Nat /\ HeaderCells <= Len(t.cells) /\ Len(t.cells) <= Capacity
      /\ Len(t.cells) = IF e.pos + k > Len(e.cells) THEN e.pos + k ELSE Len(e.cells)
      /\ \A i \in 1 .. Len(t.cells) :
           t.cells[i] = IF e.pos < i /\ i <= e.pos + k THEN Tabled[i - e.pos] ELSE e.cells[i]
  BY <1>1, <1>4, <1>5 DEF Covers, e
<1> DEFINE s == At(t, Covered)
           new == <<Num(Blobs), Num(e.pos)>>
<1>7. s = [cells |-> t.cells, pos |-> 2]
  BY <1>6, AtMeans DEF IsStream
<1>8. h = AfterWrite(s, new)
  BY DEF WithHeader, t, e
<1>9. IsText(new) /\ Len(new) = 2 /\ new[1] = Num(Blobs) /\ new[2] = Num(e.pos)
  BY PairText
<1>10. IsStream(s) /\ s.pos = 2 /\ s.cells = t.cells /\ s.pos <= Len(s.cells)
  BY <1>6, <1>7 DEF IsStream
<1> HIDE DEF new, s, h
<1>11. Fits(s, Len(new)) = 2
  BY <1>1, <1>6, <1>9, <1>10 DEF Fits, Fewer, MoreThanNone
<1>12. Covers(s, new, 2, h)
  BY <1>8, <1>9, <1>10, <1>11, WriteMeans
<1>13. /\ IsStream(h) /\ Len(h.cells) = Len(t.cells)
       /\ \A i \in 1 .. Len(t.cells) :
            h.cells[i] = IF i = 3 THEN Num(Blobs) ELSE IF i = 4 THEN Num(e.pos) ELSE t.cells[i]
  <2>1. /\ IsStream(h) /\ Len(h.cells) = Len(t.cells)
        /\ \A i \in 1 .. Len(h.cells) :
             h.cells[i] = IF 2 < i /\ i <= 2 + 2 THEN new[i - 2] ELSE t.cells[i]
    BY <1>6, <1>10, <1>12 DEF Covers
  <2>2. ASSUME NEW i \in 1 .. Len(t.cells)
        PROVE  h.cells[i] = IF i = 3 THEN Num(Blobs) ELSE IF i = 4 THEN Num(e.pos)
                            ELSE t.cells[i]
    <3>1. CASE i = 3
      BY <1>9, <2>1, <3>1
    <3>2. CASE i = 4
      BY <1>9, <2>1, <3>2
    <3>3. CASE i # 3 /\ i # 4
      BY <2>1, <3>3
    <3> QED BY <3>1, <3>2, <3>3
  <2> QED BY <2>1, <2>2
<1> DEFINE u == At(h, 1)
           sum == <<SumAtClose>>
<1>14. u = [cells |-> h.cells, pos |-> 1]
  BY <1>13, AtMeans DEF IsStream
<1>15. c = AfterWrite(u, sum)
  BY DEF ClosedStream, h
<1>16. IsText(sum) /\ Len(sum) = 1 /\ sum[1] = SumAtClose
  BY OneText
<1>17. IsStream(u) /\ u.pos = 1 /\ u.cells = h.cells /\ u.pos <= Len(u.cells)
  BY <1>6, <1>13, <1>14 DEF IsStream
<1> HIDE DEF u, sum, c
<1>18. Fits(u, Len(sum)) = 1
  BY <1>1, <1>6, <1>13, <1>16, <1>17 DEF Fits, Fewer, MoreThanNone
<1>19. Covers(u, sum, 1, c)
  BY <1>15, <1>16, <1>17, <1>18, WriteMeans
<1>20. /\ IsStream(c) /\ c.pos = 2 /\ Len(c.cells) = Len(t.cells)
       /\ \A i \in 1 .. Len(c.cells) :
            c.cells[i] = IF i = 2 THEN SumAtClose ELSE h.cells[i]
  <2>1. /\ IsStream(c) /\ c.pos = 2 /\ Len(c.cells) = Len(t.cells)
        /\ \A i \in 1 .. Len(c.cells) :
             c.cells[i] = IF 1 < i /\ i <= 1 + 1 THEN sum[i - 1] ELSE h.cells[i]
    BY <1>6, <1>13, <1>17, <1>19 DEF Covers
  <2>2. \A i \in 1 .. Len(t.cells) : i = 2 <=> 1 < i /\ i <= 1 + 1
    BY <1>6
  <2> QED BY <1>16, <2>1, <2>2
<1>21. SumAtClose = Digest(Behind(c.cells))
  <2>1. SumAtClose = Digest(Behind(h.cells))
    BY DEF SumAtClose, Behind, h
  <2>2. \A i \in Covered + 1 .. Len(h.cells) : h.cells[i] = c.cells[i]
    BY <1>6, <1>13, <1>20
  <2>3. /\ IsText(h.cells) /\ IsText(c.cells) /\ Len(h.cells) = Len(c.cells)
        /\ Len(h.cells) >= Covered /\ Len(c.cells) >= Covered
    BY <1>6, <1>13, <1>20 DEF IsStream
  <2>4. Behind(h.cells) = Behind(c.cells)
    BY <2>2, <2>3, SameBehind
  <2> QED BY <2>1, <2>4
<1>22. \A i \in 1 .. Len(c.cells) :
         c.cells[i] = IF i = 2 THEN SumAtClose ELSE IF i = 3 THEN Num(Blobs)
                      ELSE IF i = 4 THEN Num(e.pos)
                      ELSE IF e.pos < i /\ i <= e.pos + k THEN Tabled[i - e.pos]
                      ELSE e.cells[i]
  BY <1>6, <1>13, <1>20
<1> QED BY <1>4, <1>6, <1>20, <1>21, <1>22 DEF c, e, k

LEMMA SumInit == Init => SumInv
<1> SUFFICES ASSUME Init PROVE SumInv
  OBVIOUS
<1>1. IsText(<<>>) /\ Len(<<>>) = 0
  <2>1. <<>> \in Seq({})
    OBVIOUS
  <2> QED BY <2>1 DEF IsText
<1>2. stream.cells = <<>> /\ stream = [cells |-> stream.cells, pos |-> stream.pos]
  BY DEF Init, EmptyStream
<1>3. IsText(toc)
  BY <1>1 DEF Init
<1> QED BY <1>1, <1>2, <1>3, StreamAssumption DEF Init, SumInv, WriterInv, VerifyExact

(* A step that changes nothing in the file, of an object that does not write. *)
LEMMA SumRead ==
  ASSUME SumInv, stream' = [cells |-> stream.cells, pos |-> stream'.pos],
         ~ wroteHeader,
         UNCHANGED <<wroteHeader, needsUpdate, writing, atClose>>,
         reading' => readHeader',
         ~readHeader' => ~readHeader /\ UNCHANGED toc,
         readHeader' => \/ readHeader /\ totalMD5' = totalMD5
                        \/ atClose # <<>> /\ totalMD5' = stream.cells[2],
         VerifyExact'
  PROVE  SumInv'
<1>1. stream'.cells = stream.cells
  OBVIOUS
<1> QED BY <1>1 DEF SumInv, WriterInv, Sealed

(* A step of a writer that has begun, and leaves version and digest alone.   *)
LEMMA SumWritten ==
  ASSUME SumInv, wroteHeader, IsStream(stream'), Len(stream'.cells) <= Capacity,
         Len(stream.cells) <= Len(stream'.cells), stream'.pos \in Covered .. Len(stream'.cells),
         stream'.cells[1] = stream.cells[1], stream'.cells[2] = stream.cells[2],
         UNCHANGED <<readHeader, wroteHeader, needsUpdate, atClose, reading, verified>>,
         IsText(toc'),
         writing' => /\ startOffset' \in Nat /\ startOffset' >= Covered
                     /\ bytesWritten' \in Nat
                     /\ stream'.pos = startOffset' + BlobHeader + bytesWritten'
  PROVE  SumInv'
<1>1. Len(stream.cells) \in Nat /\ Len(stream'.cells) \in Nat /\ Len(stream.cells) >= 4
  BY TextMeans DEF SumInv, WriterInv, IsStream
<1> QED BY <1>1 DEF SumInv, WriterInv, Sealed, VerifyExact, IsStream

LEMMA SumWriteHeader == ASSUME SumInv, WriteHeader PROVE SumInv'
<1> DEFINE new == <<Version, Junk, Junk, Junk>>
           s == At(stream, 0)
           k == Fits(s, Len(new))
           r == stream'
<1>1. s = [cells |-> stream.cells, pos |-> 0]
  BY AtMeans DEF SumInv
<1>2. /\ Len(stream.cells) \in Nat /\ Len(stream.cells) <= Capacity /\ IsText(stream.cells)
      /\ Capacity \in Nat
  BY TextMeans, StreamAssumption DEF SumInv
<1>3. IsStream(s) /\ s.cells = stream.cells /\ s.pos = 0 /\ s.pos <= Len(s.cells)
  BY <1>1, <1>2 DEF IsStream
<1>4. IsText(new) /\ Len(new) = 4 /\ new[1] = Version
  <2>1. new \in Seq({Version, Junk})
    OBVIOUS
  <2> QED BY <2>1 DEF IsText
<1>5. /\ ~wroteHeader /\ ~readHeader /\ r = AfterWrite(s, new)
      /\ wroteHeader' = (k = Len(new)) /\ needsUpdate' = wroteHeader'
      /\ atClose' = <<>> /\ UNCHANGED <<readHeader, writing, reading, verified, toc>>
  BY DEF WriteHeader, Wrote, writeVars, readVars
<1> HIDE DEF new, s
<1>6. k \in 0 .. Len(new) /\ Covers(s, new, k, r)
  BY <1>3, <1>4, <1>5, WriteMeans
<1>7. k = Fewer(4, MoreThanNone(Capacity))
  BY <1>2, <1>3, <1>4 DEF Fits
<1> HIDE DEF k
<1>8. k <= Capacity /\ (k < 4 => Capacity < 4)
  BY <1>2, <1>7 DEF Fewer, MoreThanNone
<1> HIDE DEF r
<1>9. /\ IsStream(r) /\ r.pos = k /\ Len(r.cells) <= Capacity
      /\ Len(r.cells) \in Nat /\ k \in 0 .. Len(r.cells)
      /\ (1 <= k => r.cells[1] = new[1])
  BY <1>2, <1>3, <1>4, <1>6, <1>8 DEF Covers
<1>w. (wroteHeader' => k = 4) /\ (~wroteHeader' => k # 4)
  BY <1>4, <1>5, Zenon
<1>10. wroteHeader' => r.pos \in 2 .. Len(r.cells) /\ Len(r.cells) >= 4 /\ r.cells[1] = Version
  BY <1>4, <1>9, <1>w
<1>11. ~wroteHeader' => Len(r.cells) < 4
  BY <1>2, <1>4, <1>6, <1>8, <1>9, <1>w
<1>12. ~writing /\ ~reading /\ VerifyExact' /\ IsText(toc')
  BY <1>5 DEF SumInv, WriterInv, VerifyExact
<1> QED BY <1>5, <1>9, <1>10, <1>11, <1>12 DEF SumInv, WriterInv, IsStream, r

(* What is written at the end of the data, or over it.                       *)
LEMMA Appended ==
  ASSUME SumInv, wroteHeader, NEW new, IsText(new)
  PROVE  LET k == Fits(stream, Len(new))
             r == AfterWrite(stream, new)
         IN /\ k \in 0 .. Len(new) /\ Covers(stream, new, k, r)
            /\ IsStream(r) /\ Len(r.cells) <= Capacity
            /\ Len(stream.cells) <= Len(r.cells) /\ r.pos \in Covered .. Len(r.cells)
            /\ r.pos = stream.pos + k
            /\ r.cells[1] = stream.cells[1] /\ r.cells[2] = stream.cells[2]
<1> DEFINE k == Fits(stream, Len(new))
           r == AfterWrite(stream, new)
<1>1. /\ IsStream(stream) /\ stream.pos \in 2 .. Len(stream.cells)
      /\ Len(stream.cells) \in Nat /\ Len(stream.cells) >= 4
      /\ Len(stream.cells) <= Capacity /\ Capacity \in Nat
  BY TextMeans, StreamAssumption DEF SumInv, WriterInv, IsStream
<1>2. k \in 0 .. Len(new) /\ Covers(stream, new, k, r) /\ Len(new) \in Nat
  BY <1>1, WriteMeans, TextMeans
<1>3. k = Fewer(Len(new), MoreThanNone(Capacity - stream.pos))
  BY DEF Fits
<1> HIDE DEF k, r
<1>4. stream.pos + k <= Capacity
  BY <1>1, <1>2, <1>3 DEF Fewer, MoreThanNone
<1>5. /\ IsStream(r) /\ Len(r.cells) <= Capacity
      /\ Len(stream.cells) <= Len(r.cells) /\ r.pos \in 2 .. Len(r.cells)
      /\ r.pos = stream.pos + k
  BY <1>1, <1>2, <1>4 DEF Covers
<1>6. r.cells[1] = stream.cells[1] /\ r.cells[2] = stream.cells[2]
  BY <1>1, <1>2, <1>5 DEF Covers
<1> QED BY <1>2, <1>5, <1>6 DEF k, r

LEMMA SumStartWrite == ASSUME SumInv, NEW id, StartWriteBlob(id) PROVE SumInv'
<1> DEFINE new == <<Junk, Junk, Num(0), Num(id)>>
           k == Fits(stream, Len(new))
           r == AfterWrite(stream, new)
<1>1. /\ wroteHeader /\ ~writing /\ stream' = r /\ startOffset' = stream.pos
      /\ UNCHANGED <<readHeader, wroteHeader, needsUpdate, atClose, reading, verified>>
      /\ IF k = Len(new) THEN writing' = TRUE /\ bytesWritten' = 0
         ELSE UNCHANGED writing
      /\ UNCHANGED toc
  BY DEF StartWriteBlob, Wrote, headerVars, readVars
<1>2. IsText(new) /\ Len(new) = 4
  <2>1. new \in Seq({Junk, Num(0), Num(id)})
    OBVIOUS
  <2> QED BY <2>1 DEF IsText
<1> HIDE DEF new
<1>3. /\ k \in 0 .. Len(new) /\ IsStream(r) /\ Len(r.cells) <= Capacity
      /\ Len(stream.cells) <= Len(r.cells) /\ r.pos \in Covered .. Len(r.cells)
      /\ r.pos = stream.pos + k
      /\ r.cells[1] = stream.cells[1] /\ r.cells[2] = stream.cells[2]
  BY <1>1, <1>2, Appended
<1> HIDE DEF k, r
<1>4. stream.pos \in Nat /\ stream.pos >= 2 /\ IsText(toc')
  BY <1>1 DEF SumInv, WriterInv
<1>5. writing' => k = 4 /\ bytesWritten' = 0
  BY <1>1, <1>2
<1> QED BY <1>1, <1>3, <1>4, <1>5, SumWritten

LEMMA DataText ==
  ASSUME NEW bytes \in Seq(Bytes)
  PROVE  /\ Len(bytes) \in Nat
         /\ IsText(Data(bytes)) /\ Len(Data(bytes)) = Len(bytes)
         /\ \A i \in 1 .. Len(bytes) : Data(bytes)[i] = Byte(bytes[i])
<1>1. Len(bytes) \in Nat /\ DOMAIN bytes = 1 .. Len(bytes)
  OBVIOUS
<1>2. Data(bytes) = [i \in 1 .. Len(bytes) |-> Byte(bytes[i])]
  BY <1>1 DEF Data
<1> DEFINE S == {Byte(bytes[i]) : i \in 1 .. Len(bytes)}
<1>3. Data(bytes) \in [1 .. Len(bytes) -> S]
  BY <1>2
<1> HIDE DEF S
<1>4. Data(bytes) \in Seq(S) /\ Len(Data(bytes)) = Len(bytes)
  BY <1>1, <1>3
<1> QED BY <1>1, <1>2, <1>4 DEF IsText

LEMMA PieceText ==
  ASSUME NEW bytes \in Pieces
  PROVE  /\ bytes \in Seq(Bytes) /\ Len(bytes) \in Nat
         /\ IsText(Data(bytes)) /\ Len(Data(bytes)) = Len(bytes)
         /\ \A i \in 1 .. Len(bytes) : Data(bytes)[i] = Byte(bytes[i])
<1>1. bytes \in Seq(Bytes)
  BY ContainerAssumption
<1> QED BY <1>1, DataText

LEMMA SumWrite ==
  ASSUME SumInv, NEW bytes \in Pieces, WriteToBlob(bytes) PROVE SumInv'
<1> DEFINE new == Data(bytes)
           k == Fits(stream, Len(new))
           r == AfterWrite(stream, new)
<1>1. /\ writing /\ stream' = r
      /\ bytesWritten' = bytesWritten + Fits(stream, Len(bytes))
      /\ UNCHANGED <<readHeader, wroteHeader, needsUpdate, atClose, reading, verified,
                     writing, startOffset, toc>>
  BY DEF WriteToBlob, headerVars, readVars
<1>2. IsText(new) /\ Len(new) = Len(bytes) /\ Len(bytes) \in Nat
  BY PieceText
<1>3. wroteHeader /\ IsText(toc')
  BY <1>1 DEF SumInv, WriterInv
<1> HIDE DEF new
<1>4. /\ k \in 0 .. Len(new) /\ IsStream(r) /\ Len(r.cells) <= Capacity
      /\ Len(stream.cells) <= Len(r.cells) /\ r.pos \in Covered .. Len(r.cells)
      /\ r.pos = stream.pos + k
      /\ r.cells[1] = stream.cells[1] /\ r.cells[2] = stream.cells[2]
  BY <1>2, <1>3, Appended
<1>5. bytesWritten' = bytesWritten + k
  BY <1>1, <1>2
<1> HIDE DEF k, r
<1>6. /\ startOffset \in Nat /\ startOffset >= Covered /\ bytesWritten \in Nat
      /\ stream.pos = startOffset + BlobHeader + bytesWritten
  BY <1>1 DEF SumInv, WriterInv
<1>7. bytesWritten' \in Nat /\ stream'.pos = startOffset' + BlobHeader + bytesWritten'
  <2>1. k \in Nat
    BY <1>2, <1>4
  <2>2. stream'.pos = stream.pos + k /\ startOffset' = startOffset
    BY <1>1, <1>4
  <2> QED BY <1>5, <1>6, <2>1, <2>2
<1> QED BY <1>1, <1>3, <1>4, <1>6, <1>7, SumWritten

(* The stream after the blob that is open, if any, was ended.                *)
LEMMA SumEnded ==
  ASSUME SumInv, wroteHeader
  PROVE  LET e == EndOfBlobs
         IN /\ IsStream(e) /\ e.pos = stream.pos /\ Len(e.cells) = Len(stream.cells)
            /\ e.cells[1] = stream.cells[1] /\ e.cells[2] = stream.cells[2]
            /\ e.pos \in Covered .. Len(e.cells) /\ Len(e.cells) >= HeaderCells
            /\ Len(e.cells) <= Capacity /\ (writing => e = EndedStream)
<1>1. /\ IsStream(stream) /\ stream.pos \in 2 .. Len(stream.cells)
      /\ Len(stream.cells) \in Nat /\ Len(stream.cells) >= 4
      /\ Len(stream.cells) <= Capacity
  BY TextMeans DEF SumInv, WriterInv, IsStream
<1>2. CASE writing
  <2>1. EndOfBlobs = EndedStream
    BY <1>2 DEF EndOfBlobs
  <2>2. /\ startOffset \in Nat /\ startOffset >= 2 /\ bytesWritten \in Nat
        /\ stream.pos = startOffset + BlobHeader + bytesWritten
    BY <1>2 DEF SumInv, WriterInv
  <2>3. /\ IsStream(EndedStream) /\ EndedStream.pos = stream.pos
        /\ Len(EndedStream.cells) = Len(stream.cells)
        /\ \A i \in 1 .. Len(stream.cells) :
             EndedStream.cells[i]
               = IF i = startOffset + 1 THEN Num(bytesWritten)
                 ELSE IF i = startOffset + 2 THEN Digest(hashed)
                 ELSE stream.cells[i]
    BY <1>1, <2>2, EndedMeans
  <2>4. /\ EndedStream.cells[1] = stream.cells[1] /\ EndedStream.cells[2] = stream.cells[2]
    <3>1. /\ 1 \in 1 .. Len(stream.cells) /\ 2 \in 1 .. Len(stream.cells)
          /\ 1 # startOffset + 1 /\ 1 # startOffset + 2
          /\ 2 # startOffset + 1 /\ 2 # startOffset + 2
      BY <1>1, <2>2
    <3> QED BY <2>3, <3>1, Zenon
  <2> QED BY <1>1, <2>1, <2>3, <2>4
<1>3. CASE ~writing
  BY <1>1, <1>3 DEF EndOfBlobs
<1> QED BY <1>2, <1>3

LEMMA SumEndWrite == ASSUME SumInv, EndWriteBlob PROVE SumInv'
<1>1. /\ writing /\ writing' = FALSE /\ stream' = EndedStream
      /\ UNCHANGED <<readHeader, wroteHeader, needsUpdate, atClose, reading, verified>>
  BY DEF EndWriteBlob, readVars
<1>2. wroteHeader /\ IsText(toc)
  BY <1>1 DEF SumInv, WriterInv
<1>3. Len(stream.cells) \in Nat
  BY TextMeans DEF SumInv
<1>4. IsText(toc')
  BY <1>2, AddedText DEF EndWriteBlob
<1> QED BY <1>1, <1>2, <1>3, <1>4, SumEnded, SumWritten

(* What Close leaves, whether it had a header to fill in or not.             *)
LEMMA SumClosed ==
  ASSUME SumInv, FileIsClosed
  PROVE  /\ stream' = [cells |-> stream'.cells, pos |-> stream'.pos]
         /\ IsText(stream'.cells) /\ Len(stream'.cells) <= Capacity
         /\ wroteHeader => /\ stream'.pos \in Covered .. Len(stream'.cells)
                           /\ Len(stream'.cells) >= HeaderCells
         /\ atClose' # <<>> => Sealed'
         /\ atClose' # <<>> \/ Len(stream'.cells) < HeaderCells
         /\ ~needsUpdate =>
              /\ atClose' = atClose
              /\ ~writing => stream' = stream
<1>1. CASE needsUpdate
  <2>1. wroteHeader /\ stream.cells[1] = Version
    BY <1>1 DEF SumInv, WriterInv
  <2> DEFINE e == EndOfBlobs
             c == ClosedStream
  <2>2. /\ IsStream(e) /\ e.cells[1] = stream.cells[1]
        /\ e.pos \in 2 .. Len(e.cells) /\ Len(e.cells) >= 4
        /\ Len(e.cells) \in Nat /\ Len(e.cells) <= Capacity
    BY <2>1, SumEnded, TextMeans DEF IsStream
  <2>3. IsText(Table)
    BY <1>1, AddedText DEF Table, SumInv, WriterInv
  <2>4. stream' = c /\ atClose' = c.cells
    BY <1>1 DEF FileIsClosed
  <2>5. /\ IsStream(c) /\ c.pos = 2 /\ InTable \in 0 .. Len(Table)
        /\ Len(c.cells) = IF e.pos + InTable > Len(e.cells)
                          THEN e.pos + InTable ELSE Len(e.cells)
        /\ \A i \in 1 .. Len(c.cells) :
              c.cells[i] = IF i = 2 THEN SumAtClose ELSE IF i = 3 THEN Num(Blobs)
                ELSE IF i = 4 THEN Num(e.pos)
                ELSE IF e.pos < i /\ i <= e.pos + InTable THEN Tabled[i - e.pos]
                ELSE e.cells[i]
        /\ SumAtClose = Digest(Behind(c.cells))
    BY <1>1, <2>2, <2>3, ClosedMeans
  <2> HIDE DEF e, c
  <2>6. InTable \in Nat /\ (InTable > 0 => e.pos + InTable <= Capacity)
    <3>1. IsText(Tabled) /\ Len(Tabled) = Len(Table) /\ Len(Table) \in Nat
      BY <2>3, ListText, TextMeans DEF Tabled
    <3>2. InTable = Fewer(Len(Tabled), MoreThanNone(Capacity - e.pos))
      BY DEF InTable, Fits, e
    <3>3. Capacity \in Nat
      BY StreamAssumption
    <3> QED BY <2>2, <2>5, <3>1, <3>2, <3>3 DEF Fewer, MoreThanNone
  <2>7. /\ IsText(c.cells) /\ Len(c.cells) \in Nat /\ Len(c.cells) >= 4
        /\ Len(c.cells) <= Capacity
    BY <2>2, <2>5, <2>6, TextMeans DEF IsStream
  <2>8. c.cells # <<>>
    BY <2>7
  <2>9. c.cells[1] = Version
    <3>1. 1 \in 1 .. Len(c.cells) /\ ~ (e.pos < 1)
      BY <2>2, <2>7
    <3>2. c.cells[1] = e.cells[1]
      BY <2>5, <3>1
    <3> QED BY <2>1, <2>2, <3>2
  <2>10. c.cells[2] = Digest(Behind(c.cells))
    <3>1. 2 \in 1 .. Len(c.cells)
      BY <2>7
    <3> QED BY <2>5, <3>1
  <2> QED BY <1>1, <2>4, <2>5, <2>7, <2>8, <2>9, <2>10 DEF Sealed, IsStream
<1>2. CASE ~needsUpdate
  <2>1. stream' = EndOfBlobs /\ atClose' = atClose
    BY <1>2 DEF FileIsClosed, ClosedStream
  <2>2. CASE wroteHeader
    <3>1. /\ IsStream(stream') /\ stream'.cells[1] = stream.cells[1]
          /\ stream'.cells[2] = stream.cells[2]
          /\ stream'.pos \in Covered .. Len(stream'.cells) /\ Len(stream'.cells) >= HeaderCells
          /\ Len(stream'.cells) = Len(stream.cells)
          /\ Len(stream'.cells) <= Capacity
      BY <2>1, <2>2, SumEnded
    <3>2. ~writing => stream' = stream
      BY <2>1 DEF EndOfBlobs
    <3> QED BY <1>2, <2>1, <3>1, <3>2 DEF SumInv, Sealed, IsStream
  <2>3. CASE ~wroteHeader
    <3>1. ~writing
      BY <2>3 DEF SumInv, WriterInv
    <3>2. stream' = stream
      BY <2>1, <3>1 DEF EndOfBlobs
    <3> QED BY <1>2, <2>1, <2>3, <3>2 DEF SumInv, Sealed
  <2> QED BY <2>2, <2>3
<1> QED BY <1>1, <1>2

LEMMA SumClose == ASSUME SumInv, Close PROVE SumInv'
<1>1. /\ FileIsClosed /\ writing' = FALSE /\ needsUpdate' = FALSE
      /\ totalMD5' = IF needsUpdate THEN SumAtClose ELSE totalMD5
      /\ toc' = Table
      /\ UNCHANGED <<readHeader, wroteHeader, reading, verified>>
  BY DEF Close, readVars
<1>2. ~readHeader => IsText(toc')
  BY <1>1, AddedText DEF Table, SumInv, WriterInv
<1>3. readHeader => /\ ~writing /\ ~needsUpdate /\ atClose' = atClose /\ stream' = stream
                    /\ totalMD5' = totalMD5 /\ atClose # <<>> /\ totalMD5 = stream.cells[2]
  BY <1>1, SumClosed DEF SumInv, WriterInv
<1>4. VerifyExact'
  BY <1>1 DEF SumInv, VerifyExact
<1> QED BY <1>1, <1>2, <1>3, <1>4, SumClosed DEF SumInv, WriterInv

LEMMA SumCreateInstance == ASSUME SumInv, CreateInstance PROVE SumInv'
<1>1. /\ FileIsClosed /\ writing' = FALSE /\ needsUpdate' = FALSE /\ readHeader' = FALSE
      /\ wroteHeader' = FALSE /\ reading' = FALSE /\ toc' = <<>> /\ verified' = <<>>
  BY DEF CreateInstance
<1>2. IsText(<<>>)
  <2>1. <<>> \in Seq({})
    OBVIOUS
  <2> QED BY <2>1 DEF IsText
<1> QED BY <1>1, <1>2, SumClosed DEF SumInv, WriterInv, VerifyExact

-----------------------------------------------------------------------------
(* Reading                                                                   *)

LEMMA ReadMeans ==
  ASSUME NEW s, IsStream(s), s.pos <= Len(s.cells), NEW n \in Nat
  PROVE  LET have == Len(s.cells) - s.pos
             k == Fewer(n, have)
             d == ReadFrom(s, n)
         IN /\ k \in 0 .. n /\ k <= have
            /\ IsText(d) /\ Len(d) = k
            /\ \A i \in 1 .. k : d[i] = s.cells[s.pos + i]
            /\ AfterRead(s, n) = [cells |-> s.cells, pos |-> s.pos + k]
<1> DEFINE have == Len(s.cells) - s.pos
           k == Fewer(n, have)
           last == Fewer(s.pos + n, Len(s.cells))
           d == ReadFrom(s, n)
<1>1. Len(s.cells) \in Nat /\ s.pos \in 0 .. Len(s.cells)
  BY TextMeans DEF IsStream
<1>2. k \in 0 .. n /\ k <= have /\ last = s.pos + k /\ last \in Nat /\ last <= Len(s.cells)
  BY <1>1 DEF Fewer
<1>3. d = SubSeq(s.cells, s.pos + 1, last)
  BY DEF ReadFrom
<1> HIDE DEF k, last, d
<1>4. /\ IsText(d)
      /\ Len(d) = IF s.pos + 1 <= last THEN last - (s.pos + 1) + 1 ELSE 0
      /\ \A i \in 1 .. last - (s.pos + 1) + 1 : d[i] = s.cells[s.pos + 1 + i - 1]
  <2>1. s.pos + 1 \in Int /\ 1 <= s.pos + 1 /\ last \in Int /\ last <= Len(s.cells)
    BY <1>1, <1>2
  <2>2. IsText(s.cells)
    BY DEF IsStream
  <2>3. PICK m \in Int : m = s.pos + 1
    BY <2>1
  <2>4. /\ IsText(SubSeq(s.cells, m, last))
        /\ Len(SubSeq(s.cells, m, last)) = IF m <= last THEN last - m + 1 ELSE 0
        /\ \A i \in 1 .. last - m + 1 : SubSeq(s.cells, m, last)[i] = s.cells[m + i - 1]
    BY <2>1, <2>2, <2>3, PartText
  <2> QED BY <1>3, <2>3, <2>4, Zenon
<1>5. Len(d) = k
  BY <1>1, <1>2, <1>4
<1>6. ASSUME NEW i \in 1 .. k PROVE d[i] = s.cells[s.pos + i]
  <2>1. i \in 1 .. last - (s.pos + 1) + 1 /\ s.pos + 1 + i - 1 = s.pos + i
    BY <1>1, <1>2
  <2> QED BY <1>4, <2>1, Zenon
<1>7. AfterRead(s, n) = [cells |-> s.cells, pos |-> s.pos + k]
  BY <1>5 DEF AfterRead, d, IsStream
<1> QED BY <1>2, <1>4, <1>5, <1>6, <1>7 DEF k, d

LEMMA SumReadHeader == ASSUME SumInv, ReadHeader PROVE SumInv'
<1> DEFINE s == At(stream, 0)
           head == ReadFrom(s, HeaderCells)
<1>1. s = [cells |-> stream.cells, pos |-> 0]
  BY AtMeans DEF SumInv
<1>2. IsText(stream.cells) /\ Len(stream.cells) \in Nat
  BY TextMeans DEF SumInv
<1>3. IsStream(s) /\ s.pos = 0 /\ s.cells = stream.cells /\ s.pos <= Len(s.cells)
  BY <1>1, <1>2 DEF IsStream
<1>4. /\ ~wroteHeader /\ ~readHeader
      /\ UNCHANGED <<wroteHeader, needsUpdate, writing, atClose, reading, verified>>
  BY DEF ReadHeader, writeVars, readVars, store
<1>5. /\ ~needsUpdate /\ ~reading
      /\ Len(stream.cells) >= HeaderCells => atClose # <<>>
      /\ VerifyExact'
  BY <1>2, <1>4 DEF SumInv, WriterInv, VerifyExact
<1>6. CASE Len(head) = HeaderCells /\ head[1] = Version
  <2>1. /\ stream' = At(stream, HeaderCells) /\ readHeader' = TRUE /\ totalMD5' = head[2]
    BY <1>6 DEF ReadHeader, s, head
  <2>2. stream' = [cells |-> stream.cells, pos |-> 4]
    BY <2>1, AtMeans DEF SumInv
  <2> HIDE DEF s
  <2>3. /\ Len(head) = Fewer(4, Len(s.cells) - s.pos)
        /\ \A i \in 1 .. Fewer(4, Len(s.cells) - s.pos) : head[i] = s.cells[s.pos + i]
    BY <1>3, ReadMeans
  <2> HIDE DEF head
  <2>4. Fewer(4, Len(s.cells) - s.pos) = 4
    BY <1>6, <2>3
  <2>5. Len(stream.cells) >= 4
    BY <1>2, <1>3, <2>4 DEF Fewer
  <2>6. head[2] = stream.cells[2]
    <3>1. 2 \in 1 .. 4 /\ 0 + 2 = 2
      OBVIOUS
    <3> QED BY <1>3, <2>3, <2>4, <3>1, Zenon
  <2> QED BY <1>4, <1>5, <2>1, <2>2, <2>5, <2>6, SumRead
<1>7. CASE ~ (Len(head) = HeaderCells /\ head[1] = Version)
  <2>1. /\ stream' = AfterRead(At(stream, 0), HeaderCells) /\ UNCHANGED <<readHeader, toc>>
    BY <1>7 DEF ReadHeader, s, head
  <2>2. stream' = AfterRead(s, 4)
    BY <2>1
  <2> HIDE DEF s, head
  <2>3. AfterRead(s, 4) = [cells |-> s.cells, pos |-> s.pos + Fewer(4, Len(s.cells) - s.pos)]
    BY <1>3, ReadMeans
  <2>4. stream' = [cells |-> stream.cells, pos |-> stream'.pos]
    BY <1>3, <2>2, <2>3
  <2> QED BY <1>4, <1>5, <2>1, <2>4, SumRead
<1> QED BY <1>6, <1>7

(* What an object reads with changes neither the file nor what it knows.     *)
LEMMA SumReads ==
  ASSUME SumInv, readHeader, stream' = [cells |-> stream.cells, pos |-> stream'.pos],
         UNCHANGED <<headerVars, writing, atClose>>, VerifyExact'
  PROVE  SumInv'
<1>1. ~wroteHeader /\ ~needsUpdate /\ readHeader' /\ totalMD5' = totalMD5
  BY DEF SumInv, WriterInv, headerVars
<1>2. UNCHANGED <<wroteHeader, needsUpdate, writing, atClose>>
  BY DEF headerVars
<1> QED BY <1>1, <1>2, SumRead

LEMMA SumJump == ASSUME SumInv, NEW i, JumpToBlob(i) PROVE SumInv'
<1>1. /\ readHeader /\ stream' = At(stream, toc[i + 1]) /\ verified' = <<>>
      /\ UNCHANGED <<headerVars, writing, atClose>>
  BY DEF JumpToBlob, writeVars, store
<1>2. stream' = [cells |-> stream.cells, pos |-> stream'.pos]
  BY <1>1 DEF SumInv, At, AfterSeek
<1> QED BY <1>1, <1>2, SumReads DEF VerifyExact

LEMMA ReadStays ==
  ASSUME SumInv, NEW n, stream' = AfterRead(stream, n)
  PROVE  stream' = [cells |-> stream.cells, pos |-> stream'.pos]
BY DEF SumInv, AfterRead

LEMMA SumStartRead == ASSUME SumInv, StartReadBlob PROVE SumInv'
<1>1. /\ readHeader /\ UNCHANGED <<headerVars, writing, atClose, verified>>
      /\ \/ stream' = AfterRead(stream, BlobHeader)
         \/ stream' = AfterRead(stream, BlobHeader - 1)
  BY DEF StartReadBlob, writeVars, store
<1> QED BY <1>1, ReadStays, SumReads DEF VerifyExact, SumInv

LEMMA SumReadFrom == ASSUME SumInv, NEW n, ReadFromBlob(n) PROVE SumInv'
<1>1. /\ reading /\ stream' = AfterRead(stream, UpToEnd(n))
      /\ UNCHANGED <<headerVars, writing, atClose, verified>>
  BY DEF ReadFromBlob, writeVars, store
<1>2. readHeader /\ VerifyExact'
  BY <1>1 DEF SumInv, WriterInv, VerifyExact
<1> QED BY <1>1, <1>2, ReadStays, SumReads

LEMMA SumEndRead == ASSUME SumInv, EndReadBlob PROVE SumInv'
<1>1. reading /\ UNCHANGED <<stream, headerVars, writing, atClose, verified>>
  BY DEF EndReadBlob, writeVars, store
<1>2. readHeader /\ VerifyExact' /\ stream = [cells |-> stream.cells, pos |-> stream.pos]
  BY <1>1 DEF SumInv, WriterInv, VerifyExact
<1> QED BY <1>1, <1>2, SumReads

LEMMA SumVerify == ASSUME SumInv, VerifyContainer PROVE SumInv'
<1>1. /\ readHeader /\ stream' = AfterSeek(stream, 0, "END")
      /\ verified' = <<Digest(Behind(stream.cells)) = totalMD5, stream.cells = atClose>>
      /\ UNCHANGED <<headerVars, writing, atClose>>
  BY DEF VerifyContainer, writeVars, store, Behind
<1>2. stream' = [cells |-> stream.cells, pos |-> stream'.pos]
  BY <1>1 DEF SumInv, AfterSeek
<1>3. /\ Sealed /\ totalMD5 = stream.cells[2] /\ IsText(stream.cells)
  BY <1>1 DEF SumInv
<1>4. /\ IsText(atClose) /\ Len(atClose) >= 4 /\ Len(stream.cells) >= 4
      /\ stream.cells[1] = atClose[1] /\ stream.cells[2] = atClose[2]
      /\ totalMD5 = Digest(Behind(atClose))
      /\ Len(atClose) \in Nat /\ Len(stream.cells) \in Nat
  BY <1>3, TextMeans DEF Sealed
<1>5. Digest(Behind(stream.cells)) = totalMD5 <=> Behind(stream.cells) = Behind(atClose)
  BY <1>4 DEF Digest
<1>6. Behind(stream.cells) = Behind(atClose)
        <=> /\ Len(stream.cells) = Len(atClose)
            /\ \A i \in 3 .. Len(stream.cells) : stream.cells[i] = atClose[i]
  <2>1. Len(atClose) >= Covered /\ Len(stream.cells) >= Covered
    BY <1>4
  <2>2. Behind(stream.cells) = Behind(atClose)
          <=> /\ Len(stream.cells) = Len(atClose)
              /\ \A i \in Covered + 1 .. Len(stream.cells) : stream.cells[i] = atClose[i]
    BY <1>3, <1>4, <2>1, SameBehind, Zenon
  <2>3. Covered + 1 .. Len(stream.cells) = 3 .. Len(stream.cells)
    BY <1>4
  <2> QED BY <2>2, <2>3, Zenon
<1>7. ASSUME Len(stream.cells) = Len(atClose),
             \A i \in 3 .. Len(stream.cells) : stream.cells[i] = atClose[i]
      PROVE  stream.cells = atClose
  <2>1. ASSUME NEW i \in 1 .. Len(stream.cells) PROVE stream.cells[i] = atClose[i]
    <3>1. i = 1 \/ i = 2 \/ i \in 3 .. Len(stream.cells)
      BY <1>4
    <3> QED BY <1>4, <1>7, <3>1
  <2> QED BY <1>3, <1>4, <1>7, <2>1, SameText
<1>8. Digest(Behind(stream.cells)) = totalMD5 <=> stream.cells = atClose
  <2>1. stream.cells = atClose => Behind(stream.cells) = Behind(atClose)
    OBVIOUS
  <2> QED BY <1>5, <1>6, <1>7, <2>1, Zenon
<1>9. VerifyExact'
  <2>1. verified'[1] = (Digest(Behind(stream.cells)) = totalMD5)
    BY <1>1
  <2>2. verified'[2] = (stream.cells = atClose)
    BY <1>1
  <2>3. verified'[1] = verified'[2]
    BY <1>8, <2>1, <2>2, Zenon
  <2> QED BY <2>3 DEF VerifyExact
<1> QED BY <1>1, <1>2, <1>9, SumReads

(* Only data changes: what is no byte stays.                                 *)
LEMMA SumDamage == ASSUME SumInv, Damage PROVE SumInv'
<1>1. PICK i \in DOMAIN stream.cells, b \in Bytes :
         /\ stream.cells[i][1] = "byte"
         /\ stream' = [stream EXCEPT !.cells[i] = Byte(b)]
  BY DEF Damage
<1>2. UNCHANGED <<headerVars, writeVars, reading, startOffset, atClose, verified>>
  BY DEF Damage, readVars
<1>3. /\ stream' = [cells |-> [stream.cells EXCEPT ![i] = Byte(b)], pos |-> stream.pos]
  BY <1>1 DEF SumInv
<1>4. PICK S : stream.cells \in Seq(S)
  BY DEF SumInv, IsText
<1>5. /\ stream'.cells \in Seq(S \cup {Byte(b)})
      /\ Len(stream'.cells) = Len(stream.cells)
  BY <1>1, <1>3, <1>4, ExceptSeq
<1>6. \A j \in 1 .. Len(stream.cells) :
        stream.cells[j][1] # "byte" => stream'.cells[j] = stream.cells[j]
  BY <1>1, <1>3, <1>4
<1>7. Len(stream.cells) >= 4 =>
        /\ stream.cells[1] = Version => stream'.cells[1] = stream.cells[1]
        /\ (\E x : stream.cells[2] = Digest(x)) => stream'.cells[2] = stream.cells[2]
  <2>1. Version[1] # "byte" /\ \A x : Digest(x)[1] # "byte"
    BY DEF Version, Digest
  <2>2. Len(stream.cells) \in Nat
    BY <1>4
  <2> QED BY <1>6, <2>1, <2>2
<1>8. Sealed => Sealed'
  BY <1>2, <1>5, <1>7 DEF Sealed
<1>9. needsUpdate => stream'.cells[1] = Version
  BY <1>7 DEF SumInv, WriterInv
<1>10. readHeader => totalMD5' = stream'.cells[2]
  <2>1. ASSUME readHeader PROVE stream'.cells[2] = stream.cells[2]
    BY <1>7, <2>1 DEF SumInv, Sealed
  <2> QED BY <1>2, <2>1 DEF SumInv, headerVars
<1> QED BY <1>2, <1>3, <1>5, <1>8, <1>9, <1>10
        DEF SumInv, WriterInv, VerifyExact, IsText, headerVars, writeVars

LEMMA SumNext == SumInv /\ [Next]_vars => SumInv'
<1> SUFFICES ASSUME SumInv, [Next]_vars PROVE SumInv'
  OBVIOUS
<1>1. CASE Writer
  BY <1>1, SumWriteHeader, SumEndWrite, SumClose, SumCreateInstance, SumStartWrite, SumWrite
     DEF Writer
<1>2. CASE Reader
  BY <1>2, SumReadHeader, SumStartRead, SumEndRead, SumVerify, SumJump, SumReadFrom DEF Reader
<1>3. CASE Damage
  BY <1>3, SumDamage
<1>4. CASE UNCHANGED vars
  BY <1>4 DEF vars, headerVars, writeVars, readVars, store, SumInv, WriterInv, Sealed, VerifyExact
<1> QED BY <1>1, <1>2, <1>3, <1>4 DEF Next

(* VerifyContainer returns true exactly if nothing has changed in the file   *)
(* since Close: for any blobs, on a medium of any size, with or without      *)
(* damage, and even if the writer goes on after Close.                       *)
THEOREM VerifiesExactly == Spec => []VerifyExact
<1>1. SumInv => VerifyExact
  BY DEF SumInv
<1> QED BY <1>1, SumInit, SumNext, PTL DEF Spec

-----------------------------------------------------------------------------
(* What is in the file                                                       *)

(* A caller that writes no blob after Close, and a medium with room for all. *)
Roomy ==
  /\ "reuse" \notin Habits
  /\ HeaderCells + MaxBlobs * (BlobHeader + MaxBytes + 1) <= Capacity

Records == [id : Ids, data : Seq(Bytes)]

IsByte(c) == c = Byte(c[2])

(* The bytes of a blob, unless one was changed.                              *)
HasData(hurt, cells, p, bytes) ==
  \A j \in 1 .. Len(bytes) :
    IsByte(cells[p + j]) /\ (hurt \/ cells[p + j] = Byte(bytes[j]))

HasBlob(hurt, cells, p, b) ==
  /\ cells[p + 1] = Num(Len(b.data)) /\ cells[p + 2] = Digest(Data(b.data))
  /\ cells[p + 3] = Num(0) /\ cells[p + 4] = Num(b.id)
  /\ HasData(hurt, cells, p + BlobHeader, b.data)

(* Where the blobs of a list begin, and where the last one ends.             *)
Layout(hurt, cells, list, offs) ==
  LET n == Len(list)
  IN /\ offs \in [1 .. n + 1 -> Nat] /\ offs[1] = HeaderCells
     /\ \A i \in 1 .. n : /\ offs[i + 1] = offs[i] + BlobHeader + Len(list[i].data)
                          /\ HeaderCells <= offs[i] /\ offs[i + 1] <= offs[n + 1]
                          /\ HasBlob(hurt, cells, offs[i], list[i])
     /\ HeaderCells <= offs[n + 1]
     /\ offs[n + 1] <= HeaderCells + n * (BlobHeader + MaxBytes)

Finished == {list \in Seq(Records) : \A i \in 1 .. Len(list) : Len(list[i].data) <= MaxBytes}

(* The header and the table of a closed container.                           *)
Complete(cells, list, offs) ==
  LET n == Len(list)
      end == offs[n + 1]
  IN /\ end + n <= Len(cells)
     /\ cells[3] = Num(n) /\ cells[4] = Num(end)
     /\ \A i \in 1 .. n : cells[end + i] = Num(offs[i])

KnowsOffsets(offs) ==
  /\ totalBlobs = Len(written)
  /\ IsText(toc) /\ Len(toc) = Len(written)
  /\ \A i \in 1 .. Len(written) : toc[i] = offs[i]

(* The blob that is being written.                                           *)
OpenBlob(offs) ==
  LET b == open[1]
  IN /\ Len(written) < MaxBlobs /\ open = <<b>> /\ b \in Records
     /\ startOffset = offs[Len(written) + 1]
     /\ bytesWritten \in 0 .. MaxBytes /\ Len(b.data) = bytesWritten
     /\ hashed = Data(b.data)
     /\ stream.pos = startOffset + BlobHeader + bytesWritten
     /\ stream.cells[startOffset + 3] = Num(0) /\ stream.cells[startOffset + 4] = Num(b.id)
     /\ HasData(damaged, stream.cells, startOffset + BlobHeader, b.data)

WriteInv(offs) ==
  needsUpdate =>
    /\ KnowsOffsets(offs) /\ wroteHeader /\ atClose = <<>>
    /\ writing => OpenBlob(offs)
    /\ ~writing => open = <<>> /\ stream.pos = offs[Len(written) + 1]

ClosedInv(offs) ==
  ~needsUpdate =>
    /\ ~writing /\ open = <<>>
    /\ atClose = <<>> => stream.cells = <<>> /\ written = <<>> /\ ~wroteHeader
    /\ atClose # <<>> => Complete(stream.cells, written, offs)

(* The blob that is being read.                                              *)
ReadBlob(offs) ==
  LET b == written[curBlob + 1]
  IN /\ curBlob < Len(written) /\ verified = <<>>
     /\ blobSize = Len(b.data) /\ blobMD5 = Digest(Data(b.data)) /\ gotId = b.id
     /\ bytesRead \in 0 .. blobSize
     /\ stream.pos = offs[curBlob + 1] + BlobHeader + bytesRead
     /\ IsText(delivered) /\ Len(delivered) = bytesRead
     /\ damaged \/ \A j \in 1 .. bytesRead : delivered[j] = b.data[j]
     /\ ignore \/ /\ IsText(hashed) /\ Len(hashed) = bytesRead
                  /\ \A j \in 1 .. bytesRead : hashed[j] = Byte(delivered[j])

Sizes(list) == {Len(list[i].data) : i \in 1 .. Len(list)}

ReadInv(offs) ==
  /\ readHeader =>
       /\ KnowsOffsets(offs) /\ curBlob \in 0 .. Len(written)
       /\ maxBlob = Max({0} \cup Sizes(written))
       /\ reading => ReadBlob(offs)
       /\ ~reading /\ curBlob < Len(written) /\ verified = <<>>
            => stream.pos = offs[curBlob + 1]
       /\ verified # <<>> => ~reading /\ stream.pos = Len(stream.cells)
  /\ ~readHeader => ~reading /\ maxBlob = 0 /\ verified = <<>>
  /\ ~readHeader /\ ~wroteHeader => curBlob = 0 /\ totalBlobs = 0 /\ toc = <<>>

FileInv(offs) ==
  /\ stream.pos \in 0 .. Len(stream.cells)
  /\ written \in Finished /\ Len(written) <= MaxBlobs
  /\ Layout(damaged, stream.cells, written, offs)
  /\ WriteInv(offs) /\ ClosedInv(offs) /\ ReadInv(offs)

(* Where the list is laid out.                                               *)
LEMMA LayoutEnd ==
  ASSUME NEW hurt, NEW cells, NEW list \in Finished, NEW offs, Layout(hurt, cells, list, offs)
  PROVE  /\ list \in Seq(Records) /\ Len(list) \in Nat /\ DOMAIN list = 1 .. Len(list)
         /\ offs[Len(list) + 1] \in Nat /\ HeaderCells <= offs[Len(list) + 1]
<1>1. list \in Seq(Records) /\ Len(list) \in Nat /\ DOMAIN list = 1 .. Len(list)
  BY DEF Finished
<1>2. Len(list) + 1 \in 1 .. Len(list) + 1
  BY <1>1
<1> QED BY <1>1, <1>2 DEF Layout

LEMMA LayoutAt ==
  ASSUME NEW hurt, NEW cells, NEW list \in Finished, NEW offs, Layout(hurt, cells, list, offs),
         NEW i \in 1 .. Len(list)
  PROVE  /\ offs[i] \in Nat /\ HeaderCells <= offs[i]
         /\ list[i] \in Records /\ Len(list[i].data) \in 0 .. MaxBytes
         /\ offs[i + 1] = offs[i] + BlobHeader + Len(list[i].data)
         /\ offs[i] + BlobHeader + Len(list[i].data) <= offs[Len(list) + 1]
         /\ HasBlob(hurt, cells, offs[i], list[i])
<1>1. list \in Seq(Records) /\ Len(list) \in Nat
  BY DEF Finished
<1>2. i \in 1 .. Len(list) + 1
  BY <1>1
<1>3. /\ offs[i] \in Nat /\ HeaderCells <= offs[i]
      /\ offs[i + 1] = offs[i] + BlobHeader + Len(list[i].data)
      /\ offs[i + 1] <= offs[Len(list) + 1]
      /\ HasBlob(hurt, cells, offs[i], list[i])
  BY <1>2 DEF Layout
<1>4. list[i] \in Records
  BY <1>1
<1>5. Len(list[i].data) \in Nat /\ Len(list[i].data) <= MaxBytes
  BY <1>4 DEF Records, Finished
<1>6. MaxBytes \in Nat
  BY ContainerAssumption
<1> QED BY <1>3, <1>4, <1>5, <1>6

LEMMA BlobKept ==
  ASSUME NEW hurt, NEW cells, NEW r, NEW p \in Nat, NEW b \in Records,
         HasBlob(hurt, cells, p, b),
         \A i \in p + 1 .. p + BlobHeader + Len(b.data) : r[i] = cells[i]
  PROVE  HasBlob(hurt, r, p, b)
<1>1. Len(b.data) \in Nat
  BY DEF Records
<1>2. /\ r[p + 1] = cells[p + 1] /\ r[p + 2] = cells[p + 2]
      /\ r[p + 3] = cells[p + 3] /\ r[p + 4] = cells[p + 4]
  BY <1>1
<1>3. ASSUME NEW j \in 1 .. Len(b.data)
      PROVE  r[p + BlobHeader + j] = cells[p + BlobHeader + j]
  <2>1. p + BlobHeader + j \in p + 1 .. p + BlobHeader + Len(b.data)
    BY <1>1
  <2> QED BY <2>1
<1>4. HasData(hurt, r, p + BlobHeader, b.data)
  BY <1>3, Zenon DEF HasBlob, HasData
<1> QED BY <1>2, <1>4 DEF HasBlob

LEMMA LayoutKept ==
  ASSUME NEW hurt, NEW cells, NEW list \in Finished, NEW offs, Layout(hurt, cells, list, offs),
         NEW r, \A p \in HeaderCells + 1 .. offs[Len(list) + 1] : r[p] = cells[p]
  PROVE  Layout(hurt, r, list, offs)
<1>1. ASSUME NEW i \in 1 .. Len(list) PROVE HasBlob(hurt, r, offs[i], list[i])
  <2>1. /\ offs[i] \in Nat /\ HeaderCells <= offs[i] /\ list[i] \in Records
        /\ offs[Len(list) + 1] \in Nat /\ Len(list[i].data) \in Nat
        /\ offs[i] + BlobHeader + Len(list[i].data) <= offs[Len(list) + 1]
        /\ HasBlob(hurt, cells, offs[i], list[i])
    BY LayoutAt, LayoutEnd
  <2>3. \A p \in offs[i] + 1 .. offs[i] + BlobHeader + Len(list[i].data) : r[p] = cells[p]
    BY <2>1
  <2> QED BY <2>1, <2>3, BlobKept
<1> QED BY <1>1, Zenon DEF Layout

LEMMA Inside ==
  ASSUME NEW p \in Nat, NEW size \in Nat, NEW end \in Nat, HeaderCells <= p,
         p + BlobHeader + size <= end
  PROVE  /\ p + 1 \in HeaderCells + 1 .. end /\ p + 2 \in HeaderCells + 1 .. end
         /\ p + 3 \in HeaderCells + 1 .. end /\ p + 4 \in HeaderCells + 1 .. end
         /\ \A j \in 1 .. size : p + BlobHeader + j \in HeaderCells + 1 .. end
OBVIOUS

LEMMA LayoutHurt ==
  ASSUME NEW hurt, NEW cells, NEW list \in Finished, NEW offs, Layout(hurt, cells, list, offs),
         NEW r, \A p \in HeaderCells + 1 .. offs[Len(list) + 1] :
                  /\ IsByte(cells[p]) => IsByte(r[p])
                  /\ cells[p][1] # "byte" => r[p] = cells[p]
  PROVE  Layout(TRUE, r, list, offs)
<1>1. ASSUME NEW i \in 1 .. Len(list) PROVE HasBlob(TRUE, r, offs[i], list[i])
  <2> DEFINE p == offs[i]
             d == list[i].data
  <2>1. /\ p \in Nat /\ HeaderCells <= p
        /\ offs[Len(list) + 1] \in Nat /\ Len(d) \in Nat
        /\ p + BlobHeader + Len(d) <= offs[Len(list) + 1]
        /\ HasBlob(hurt, cells, p, list[i])
    <3>1. /\ offs[i] \in Nat /\ HeaderCells <= offs[i] /\ list[i] \in Records
          /\ Len(list[i].data) \in 0 .. MaxBytes
          /\ offs[i] + BlobHeader + Len(list[i].data) <= offs[Len(list) + 1]
          /\ HasBlob(hurt, cells, offs[i], list[i])
      BY LayoutAt, Zenon
    <3>2. offs[Len(list) + 1] \in Nat
      BY LayoutEnd
    <3> QED BY <3>1, <3>2
  <2>2. HasBlob(hurt, cells, p, list[i])
    BY <2>1
  <2> HIDE DEF p
  <2>e. /\ p + 1 \in HeaderCells + 1 .. offs[Len(list) + 1]
        /\ p + 2 \in HeaderCells + 1 .. offs[Len(list) + 1]
        /\ p + 3 \in HeaderCells + 1 .. offs[Len(list) + 1]
        /\ p + 4 \in HeaderCells + 1 .. offs[Len(list) + 1]
        /\ \A j \in 1 .. Len(d) : p + BlobHeader + j \in HeaderCells + 1 .. offs[Len(list) + 1]
    <3> HIDE DEF d
    <3> QED BY <2>1, Inside, Zenon
  <2>3. ASSUME NEW x PROVE Num(x)[1] # "byte" /\ Digest(x)[1] # "byte"
    BY DEF Num, Digest
  <2>4. /\ r[p + 1] = cells[p + 1] /\ r[p + 2] = cells[p + 2]
        /\ r[p + 3] = cells[p + 3] /\ r[p + 4] = cells[p + 4]
    <3>2. /\ cells[p + 1][1] # "byte" /\ cells[p + 2][1] # "byte"
          /\ cells[p + 3][1] # "byte" /\ cells[p + 4][1] # "byte"
      BY <2>2, <2>3, Zenon DEF HasBlob
    <3> QED BY <2>e, <3>2, Zenon
  <2>5. ASSUME NEW j \in 1 .. Len(d) PROVE IsByte(r[p + BlobHeader + j])
    <3>1. p + BlobHeader + j \in HeaderCells + 1 .. offs[Len(list) + 1]
      BY <2>e
    <3>2. IsByte(cells[p + BlobHeader + j])
      BY <2>2 DEF HasBlob, HasData
    <3> QED BY <3>1, <3>2, Zenon
  <2> QED BY <2>2, <2>4, <2>5 DEF HasBlob, HasData, p
<1> QED BY <1>1, Zenon DEF Layout

LEMMA JoinedOne ==
  ASSUME NEW S, NEW list \in Seq(S), NEW b \in S
  PROVE  /\ list \o <<b>> \in Seq(S) /\ Len(list \o <<b>>) = Len(list) + 1
         /\ (list \o <<b>>)[Len(list) + 1] = b
         /\ \A i \in 1 .. Len(list) : (list \o <<b>>)[i] = list[i]
<1>1. Len(list) \in Nat /\ <<b>> \in Seq(S) /\ Len(<<b>>) = 1 /\ <<b>>[1] = b
  OBVIOUS
<1>2. /\ list \o <<b>> \in Seq(S) /\ Len(list \o <<b>>) = Len(list) + Len(<<b>>)
      /\ \A i \in 1 .. Len(list) + Len(<<b>>) :
           (list \o <<b>>)[i] = IF i <= Len(list) THEN list[i] ELSE <<b>>[i - Len(list)]
  BY <1>1, ConcatProperties
<1> QED BY <1>1, <1>2

Added(list, offs, b) ==
  [i \in 1 .. Len(list) + 2 |->
     IF i <= Len(list) + 1 THEN offs[i] ELSE offs[Len(list) + 1] + BlobHeader + Len(b.data)]

LEMMA LayoutAdded ==
  ASSUME NEW hurt, NEW cells, NEW list \in Finished, NEW offs, Layout(hurt, cells, list, offs),
         NEW b \in Records, Len(b.data) <= MaxBytes,
         HasBlob(hurt, cells, offs[Len(list) + 1], b)
  PROVE  /\ list \o <<b>> \in Finished
         /\ Layout(hurt, cells, list \o <<b>>, Added(list, offs, b))
<1> DEFINE n == Len(list)
           l == list \o <<b>>
           o == Added(list, offs, b)
<1>1. /\ n \in Nat /\ offs[n + 1] \in Nat /\ HeaderCells <= offs[n + 1]
      /\ Len(b.data) \in Nat /\ MaxBytes \in Nat /\ list \in Seq(Records)
  <2>1. b.data \in Seq(Bytes)
    BY DEF Records
  <2> QED BY <2>1, LayoutEnd, ContainerAssumption
<1>2. /\ l \in Seq(Records) /\ Len(l) = n + 1 /\ l[n + 1] = b
      /\ \A i \in 1 .. n : l[i] = list[i]
  BY <1>1, JoinedOne
<1>3. l \in Finished
  <2>1. ASSUME NEW i \in 1 .. n + 1 PROVE Len(l[i].data) <= MaxBytes
    <3>1. i = n + 1 \/ i \in 1 .. n
      BY <1>1
    <3>2. \A k \in 1 .. n : Len(list[k].data) <= MaxBytes
      BY DEF Finished
    <3> HIDE DEF l
    <3> QED BY <1>2, <3>1, <3>2
  <2> HIDE DEF l
  <2> QED BY <1>2, <2>1 DEF Finished
<1>4. /\ \A i \in 1 .. n + 1 : o[i] = offs[i]
      /\ o[n + 2] = offs[n + 1] + BlobHeader + Len(b.data)
  BY <1>1 DEF Added
<1>5. o \in [1 .. (n + 1) + 1 -> Nat]
  <2>1. (n + 1) + 1 = n + 2
    BY <1>1
  <2>2. \A i \in 1 .. n + 1 : offs[i] \in Nat
    BY DEF Layout
  <2>3. o = [i \in 1 .. n + 2 |-> IF i <= n + 1 THEN offs[i]
                                  ELSE offs[n + 1] + BlobHeader + Len(b.data)]
    BY DEF Added
  <2> QED BY <1>1, <2>1, <2>2, <2>3
<1> HIDE DEF l, o
<1>6. o[1] = HeaderCells
  BY <1>1, <1>4 DEF Layout
<1>7. ASSUME NEW i \in 1 .. n
      PROVE  /\ o[i + 1] = o[i] + BlobHeader + Len(l[i].data)
             /\ HeaderCells <= o[i] /\ o[i + 1] <= o[n + 2]
             /\ HasBlob(hurt, cells, o[i], l[i])
  <2>1. i \in 1 .. n + 1 /\ i + 1 \in 1 .. n + 1
    BY <1>1
  <2>2. o[i] = offs[i] /\ o[i + 1] = offs[i + 1] /\ l[i] = list[i]
    BY <1>2, <1>4, <2>1
  <2>3. /\ offs[i + 1] = offs[i] + BlobHeader + Len(list[i].data)
        /\ HeaderCells <= offs[i] /\ offs[i + 1] <= offs[n + 1]
        /\ HasBlob(hurt, cells, offs[i], list[i]) /\ offs[i + 1] \in Nat
    BY <2>1 DEF Layout
  <2>4. offs[i + 1] <= o[n + 2]
    BY <1>1, <1>4, <2>3
  <2> QED BY <2>2, <2>3, <2>4
<1>8. /\ o[n + 1 + 1] = o[n + 1] + BlobHeader + Len(l[n + 1].data)
      /\ HeaderCells <= o[n + 1] /\ o[n + 1 + 1] <= o[n + 2]
      /\ HasBlob(hurt, cells, o[n + 1], l[n + 1])
  <2>1. n + 1 \in 1 .. n + 1 /\ n + 1 + 1 = n + 2
    BY <1>1
  <2>2. o[n + 1] = offs[n + 1]
    BY <1>4, <2>1
  <2>3. o[n + 2] \in Nat
    BY <1>1, <1>4
  <2> QED BY <1>1, <1>2, <1>4, <2>1, <2>2, <2>3
<1>9. o[n + 2] <= HeaderCells + (n + 1) * (BlobHeader + MaxBytes)
  <2>1. offs[n + 1] <= HeaderCells + n * (BlobHeader + MaxBytes)
    BY DEF Layout
  <2>2. (n + 1) * (BlobHeader + MaxBytes) = n * (BlobHeader + MaxBytes) + BlobHeader + MaxBytes
    BY <1>1
  <2>3. n * (BlobHeader + MaxBytes) \in Nat
    BY <1>1
  <2> QED BY <1>1, <1>4, <2>1, <2>2, <2>3
<1>10. \A i \in 1 .. n + 1 :
         /\ o[i + 1] = o[i] + BlobHeader + Len(l[i].data)
         /\ HeaderCells <= o[i] /\ o[i + 1] <= o[(n + 1) + 1]
         /\ HasBlob(hurt, cells, o[i], l[i])
  <2> SUFFICES ASSUME NEW i \in 1 .. n + 1
               PROVE  /\ o[i + 1] = o[i] + BlobHeader + Len(l[i].data)
                      /\ HeaderCells <= o[i] /\ o[i + 1] <= o[(n + 1) + 1]
                      /\ HasBlob(hurt, cells, o[i], l[i])
    OBVIOUS
  <2>1. (n + 1) + 1 = n + 2 /\ (i \in 1 .. n \/ i = n + 1)
    BY <1>1
  <2> QED BY <1>7, <1>8, <2>1
<1>11. HeaderCells <= o[(n + 1) + 1]
  BY <1>1, <1>4
<1>12. (n + 1) + 1 = n + 2
  BY <1>1
<1>13. Layout(hurt, cells, l, o)
  BY <1>2, <1>5, <1>6, <1>9, <1>10, <1>11, <1>12 DEF Layout
<1> QED BY <1>3, <1>13 DEF l, o

(* There is room for the table, and before that for another blob.            *)
LEMMA Room ==
  ASSUME Roomy, NEW hurt, NEW cells, NEW list \in Finished, NEW offs,
         Layout(hurt, cells, list, offs), Len(list) <= MaxBlobs
  PROVE  /\ offs[Len(list) + 1] + Len(list) <= Capacity
         /\ Len(list) < MaxBlobs =>
              offs[Len(list) + 1] + BlobHeader + MaxBytes + Len(list) + 1 <= Capacity
<1> DEFINE n == Len(list)
           K == BlobHeader + MaxBytes + 1
<1>1. /\ n \in Nat /\ offs[n + 1] \in Nat /\ MaxBlobs \in Nat /\ MaxBytes \in Nat
      /\ Capacity \in Nat /\ n <= MaxBlobs
  BY LayoutEnd, ContainerAssumption, StreamAssumption
<1>2. offs[n + 1] <= HeaderCells + n * (BlobHeader + MaxBytes)
  BY DEF Layout
<1>3. HeaderCells + MaxBlobs * K <= Capacity
  BY DEF Roomy
<1> HIDE DEF n
<1>4. n * (BlobHeader + MaxBytes) + n = n * K
  BY <1>1
<1>5. (n + 1) * K = n * K + K
  BY <1>1
<1>6. PICK m \in Nat : MaxBlobs = n + m
  <2>1. MaxBlobs - n \in Nat /\ MaxBlobs = n + (MaxBlobs - n)
    BY <1>1
  <2> QED BY <2>1
<1>7. MaxBlobs * K = n * K + m * K
  BY <1>1, <1>6
<1>8. m * K \in Nat /\ n * K \in Nat /\ K \in Nat /\ n * (BlobHeader + MaxBytes) \in Nat
  BY <1>1, <1>6
<1>9. n < MaxBlobs => m * K >= K
  <2>1. ASSUME n < MaxBlobs PROVE m * K >= K
    <3>1. PICK l \in Nat : m = l + 1
      <4>1. m - 1 \in Nat /\ m = (m - 1) + 1
        BY <1>1, <1>6, <2>1
      <4> QED BY <4>1
    <3>2. m * K = l * K + K /\ l * K \in Nat
      BY <1>8, <3>1
    <3> QED BY <1>8, <3>2
  <2> QED BY <2>1
<1> HIDE DEF K
<1>10. offs[n + 1] + n <= HeaderCells + n * K
  BY <1>1, <1>2, <1>4, <1>8
<1>11. HeaderCells + n * K + m * K <= Capacity
  BY <1>3, <1>7, <1>8
<1>12. K = BlobHeader + MaxBytes + 1
  BY DEF K
<1>13. offs[n + 1] + n <= Capacity
  BY <1>1, <1>8, <1>10, <1>11
<1>14. n < MaxBlobs => offs[n + 1] + n + K <= Capacity
  BY <1>1, <1>8, <1>9, <1>10, <1>11
<1>15. n < MaxBlobs => offs[n + 1] + BlobHeader + MaxBytes + n + 1 <= Capacity
  BY <1>1, <1>12, <1>14
<1> QED BY <1>13, <1>15 DEF n

-----------------------------------------------------------------------------
(* The file is not changed by reading                                        *)

LEMMA NoText == <<>> \in Seq({}) /\ IsText(<<>>) /\ Len(<<>>) = 0
<1>1. <<>> \in Seq({})
  OBVIOUS
<1> QED BY <1>1 DEF IsText

NoBlobs == [i \in 1 .. 1 |-> HeaderCells]

LEMMA LayoutEmpty ==
  ASSUME NEW hurt, NEW cells
  PROVE  <<>> \in Finished /\ Layout(hurt, cells, <<>>, NoBlobs)
<1>1. Len(<<>>) = 0 /\ <<>> \in Seq(Records)
  OBVIOUS
<1>2. <<>> \in Finished
  BY <1>1 DEF Finished
<1>3. /\ NoBlobs \in [1 .. 0 + 1 -> Nat] /\ NoBlobs[1] = 4 /\ NoBlobs[0 + 1] = 4
  BY DEF NoBlobs
<1>4. 4 <= HeaderCells + 0 * (BlobHeader + MaxBytes)
  BY ContainerAssumption
<1> QED BY <1>1, <1>2, <1>3, <1>4 DEF Layout

LEMMA FileInit == Init => FileInv(NoBlobs)
<1> SUFFICES ASSUME Init PROVE FileInv(NoBlobs)
  OBVIOUS
<1>1. /\ stream.cells = <<>> /\ stream.pos = 0 /\ Len(<<>>) = 0
  BY DEF Init, EmptyStream
<1>2. written \in Finished /\ Len(written) = 0 /\ Layout(damaged, stream.cells, written, NoBlobs)
  BY LayoutEmpty DEF Init
<1>3. WriteInv(NoBlobs) /\ ClosedInv(NoBlobs) /\ ReadInv(NoBlobs)
  BY <1>1 DEF Init, WriteInv, ClosedInv, ReadInv
<1> QED BY <1>1, <1>2, <1>3, ContainerAssumption DEF FileInv

LEMMA FileRead ==
  ASSUME NEW offs, FileInv(offs), ~needsUpdate,
         stream'.cells = stream.cells, stream'.pos \in 0 .. Len(stream.cells),
         UNCHANGED <<needsUpdate, wroteHeader, writing, written, open, damaged, atClose>>,
         ReadInv(offs)'
  PROVE  FileInv(offs)'
<1>1. /\ written' \in Finished /\ Len(written') <= MaxBlobs
      /\ Layout(damaged, stream.cells, written, offs)'
  BY DEF FileInv
<1>2. WriteInv(offs)' /\ ClosedInv(offs)'
  BY DEF FileInv, WriteInv, ClosedInv
<1> QED BY <1>1, <1>2 DEF FileInv

(* What an object may rely on that has read the header.                      *)
LEMMA ReaderMeans ==
  ASSUME SumInv, NEW offs, FileInv(offs), readHeader
  PROVE  /\ ~needsUpdate /\ ~wroteHeader /\ ~writing /\ atClose # <<>>
         /\ Complete(stream.cells, written, offs)
         /\ IsStream(stream) /\ stream.pos <= Len(stream.cells)
         /\ Len(stream.cells) \in Nat /\ offs[Len(written) + 1] <= Len(stream.cells)
<1>1. ~needsUpdate /\ ~wroteHeader /\ atClose # <<>> /\ ~writing
  BY DEF SumInv, WriterInv
<1>2. Complete(stream.cells, written, offs)
  BY <1>1 DEF FileInv, ClosedInv
<1>3. IsStream(stream) /\ stream.pos <= Len(stream.cells) /\ Len(stream.cells) \in Nat
  BY TextMeans DEF SumInv, FileInv, IsStream
<1>4. offs[Len(written) + 1] \in Nat /\ Len(written) \in Nat
  BY LayoutEnd DEF FileInv
<1>5. offs[Len(written) + 1] <= Len(stream.cells)
  BY <1>2, <1>3, <1>4 DEF Complete
<1> QED BY <1>1, <1>2, <1>3, <1>5

LEMMA FileJump ==
  ASSUME SumInv, NEW offs, FileInv(offs), NEW i \in 0 .. MaxBlobs - 1, JumpToBlob(i)
  PROVE  FileInv(offs)'
<1>1. /\ readHeader /\ ~reading /\ i < totalBlobs /\ stream' = At(stream, toc[i + 1])
      /\ curBlob' = i /\ verified' = <<>>
      /\ UNCHANGED <<headerVars, writeVars, readVars, startOffset, hashed, store, seen>>
  BY DEF JumpToBlob
<1>2. /\ KnowsOffsets(offs) /\ maxBlob = Max({0} \cup Sizes(written))
  BY <1>1 DEF FileInv, ReadInv
<1>3. i + 1 \in 1 .. Len(written) /\ Len(written) \in Nat /\ i \in 0 .. Len(written)
  BY <1>1, <1>2, LayoutEnd, ContainerAssumption DEF KnowsOffsets, FileInv
<1>4. toc[i + 1] = offs[i + 1]
  BY <1>2, <1>3 DEF KnowsOffsets
<1>5. offs[i + 1] \in Nat /\ offs[i + 1] <= offs[Len(written) + 1]
  <2>1. /\ offs[i + 1] \in Nat /\ Len(written[i + 1].data) \in 0 .. MaxBytes
        /\ offs[i + 1] + BlobHeader + Len(written[i + 1].data) <= offs[Len(written) + 1]
    BY <1>3, LayoutAt DEF FileInv
  <2>2. MaxBytes \in Nat /\ offs[Len(written) + 1] \in Nat
    BY LayoutEnd, ContainerAssumption DEF FileInv
  <2> QED BY <2>1, <2>2
<1>6. stream' = [cells |-> stream.cells, pos |-> offs[i + 1]]
  <2>1. stream = [cells |-> stream.cells, pos |-> stream.pos]
    BY DEF SumInv
  <2> QED BY <1>1, <1>4, <1>5, <2>1, AtMeans
<1>7. stream'.cells = stream.cells /\ stream'.pos = offs[i + 1]
      /\ stream'.pos \in 0 .. Len(stream.cells)
  <2>1. offs[Len(written) + 1] \in Nat
    BY LayoutEnd DEF FileInv
  <2> QED BY <1>1, <1>5, <1>6, <2>1, ReaderMeans
<1>8. UNCHANGED <<readHeader, wroteHeader, needsUpdate, totalBlobs, toc, maxBlob, reading,
                  writing, written, open, damaged, atClose>>
  BY <1>1 DEF headerVars, writeVars, readVars, store
<1>9. KnowsOffsets(offs)'
  BY <1>2, <1>8 DEF KnowsOffsets
<1>10. ReadInv(offs)'
  BY <1>1, <1>2, <1>3, <1>7, <1>8, <1>9 DEF ReadInv
<1> QED BY <1>1, <1>7, <1>8, <1>10, ReaderMeans, FileRead

LEMMA FileVerify ==
  ASSUME SumInv, NEW offs, FileInv(offs), VerifyContainer
  PROVE  FileInv(offs)'
<1>1. /\ readHeader /\ ~reading /\ stream' = AfterSeek(stream, 0, "END")
      /\ verified' # <<>>
      /\ UNCHANGED <<headerVars, writeVars, readVars, startOffset, hashed, curBlob, store, seen>>
  BY DEF VerifyContainer
<1>2. /\ KnowsOffsets(offs) /\ maxBlob = Max({0} \cup Sizes(written))
      /\ curBlob \in 0 .. Len(written)
  BY <1>1 DEF FileInv, ReadInv
<1>3. stream'.cells = stream.cells /\ stream'.pos = Len(stream.cells)
      /\ stream'.pos \in 0 .. Len(stream.cells)
  BY <1>1, ReaderMeans DEF AfterSeek, CanReach, Origin, IsStream
<1>8. UNCHANGED <<readHeader, wroteHeader, needsUpdate, totalBlobs, toc, maxBlob, reading,
                  writing, written, open, damaged, atClose, curBlob>>
  BY <1>1 DEF headerVars, writeVars, readVars, store
<1>9. KnowsOffsets(offs)'
  BY <1>2, <1>8 DEF KnowsOffsets
<1>10. ReadInv(offs)'
  BY <1>1, <1>2, <1>3, <1>8, <1>9 DEF ReadInv
<1> QED BY <1>1, <1>3, <1>8, <1>10, ReaderMeans, FileRead

LEMMA FileEndRead ==
  ASSUME SumInv, NEW offs, FileInv(offs), EndReadBlob
  PROVE  FileInv(offs)'
<1>1. /\ reading /\ bytesRead = blobSize /\ reading' = FALSE /\ curBlob' = curBlob + 1
      /\ UNCHANGED <<stream, headerVars, writeVars, store, verified>>
  BY DEF EndReadBlob
<1>2. /\ readHeader /\ KnowsOffsets(offs) /\ maxBlob = Max({0} \cup Sizes(written))
      /\ curBlob \in 0 .. Len(written) /\ ReadBlob(offs)
  BY <1>1 DEF FileInv, ReadInv
<1>3. /\ curBlob < Len(written) /\ verified = <<>>
      /\ stream.pos = offs[curBlob + 1] + BlobHeader + Len(written[curBlob + 1].data)
  BY <1>1, <1>2 DEF ReadBlob
<1>4. Len(written) \in Nat /\ curBlob + 1 \in 1 .. Len(written)
      /\ curBlob + 1 \in 0 .. Len(written)
  BY <1>2, <1>3, LayoutEnd DEF FileInv
<1>5. offs[(curBlob + 1) + 1] = offs[curBlob + 1] + BlobHeader + Len(written[curBlob + 1].data)
  BY <1>4, LayoutAt DEF FileInv
<1>8. UNCHANGED <<stream, readHeader, wroteHeader, needsUpdate, totalBlobs, toc, maxBlob,
                  writing, written, open, damaged, atClose, verified>>
  BY <1>1 DEF headerVars, writeVars, store
<1>9. KnowsOffsets(offs)'
  BY <1>2, <1>8 DEF KnowsOffsets
<1>10. ReadInv(offs)'
  BY <1>1, <1>2, <1>3, <1>4, <1>5, <1>8, <1>9 DEF ReadInv
<1> QED BY <1>2, <1>8, <1>10, ReaderMeans, FileRead DEF FileInv

(* What ReadHeader computes from the table.                                  *)
LEMMA SizesAre ==
  ASSUME NEW hurt, NEW cells, NEW list \in Finished, NEW offs, Layout(hurt, cells, list, offs),
         NEW t, Len(t) = Len(list), \A i \in 1 .. Len(list) : t[i] = offs[i]
  PROVE  SizesOf(t, offs[Len(list) + 1]) = Sizes(list)
<1> DEFINE n == Len(list)
           end == offs[n + 1]
<1>1. n \in Nat
  BY LayoutEnd
<1>2. ASSUME NEW i \in 1 .. n PROVE Len(list[i].data) = offs[i + 1] - offs[i] - BlobHeader
  BY LayoutAt
<1>3. ASSUME NEW i \in 1 .. n - 1
      PROVE  t[i + 1] - t[i] - BlobHeader = Len(list[i].data)
  <2>1. i \in 1 .. n /\ i + 1 \in 1 .. n
    BY <1>1
  <2>2. t[i] = offs[i] /\ t[i + 1] = offs[i + 1]
    BY <2>1
  <2> QED BY <1>2, <2>1, <2>2
<1>4. n > 0 => n \in 1 .. n /\ end - t[n] - BlobHeader = Len(list[n].data)
  <2>1. ASSUME n > 0 PROVE n \in 1 .. n /\ end - t[n] - BlobHeader = Len(list[n].data)
    <3>1. n \in 1 .. n
      BY <1>1, <2>1
    <3>2. t[n] = offs[n]
      BY <3>1
    <3> QED BY <1>2, <3>1, <3>2
  <2> QED BY <2>1
<1>5. SizesOf(t, end) = {t[i + 1] - t[i] - BlobHeader : i \in 1 .. n - 1}
                          \cup {end - t[i] - BlobHeader : i \in {n} \ {0}}
  BY DEF SizesOf
<1> HIDE DEF end, n
<1>6. ASSUME NEW x \in SizesOf(t, end) PROVE x \in {Len(list[i].data) : i \in 1 .. n}
  <2>1. CASE \E i \in 1 .. n - 1 : x = t[i + 1] - t[i] - BlobHeader
    <3>1. PICK i \in 1 .. n - 1 : x = t[i + 1] - t[i] - BlobHeader
      BY <2>1
    <3>2. i \in 1 .. n
      BY <1>1
    <3> QED BY <1>3, <3>1, <3>2
  <2>2. CASE n # 0 /\ x = end - t[n] - BlobHeader
    BY <1>1, <1>4, <2>2
  <2> QED BY <1>5, <1>6, <2>1, <2>2
<1>7. ASSUME NEW i \in 1 .. n PROVE Len(list[i].data) \in SizesOf(t, end)
  <2>1. CASE i \in 1 .. n - 1
    BY <1>3, <1>5, <2>1
  <2>2. CASE i = n /\ n # 0
    BY <1>1, <1>4, <1>5, <2>2
  <2> QED BY <1>1, <2>1, <2>2
<1> QED BY <1>6, <1>7 DEF Sizes, n, end

LEMMA FileReadHeader ==
  ASSUME SumInv, NEW offs, FileInv(offs), ReadHeader
  PROVE  FileInv(offs)'
<1> DEFINE s == At(stream, 0)
           head == ReadFrom(s, HeaderCells)
           n == Len(written)
           end == offs[n + 1]
<1>1. s = [cells |-> stream.cells, pos |-> 0]
  BY AtMeans DEF SumInv
<1>2. IsText(stream.cells) /\ Len(stream.cells) \in Nat
  BY TextMeans DEF SumInv
<1>3. IsStream(s) /\ s.pos = 0 /\ s.cells = stream.cells /\ s.pos <= Len(s.cells)
  BY <1>1, <1>2 DEF IsStream
<1>4. /\ ~wroteHeader /\ ~readHeader
      /\ UNCHANGED <<wroteHeader, needsUpdate, writing, atClose, reading, verified, written,
                     open, damaged, curBlob>>
  BY DEF ReadHeader, writeVars, readVars, store
<1>5. /\ ~needsUpdate /\ ~reading /\ maxBlob = 0 /\ verified = <<>> /\ curBlob = 0
      /\ Len(stream.cells) >= HeaderCells => atClose # <<>>
  BY <1>2, <1>4 DEF SumInv, WriterInv, FileInv, ReadInv
<1>r. /\ Len(head) = Fewer(4, Len(s.cells) - s.pos)
      /\ \A i \in 1 .. Fewer(4, Len(s.cells) - s.pos) : head[i] = s.cells[s.pos + i]
      /\ AfterRead(s, 4) = [cells |-> s.cells, pos |-> s.pos + Fewer(4, Len(s.cells) - s.pos)]
  <2> HIDE DEF s
  <2> QED BY <1>3, ReadMeans
<1>6. CASE Len(head) = HeaderCells /\ head[1] = Version
  <2> HIDE DEF s
  <2>1. Fewer(4, Len(s.cells) - s.pos) = 4
    BY <1>6, <1>r
  <2>2. Len(stream.cells) >= 4 /\ atClose # <<>>
    <3>1. Fewer(4, Len(stream.cells) - 0) = 4
      BY <1>3, <2>1, Zenon
    <3>2. Len(stream.cells) >= 4
      BY <1>2, <3>1 DEF Fewer
    <3> QED BY <1>5, <3>2
  <2>3. head[3] = stream.cells[3] /\ head[4] = stream.cells[4]
    <3>1. 3 \in 1 .. 4 /\ 0 + 3 = 3 /\ 4 \in 1 .. 4 /\ 0 + 4 = 4
      OBVIOUS
    <3> QED BY <1>3, <1>r, <2>1, <3>1, Zenon
  <2>4. Complete(stream.cells, written, offs)
    BY <1>5, <2>2 DEF FileInv, ClosedInv
  <2>5. head[3][2] = n /\ head[4][2] = end
    BY <2>3, <2>4 DEF Complete, Num
  <2>6. /\ n \in Nat /\ end \in Nat /\ written \in Finished
        /\ Layout(damaged, stream.cells, written, offs)
    BY LayoutEnd DEF FileInv
  <2> DEFINE t == [i \in 1 .. n |-> EntryRead(end, i)]
  <2>7. /\ stream' = At(stream, HeaderCells) /\ readHeader' = TRUE /\ totalBlobs' = n
        /\ toc' = t /\ maxBlob' = Max({0} \cup SizesOf(t, end))
    BY <1>5, <1>6, <2>5 DEF ReadHeader, s
  <2> HIDE DEF head
  <2>8. ASSUME NEW i \in 1 .. n PROVE EntryRead(end, i) = offs[i]
    <3>1. i > 0 /\ Fewer(i, Len(stream.cells) - end) = i
      BY <1>2, <2>4, <2>6 DEF Complete, Fewer
    <3>2. EntryRead(end, i) = stream.cells[end + i][2]
      BY <3>1 DEF EntryRead
    <3>3. stream.cells[end + i] = Num(offs[i])
      BY <2>4 DEF Complete
    <3> QED BY <3>2, <3>3 DEF Num
  <2>9. t \in Seq({offs[i] : i \in 1 .. n}) /\ Len(t) = n /\ \A i \in 1 .. n : t[i] = offs[i]
    <3>1. t = [i \in 1 .. n |-> offs[i]]
      BY <2>8
    <3> QED BY <2>6, <3>1
  <2> HIDE DEF t
  <2>10. SizesOf(t, end) = Sizes(written)
    BY <2>6, <2>9, SizesAre
  <2>11. stream' = [cells |-> stream.cells, pos |-> 4]
    BY <2>7, AtMeans DEF SumInv
  <2>12. stream'.cells = stream.cells /\ stream'.pos \in 0 .. Len(stream.cells)
         /\ stream'.pos = 4
    BY <1>2, <2>2, <2>11
  <2>13. KnowsOffsets(offs)'
    BY <1>4, <2>7, <2>9 DEF KnowsOffsets, IsText
  <2>14. offs[0 + 1] = 4
    BY <2>6 DEF Layout
  <2>15. ReadInv(offs)'
    BY <1>4, <1>5, <2>6, <2>7, <2>10, <2>12, <2>13, <2>14 DEF ReadInv
  <2> QED BY <1>4, <1>5, <2>12, <2>15, FileRead
<1>7. CASE ~ (Len(head) = HeaderCells /\ head[1] = Version)
  <2>1. /\ stream' = AfterRead(s, HeaderCells) /\ UNCHANGED <<readHeader, toc, totalBlobs, maxBlob>>
    BY <1>7 DEF ReadHeader, s, head
  <2> HIDE DEF s, head
  <2>2. stream' = [cells |-> stream.cells, pos |-> Fewer(4, Len(stream.cells))]
    BY <1>2, <1>3, <1>r, <2>1
  <2>3. stream'.cells = stream.cells /\ stream'.pos \in 0 .. Len(stream.cells)
    BY <1>2, <2>2 DEF Fewer
  <2>4. ReadInv(offs)'
    BY <1>4, <1>5, <2>1 DEF ReadInv, FileInv
  <2> QED BY <1>4, <1>5, <2>3, <2>4, FileRead
<1> QED BY <1>6, <1>7

LEMMA FileStartRead ==
  ASSUME SumInv, NEW offs, FileInv(offs), StartReadBlob
  PROVE  /\ FileInv(offs)'
         /\ \/ /\ reading' /\ delivered' = <<>> /\ verdict' = "none"
            \/ UNCHANGED <<reading, seen>>
<1> DEFINE head == ReadFrom(stream, BlobHeader)
           n == Len(written)
           i == curBlob + 1
           b == written[i]
<1>1. /\ readHeader /\ ~reading /\ curBlob < totalBlobs
      /\ UNCHANGED <<headerVars, writeVars, curBlob, store, verified>>
  BY DEF StartReadBlob
<1>2. /\ KnowsOffsets(offs) /\ maxBlob = Max({0} \cup Sizes(written))
      /\ curBlob \in 0 .. n /\ curBlob < n
      /\ verified = <<>> => stream.pos = offs[i]
      /\ verified # <<>> => stream.pos = Len(stream.cells)
  BY <1>1 DEF FileInv, ReadInv, KnowsOffsets
<1>3. n \in Nat /\ i \in 1 .. n
  BY <1>2, LayoutEnd DEF FileInv
<1>4. /\ offs[i] \in Nat /\ Len(b.data) \in Nat /\ b \in Records /\ offs[n + 1] \in Nat
      /\ offs[i] + BlobHeader + Len(b.data) <= offs[n + 1]
      /\ HasBlob(damaged, stream.cells, offs[i], b)
  <2>1. /\ offs[i] \in Nat /\ Len(b.data) \in 0 .. MaxBytes /\ b \in Records
        /\ offs[i] + BlobHeader + Len(b.data) <= offs[n + 1]
        /\ HasBlob(damaged, stream.cells, offs[i], b)
    BY <1>3, LayoutAt DEF FileInv
  <2>2. offs[n + 1] \in Nat
    BY LayoutEnd DEF FileInv
  <2> QED BY <2>1, <2>2
<1>5. /\ ~needsUpdate /\ IsStream(stream) /\ stream.pos <= Len(stream.cells)
      /\ Len(stream.cells) \in Nat /\ offs[n + 1] <= Len(stream.cells)
  BY <1>1, ReaderMeans
<1>6. UNCHANGED <<readHeader, wroteHeader, needsUpdate, totalBlobs, toc, maxBlob,
                  writing, written, open, damaged, atClose, curBlob, verified, ignore>>
  BY <1>1 DEF headerVars, writeVars, store
<1>7. KnowsOffsets(offs)'
  BY <1>2, <1>6 DEF KnowsOffsets
<1> HIDE DEF i, b
<1>8. CASE verified = <<>>
  <2>1. stream.pos = offs[i] /\ Fewer(4, Len(stream.cells) - stream.pos) = 4
    BY <1>2, <1>4, <1>5, <1>8 DEF Fewer
  <2>2. /\ Len(head) = 4 /\ \A j \in 1 .. 4 : head[j] = stream.cells[stream.pos + j]
        /\ AfterRead(stream, 4) = [cells |-> stream.cells, pos |-> stream.pos + 4]
    <3>1. /\ Len(head) = Fewer(4, Len(stream.cells) - stream.pos)
          /\ \A j \in 1 .. Fewer(4, Len(stream.cells) - stream.pos) :
               head[j] = stream.cells[stream.pos + j]
          /\ AfterRead(stream, 4) =
               [cells |-> stream.cells, pos |-> stream.pos + Fewer(4, Len(stream.cells) - stream.pos)]
      BY <1>5, ReadMeans
    <3> QED BY <2>1, <3>1
  <2>3. /\ head[1] = Num(Len(b.data)) /\ head[2] = Digest(Data(b.data))
        /\ head[3] = Num(0) /\ head[4] = Num(b.id)
    BY <1>4, <2>1, <2>2 DEF HasBlob
  <2>4. /\ reading' = TRUE /\ bytesRead' = 0 /\ blobSize' = head[1][2] /\ blobMD5' = head[2]
        /\ gotId' = head[4][2] /\ hashed' = IF ignore THEN hashed ELSE <<>>
        /\ stream' = AfterRead(stream, 4) /\ delivered' = <<>> /\ verdict' = "none"
    BY <2>2, <2>3 DEF StartReadBlob
  <2> HIDE DEF head
  <2>5. /\ blobSize' = Len(b.data) /\ gotId' = b.id
    BY <2>3, <2>4 DEF Num
  <2>6. /\ stream'.cells = stream.cells /\ stream'.pos = offs[i] + 4
        /\ stream'.pos \in 0 .. Len(stream.cells)
    <3>1. stream' = [cells |-> stream.cells, pos |-> offs[i] + 4]
      BY <2>1, <2>2, <2>4
    <3>2. offs[i] + 4 <= Len(stream.cells) /\ offs[i] + 4 \in Nat
      BY <1>4, <1>5
    <3> QED BY <1>5, <3>1, <3>2
  <2>7. /\ IsText(delivered') /\ Len(delivered') = 0
        /\ ~ignore' => IsText(hashed') /\ Len(hashed') = 0
    <3>1. ignore' = ignore
      BY <1>6
    <3> QED BY <2>4, <3>1, NoText
  <2>8. bytesRead' \in 0 .. blobSize' /\ stream'.pos = offs[i] + BlobHeader + bytesRead'
    BY <1>4, <2>4, <2>5, <2>6
  <2>9. ReadBlob(offs)'
    <3>1. curBlob' = curBlob /\ written' = written /\ verified' = <<>> /\ b = written[curBlob + 1]
          /\ i = curBlob + 1
      BY <1>6, <1>8 DEF b, i
    <3>2. bytesRead' = 0
      BY <2>4
    <3> QED BY <1>2, <2>3, <2>4, <2>5, <2>7, <2>8, <3>1, <3>2 DEF ReadBlob
  <2>10. ReadInv(offs)'
    BY <1>1, <1>2, <1>6, <1>7, <1>8, <2>4, <2>9 DEF ReadInv
  <2> QED BY <1>5, <1>6, <2>4, <2>6, <2>10, FileRead
<1>9. CASE verified # <<>>
  <2>1. stream.pos = Len(stream.cells)
    BY <1>2, <1>9
  <2>2. /\ Fewer(4, Len(stream.cells) - stream.pos) = 0
        /\ Fewer(3, Len(stream.cells) - stream.pos) = 0
    BY <1>5, <2>1 DEF Fewer
  <2>3. Len(head) = 0
    <3>1. Len(head) = Fewer(4, Len(stream.cells) - stream.pos)
      BY <1>5, ReadMeans
    <3> QED BY <2>2, <3>1
  <2>4. AfterRead(stream, 3) = [cells |-> stream.cells, pos |-> stream.pos]
    <3>1. AfterRead(stream, 3) =
            [cells |-> stream.cells, pos |-> stream.pos + Fewer(3, Len(stream.cells) - stream.pos)]
      BY <1>5, ReadMeans
    <3> QED BY <1>5, <2>1, <2>2, <3>1
  <2>5. /\ stream' = AfterRead(stream, 3) /\ UNCHANGED <<readVars, seen, hashed>>
    BY <2>3 DEF StartReadBlob
  <2>6. stream'.cells = stream.cells /\ stream'.pos = Len(stream.cells)
        /\ stream'.pos \in 0 .. Len(stream.cells) /\ UNCHANGED <<reading, seen>>
    BY <1>5, <2>1, <2>4, <2>5 DEF readVars
  <2>7. ReadInv(offs)'
    BY <1>1, <1>2, <1>6, <1>7, <1>9, <2>6 DEF ReadInv
  <2> QED BY <1>5, <1>6, <2>6, <2>7, FileRead
<1> QED BY <1>8, <1>9

LEMMA ValueText ==
  ASSUME NEW q, IsText(q)
  PROVE  /\ IsText([i \in DOMAIN q |-> q[i][2]])
         /\ Len([i \in DOMAIN q |-> q[i][2]]) = Len(q)
         /\ \A i \in 1 .. Len(q) : [j \in DOMAIN q |-> q[j][2]][i] = q[i][2]
<1>1. Len(q) \in Nat /\ DOMAIN q = 1 .. Len(q)
  BY TextMeans
<1> DEFINE S == {q[i][2] : i \in 1 .. Len(q)}
           r == [i \in 1 .. Len(q) |-> q[i][2]]
<1>2. r \in [1 .. Len(q) -> S] /\ \A i \in 1 .. Len(q) : r[i] = q[i][2]
  OBVIOUS
<1>3. [i \in DOMAIN q |-> q[i][2]] = r
  BY <1>1
<1> HIDE DEF S, r
<1>4. r \in Seq(S) /\ Len(r) = Len(q)
  BY <1>1, <1>2
<1> QED BY <1>2, <1>3, <1>4, Zenon DEF IsText

LEMMA FileReadFrom ==
  ASSUME SumInv, NEW offs, FileInv(offs), NEW m \in ReadSizes, ReadFromBlob(m)
  PROVE  /\ FileInv(offs)'
         /\ \E more : IsText(more) /\ delivered' = delivered \o more
<1> DEFINE u == UpToEnd(m)
           data == ReadFrom(stream, u)
           more == [j \in DOMAIN data |-> data[j][2]]
           n == Len(written)
           i == curBlob + 1
           b == written[i]
           p == offs[i]
<1>1. /\ reading /\ stream' = AfterRead(stream, u) /\ bytesRead' = bytesRead + Len(data)
      /\ delivered' = delivered \o more
      /\ hashed' = IF ignore THEN hashed ELSE hashed \o data
      /\ UNCHANGED <<headerVars, writeVars, reading, blobSize, blobMD5, curBlob, store, gotId,
                     verdict, verified>>
  BY DEF ReadFromBlob
<1>2. /\ readHeader /\ KnowsOffsets(offs) /\ maxBlob = Max({0} \cup Sizes(written))
      /\ curBlob \in 0 .. n /\ ReadBlob(offs)
  BY <1>1 DEF FileInv, ReadInv
<1>3. /\ curBlob < n /\ verified = <<>>
      /\ blobSize = Len(b.data) /\ bytesRead \in 0 .. blobSize
      /\ stream.pos = p + 4 + bytesRead
      /\ IsText(delivered) /\ Len(delivered) = bytesRead
      /\ damaged \/ \A j \in 1 .. bytesRead : delivered[j] = b.data[j]
      /\ ignore \/ (/\ IsText(hashed) /\ Len(hashed) = bytesRead
                    /\ \A j \in 1 .. bytesRead : hashed[j] = Byte(delivered[j]))
      /\ blobMD5 = Digest(Data(b.data)) /\ gotId = b.id
  BY <1>2 DEF ReadBlob
<1>4. n \in Nat /\ i \in 1 .. n /\ offs[n + 1] \in Nat
  BY <1>2, <1>3, LayoutEnd DEF FileInv
<1>5. /\ p \in Nat /\ Len(b.data) \in 0 .. MaxBytes
      /\ p + 4 + Len(b.data) <= offs[n + 1]
      /\ HasBlob(damaged, stream.cells, p, b)
  BY <1>4, LayoutAt DEF FileInv
<1>6. /\ ~needsUpdate /\ IsStream(stream) /\ stream.pos <= Len(stream.cells)
      /\ Len(stream.cells) \in Nat /\ offs[n + 1] <= Len(stream.cells)
  BY <1>2, ReaderMeans
<1>7. /\ m \in Nat /\ MaxBytes \in Nat
  BY ContainerAssumption
<1> HIDE DEF n, i, b, p
<1>8. PICK size \in Nat, done \in Nat :
        size = Len(b.data) /\ done = bytesRead /\ done <= size /\ blobSize = size
  BY <1>3, <1>5, <1>7
<1>9. u \in Nat /\ done + u <= size
  BY <1>7, <1>8 DEF UpToEnd
<1> HIDE DEF u
<1>e. PICK at \in Nat, len \in Nat :
        /\ at = p /\ len = Len(stream.cells) /\ stream.pos = at + 4 + done
        /\ at + 4 + size <= len
  <2>1. PICK end \in Nat : end = offs[n + 1]
    BY <1>4
  <2>2. p + 4 + size <= end /\ end <= Len(stream.cells)
    BY <1>5, <1>6, <1>8, <2>1
  <2>3. p + 4 + size <= Len(stream.cells)
    BY <1>5, <1>6, <2>2
  <2>4. stream.pos = p + 4 + done
    BY <1>3, <1>8
  <2> QED BY <1>5, <1>6, <2>3, <2>4
<1>10. Fewer(u, Len(stream.cells) - stream.pos) = u
  <2>1. u <= len - (at + 4 + done)
    BY <1>9, <1>e
  <2>2. Fewer(u, len - (at + 4 + done)) = u
    BY <1>9, <2>1 DEF Fewer
  <2> QED BY <1>e, <2>2, Zenon
<1>11. /\ IsText(data) /\ Len(data) = u /\ \A j \in 1 .. u : data[j] = stream.cells[stream.pos + j]
       /\ AfterRead(stream, u) = [cells |-> stream.cells, pos |-> stream.pos + u]
  <2>1. /\ IsText(data) /\ Len(data) = Fewer(u, Len(stream.cells) - stream.pos)
        /\ \A j \in 1 .. Fewer(u, Len(stream.cells) - stream.pos) :
             data[j] = stream.cells[stream.pos + j]
        /\ AfterRead(stream, u) =
             [cells |-> stream.cells, pos |-> stream.pos + Fewer(u, Len(stream.cells) - stream.pos)]
    BY <1>6, <1>9, ReadMeans
  <2> HIDE DEF data
  <2> QED BY <1>10, <2>1, Zenon
<1> HIDE DEF data
<1>12. IsText(more) /\ Len(more) = u /\ \A j \in 1 .. u : more[j] = data[j][2]
  BY <1>11, ValueText
<1> HIDE DEF more
<1>13. /\ IsText(delivered') /\ Len(delivered') = done + u
       /\ \A j \in 1 .. done + u :
            delivered'[j] = IF j <= done THEN delivered[j] ELSE more[j - done]
  <2>1. /\ IsText(delivered \o more) /\ Len(delivered \o more) = Len(delivered) + Len(more)
        /\ \A j \in 1 .. Len(delivered) + Len(more) :
             (delivered \o more)[j] = IF j <= Len(delivered) THEN delivered[j]
                                    ELSE more[j - Len(delivered)]
    BY <1>3, <1>12, JoinedText
  <2>2. Len(delivered) = done /\ Len(more) = u /\ delivered' = delivered \o more
    BY <1>1, <1>3, <1>8, <1>12
  <2> QED BY <2>1, <2>2, Zenon
<1>14. ~ignore => /\ IsText(hashed') /\ Len(hashed') = done + u
                  /\ \A j \in 1 .. done + u :
                       hashed'[j] = IF j <= done THEN hashed[j] ELSE data[j - done]
  <2> SUFFICES ASSUME ~ignore
               PROVE  /\ IsText(hashed') /\ Len(hashed') = done + u
                      /\ \A j \in 1 .. done + u :
                           hashed'[j] = IF j <= done THEN hashed[j] ELSE data[j - done]
    OBVIOUS
  <2>1. /\ IsText(hashed \o data) /\ Len(hashed \o data) = Len(hashed) + Len(data)
        /\ \A j \in 1 .. Len(hashed) + Len(data) :
             (hashed \o data)[j] = IF j <= Len(hashed) THEN hashed[j] ELSE data[j - Len(hashed)]
    BY <1>3, <1>11, JoinedText
  <2>2. Len(hashed) = done /\ Len(data) = u /\ hashed' = hashed \o data
    BY <1>1, <1>3, <1>8, <1>11
  <2> QED BY <2>1, <2>2, Zenon
<1>15. ASSUME NEW j \in 1 .. done + u, j > done
       PROVE  /\ data[j - done] = Byte(more[j - done])
              /\ damaged \/ more[j - done] = b.data[j]
  <2>1. j - done \in 1 .. u /\ j \in 1 .. size
    BY <1>9, <1>15
  <2>2. data[j - done] = stream.cells[stream.pos + (j - done)]
    BY <1>11, <2>1
  <2>3. stream.pos + (j - done) = p + 4 + j
    BY <1>3, <1>5, <1>8, <2>1
  <2>4. /\ IsByte(stream.cells[p + 4 + j])
        /\ damaged \/ stream.cells[p + 4 + j] = Byte(b.data[j])
    BY <1>5, <1>8, <2>1 DEF HasBlob, HasData
  <2>5. more[j - done] = data[j - done][2]
    BY <1>12, <2>1
  <2>6. data[j - done] = stream.cells[p + 4 + j]
    BY <2>2, <2>3, Zenon
  <2>7. data[j - done] = Byte(more[j - done])
    BY <2>4, <2>5, <2>6, Zenon DEF IsByte
  <2>8. damaged \/ more[j - done] = b.data[j]
    BY <2>4, <2>5, <2>6 DEF Byte
  <2> QED BY <2>7, <2>8
<1>16. damaged \/ \A j \in 1 .. done + u : delivered'[j] = b.data[j]
  <2>1. ASSUME ~damaged, NEW j \in 1 .. done + u PROVE delivered'[j] = b.data[j]
    <3>1. CASE j <= done
      <4>1. j \in 1 .. bytesRead
        BY <1>8, <3>1
      <4> QED BY <1>3, <1>13, <2>1, <3>1, <4>1
    <3>2. CASE ~ (j <= done)
      <4>1. j > done
        BY <1>8, <3>2
      <4> QED BY <1>13, <1>15, <2>1, <3>2, <4>1
    <3> QED BY <3>1, <3>2
  <2> QED BY <2>1
<1>17. ~ignore => \A j \in 1 .. done + u : hashed'[j] = Byte(delivered'[j])
  <2>1. ASSUME ~ignore, NEW j \in 1 .. done + u PROVE hashed'[j] = Byte(delivered'[j])
    <3>1. CASE j <= done
      <4>1. j \in 1 .. bytesRead
        BY <1>8, <3>1
      <4>2. hashed[j] = Byte(delivered[j])
        BY <1>3, <2>1, <4>1
      <4> QED BY <1>13, <1>14, <2>1, <3>1, <4>2
    <3>2. CASE ~ (j <= done)
      <4>1. j > done
        BY <1>8, <3>2
      <4> QED BY <1>13, <1>14, <1>15, <2>1, <3>2, <4>1
    <3> QED BY <3>1, <3>2
  <2> QED BY <2>1
<1>18. UNCHANGED <<readHeader, wroteHeader, needsUpdate, totalBlobs, toc, maxBlob, ignore,
                   writing, written, open, damaged, atClose, curBlob, verified, reading,
                   blobSize, blobMD5, gotId>>
  BY <1>1 DEF headerVars, writeVars, store
<1>19. /\ stream'.cells = stream.cells /\ stream'.pos = p + 4 + (done + u)
       /\ stream'.pos \in 0 .. Len(stream.cells) /\ bytesRead' = done + u
  <2>1. stream' = [cells |-> stream.cells, pos |-> stream.pos + u]
    BY <1>1, <1>11
  <2>2. stream.pos + u = p + 4 + (done + u)
    BY <1>9, <1>e
  <2>3. p + 4 + (done + u) \in 0 .. Len(stream.cells)
    <3>1. at + 4 + (done + u) \in 0 .. len
      BY <1>9, <1>e
    <3> QED BY <1>e, <3>1
  <2>4. bytesRead' = done + u
    BY <1>1, <1>8, <1>11
  <2> QED BY <2>1, <2>2, <2>3, <2>4
<1>20. KnowsOffsets(offs)'
  BY <1>2, <1>18 DEF KnowsOffsets
<1>21. ReadBlob(offs)'
  <2>1. /\ b = written[curBlob + 1] /\ p = offs[curBlob + 1] /\ n = Len(written)
    BY DEF b, p, n, i
  <2>2. bytesRead' \in 0 .. blobSize'
    BY <1>8, <1>9, <1>18, <1>19
  <2>3. ignore' = ignore /\ damaged' = damaged /\ written' = written /\ curBlob' = curBlob
    BY <1>18
  <2> QED BY <1>3, <1>13, <1>14, <1>16, <1>17, <1>18, <1>19, <2>1, <2>2, <2>3 DEF ReadBlob
<1>22. ReadInv(offs)'
  <2>1. verified' = <<>> /\ reading' = reading
    BY <1>3, <1>18
  <2> QED BY <1>1, <1>2, <1>18, <1>20, <1>21, <2>1 DEF ReadInv, n
<1> QED BY <1>1, <1>6, <1>12, <1>18, <1>19, <1>22, FileRead

(* A byte of data changes: nothing that is not data does.                    *)
LEMMA FileDamage ==
  ASSUME SumInv, NEW offs, FileInv(offs), Damage
  PROVE  FileInv(offs)'
<1>1. PICK i \in DOMAIN stream.cells, v \in Bytes :
         /\ stream.cells[i][1] = "byte"
         /\ stream' = [stream EXCEPT !.cells[i] = Byte(v)]
  BY DEF Damage
<1>2. /\ damaged' = TRUE /\ ~damaged
      /\ UNCHANGED <<headerVars, writeVars, readVars, startOffset, hashed, curBlob,
                     written, open, atClose, seen, verified>>
  BY DEF Damage
<1>3. stream' = [cells |-> [stream.cells EXCEPT ![i] = Byte(v)], pos |-> stream.pos]
  BY <1>1 DEF SumInv
<1>4. PICK S : stream.cells \in Seq(S)
  BY DEF SumInv, IsText
<1> DEFINE r == stream'.cells
<1>5. Len(r) = Len(stream.cells) /\ stream'.pos = stream.pos
  BY <1>1, <1>3, <1>4, ExceptSeq
<1>6. ASSUME NEW j \in 1 .. Len(stream.cells)
      PROVE  /\ stream.cells[j][1] # "byte" => r[j] = stream.cells[j]
             /\ IsByte(stream.cells[j]) => IsByte(r[j])
  <2>1. r[j] = IF j = i THEN Byte(v) ELSE stream.cells[j]
    BY <1>3, <1>4
  <2>2. IsByte(Byte(v))
    BY DEF IsByte, Byte
  <2> QED BY <1>1, <2>1, <2>2, Zenon
<1> HIDE DEF r
<1>7. Len(stream.cells) \in Nat
  BY <1>4
<1>8. ASSUME NEW x PROVE Num(x)[1] # "byte" /\ Digest(x)[1] # "byte"
  BY DEF Num, Digest
<1>9. /\ Len(written) \in Nat /\ offs[Len(written) + 1] \in Nat
      /\ HeaderCells <= offs[Len(written) + 1] /\ written \in Finished
      /\ Layout(damaged, stream.cells, written, offs)
  BY LayoutEnd DEF FileInv
<1>10. ASSUME needsUpdate \/ atClose # <<>>
       PROVE  offs[Len(written) + 1] <= Len(stream.cells)
  <2>1. CASE ~needsUpdate
    <3>1. offs[Len(written) + 1] + Len(written) <= Len(stream.cells)
      BY <1>10, <2>1 DEF FileInv, ClosedInv, Complete
    <3> QED BY <1>7, <1>9, <3>1
  <2>2. CASE needsUpdate
    <3>1. stream.pos \in 0 .. Len(stream.cells)
      BY DEF FileInv
    <3>2. offs[Len(written) + 1] <= stream.pos
      <4>1. CASE writing
        <5>1. /\ stream.pos = offs[Len(written) + 1] + BlobHeader + bytesWritten
              /\ bytesWritten \in 0 .. MaxBytes
          BY <2>2, <4>1 DEF FileInv, WriteInv, OpenBlob
        <5> QED BY <1>9, <5>1, ContainerAssumption
      <4>2. CASE ~writing
        BY <1>9, <2>2, <4>2 DEF FileInv, WriteInv
      <4> QED BY <4>1, <4>2
    <3> QED BY <1>7, <1>9, <3>1, <3>2
  <2> QED BY <2>1, <2>2
<1>11. needsUpdate \/ atClose # <<>>
  <2>1. CASE needsUpdate
    BY <2>1
  <2>2. CASE ~needsUpdate /\ atClose = <<>>
    <3>1. stream.cells = <<>>
      BY <2>2 DEF FileInv, ClosedInv
    <3> QED BY <1>1, <1>4, <3>1
  <2> QED BY <2>1, <2>2
<1>12. Layout(TRUE, r, written, offs)
  <2>1. ASSUME NEW p \in HeaderCells + 1 .. offs[Len(written) + 1]
        PROVE  /\ IsByte(stream.cells[p]) => IsByte(r[p])
               /\ stream.cells[p][1] # "byte" => r[p] = stream.cells[p]
    <3>1. p \in 1 .. Len(stream.cells)
      BY <1>7, <1>9, <1>10, <1>11
    <3> QED BY <1>6, <3>1, Zenon
  <2> QED BY <1>9, <2>1, LayoutHurt
<1>13. /\ written' = written /\ damaged' = TRUE /\ written' \in Finished
       /\ Len(written') <= MaxBlobs /\ stream'.pos \in 0 .. Len(r)
  BY <1>2, <1>5 DEF FileInv
<1>14. WriteInv(offs)'
  <2>1. UNCHANGED <<needsUpdate, wroteHeader, atClose, writing, totalBlobs, toc, written, open,
                    startOffset, bytesWritten, hashed>>
    BY <1>2 DEF headerVars, writeVars
  <2>2. ASSUME needsUpdate, writing PROVE OpenBlob(offs)'
    <3>1. OpenBlob(offs)
      BY <2>2 DEF FileInv, WriteInv
    <3> DEFINE b == open[1]
    <3>2. /\ startOffset = offs[Len(written) + 1] /\ bytesWritten \in Nat
          /\ Len(b.data) = bytesWritten
          /\ stream.pos = startOffset + BlobHeader + bytesWritten
          /\ stream.cells[startOffset + 3] = Num(0) /\ stream.cells[startOffset + 4] = Num(b.id)
          /\ HasData(damaged, stream.cells, startOffset + BlobHeader, b.data)
      BY <3>1, ContainerAssumption DEF OpenBlob
    <3>3. startOffset \in Nat /\ stream.pos <= Len(stream.cells)
      BY <1>9, <3>2 DEF FileInv
    <3>4. /\ startOffset + 3 \in 1 .. Len(stream.cells)
          /\ startOffset + 4 \in 1 .. Len(stream.cells)
      <4>1. PICK at \in Nat, k \in Nat : at = startOffset /\ k = bytesWritten
        BY <3>2, <3>3
      <4>2. at + 4 + k <= Len(stream.cells)
        BY <3>2, <3>3, <4>1
      <4> QED BY <1>7, <4>1, <4>2
    <3>5. /\ r[startOffset + 3] = Num(0) /\ r[startOffset + 4] = Num(b.id)
      BY <1>6, <1>8, <3>2, <3>4, Zenon
    <3>6. ASSUME NEW j \in 1 .. Len(b.data) PROVE IsByte(r[startOffset + BlobHeader + j])
      <4>1. startOffset + BlobHeader + j \in 1 .. Len(stream.cells)
        <5> HIDE DEF b
        <5>1. j \in 1 .. bytesWritten
          BY <3>2
        <5>2. PICK at \in Nat, k \in Nat : at = startOffset /\ k = bytesWritten
          BY <3>2, <3>3
        <5>3. at + 4 + k <= Len(stream.cells)
          BY <3>2, <3>3, <5>2
        <5>4. j \in 1 .. k
          BY <5>1, <5>2
        <5>5. at + 4 + j \in 1 .. Len(stream.cells)
          BY <1>7, <5>3, <5>4
        <5> QED BY <5>2, <5>5
      <4>2. IsByte(stream.cells[startOffset + BlobHeader + j])
        BY <3>2 DEF HasData
      <4> QED BY <1>6, <4>1, <4>2, Zenon
    <3>7. HasData(TRUE, r, startOffset + BlobHeader, b.data)
      BY <3>6, Zenon DEF HasData
    <3>8. b' = b /\ startOffset' = startOffset
      BY <2>1
    <3> QED BY <1>2, <1>5, <2>1, <3>1, <3>5, <3>7, <3>8 DEF OpenBlob, r
  <2>3. KnowsOffsets(offs) => KnowsOffsets(offs)'
    BY <2>1 DEF KnowsOffsets
  <2> QED BY <1>5, <2>1, <2>2, <2>3 DEF WriteInv, FileInv
<1>15. ClosedInv(offs)'
  <2>1. UNCHANGED <<needsUpdate, wroteHeader, atClose, writing, written, open>>
    BY <1>2 DEF headerVars, writeVars
  <2>2. ASSUME ~needsUpdate PROVE Complete(r, written, offs)
    <3>1. Complete(stream.cells, written, offs)
      BY <1>11, <2>2 DEF FileInv, ClosedInv
    <3> DEFINE n == Len(written)
               end == offs[n + 1]
    <3>2. /\ end + n <= Len(stream.cells) /\ n \in Nat /\ end \in Nat /\ 4 <= end
          /\ stream.cells[3] = Num(n) /\ stream.cells[4] = Num(end)
          /\ \A k \in 1 .. n : stream.cells[end + k] = Num(offs[k])
      BY <1>9, <3>1 DEF Complete
    <3>3. 3 \in 1 .. Len(stream.cells) /\ 4 \in 1 .. Len(stream.cells)
      BY <1>7, <3>2
    <3>4. r[3] = Num(n) /\ r[4] = Num(end)
      <4>1. stream.cells[3][1] # "byte" /\ stream.cells[4][1] # "byte"
        BY <3>2 DEF Num
      <4>2. r[3] = stream.cells[3]
        BY <1>6, <3>3, <4>1
      <4>3. r[4] = stream.cells[4]
        BY <1>6, <3>3, <4>1
      <4> QED BY <3>2, <4>2, <4>3
    <3>5. ASSUME NEW k \in 1 .. n PROVE r[end + k] = Num(offs[k])
      <4>1. end + k \in 1 .. Len(stream.cells)
        BY <1>7, <3>2
      <4>2. stream.cells[end + k] = Num(offs[k])
        BY <3>2
      <4> QED BY <1>6, <1>8, <4>1, <4>2, Zenon
    <3> QED BY <1>5, <3>2, <3>4, <3>5 DEF Complete
  <2> QED BY <1>11, <2>1, <2>2 DEF ClosedInv, FileInv, r
<1>16. ReadInv(offs)'
  <2>1. UNCHANGED <<readHeader, wroteHeader, totalBlobs, toc, maxBlob, written, curBlob, verified,
                    reading, blobSize, blobMD5, bytesRead, gotId, delivered, hashed, ignore>>
    BY <1>2 DEF headerVars, readVars, seen
  <2>2. ReadBlob(offs) => ReadBlob(offs)'
    BY <1>2, <1>5, <2>1 DEF ReadBlob
  <2>3. KnowsOffsets(offs) => KnowsOffsets(offs)'
    BY <2>1 DEF KnowsOffsets
  <2> QED BY <1>5, <2>1, <2>2, <2>3 DEF ReadInv, FileInv, r
<1> QED BY <1>12, <1>13, <1>14, <1>15, <1>16 DEF FileInv, r

-----------------------------------------------------------------------------
(* What is written                                                           *)

LEMMA FileWriteHeader ==
  ASSUME Roomy, SumInv, NEW offs, FileInv(offs), WriteHeader
  PROVE  FileInv(NoBlobs)' /\ needsUpdate'
<1> DEFINE new == <<Version, Junk, Junk, Junk>>
           s == At(stream, 0)
           k == Fits(s, Len(new))
<1>1. s = [cells |-> stream.cells, pos |-> 0]
  BY AtMeans DEF SumInv
<1>2. Len(stream.cells) \in Nat /\ IsText(stream.cells)
  BY TextMeans DEF SumInv
<1>3. IsStream(s) /\ s.cells = stream.cells /\ s.pos = 0 /\ s.pos <= Len(s.cells)
  BY <1>1, <1>2 DEF IsStream
<1>4. IsText(new) /\ Len(new) = 4
  <2>1. new \in Seq({Version, Junk})
    OBVIOUS
  <2> QED BY <2>1 DEF IsText
<1>5. /\ ~wroteHeader /\ ~readHeader /\ stream' = AfterWrite(s, new)
      /\ wroteHeader' = (k = Len(new)) /\ needsUpdate' = wroteHeader'
      /\ atClose' = <<>> /\ written' = <<>> /\ open' = <<>> /\ damaged' = FALSE
      /\ UNCHANGED <<readHeader, totalBlobs, toc, maxBlob, writing, reading, verified, curBlob>>
  BY DEF WriteHeader, Wrote, writeVars, readVars
<1> HIDE DEF new, s
<1>6. 4 <= Capacity /\ Capacity \in Nat
  <2>1. <<>> \in Finished /\ Layout(FALSE, <<>>, <<>>, NoBlobs) /\ Len(<<>>) = 0
    BY LayoutEmpty
  <2>2. 0 <= MaxBlobs /\ NoBlobs[0 + 1] = 4
    BY ContainerAssumption DEF NoBlobs
  <2>3. NoBlobs[0 + 1] + 0 <= Capacity
    BY <2>1, <2>2, Room
  <2> QED BY <2>2, <2>3, StreamAssumption
<1>7. k = 4
  BY <1>3, <1>4, <1>6 DEF Fits, Fewer, MoreThanNone
<1>8. Covers(s, new, 4, stream')
  BY <1>3, <1>4, <1>5, <1>7, WriteMeans
<1>9. /\ stream'.pos = 4 /\ IsStream(stream') /\ stream'.pos \in 0 .. Len(stream'.cells)
  BY <1>2, <1>3, <1>8 DEF Covers
<1>10. wroteHeader' /\ needsUpdate'
  BY <1>4, <1>5, <1>7
<1>11. /\ written' \in Finished /\ Len(written') = 0 /\ Len(written') <= MaxBlobs
       /\ Layout(damaged, stream.cells, written, NoBlobs)'
  BY <1>5, LayoutEmpty, ContainerAssumption
<1>12. /\ ~needsUpdate /\ ~writing /\ ~reading /\ maxBlob = 0 /\ verified = <<>>
       /\ totalBlobs = 0 /\ toc = <<>>
  BY <1>5 DEF SumInv, WriterInv, FileInv, ReadInv
<1>13. KnowsOffsets(NoBlobs)'
  BY <1>5, <1>11, <1>12, NoText DEF KnowsOffsets
<1>14. WriteInv(NoBlobs)'
  <2>1. NoBlobs[0 + 1] = 4
    BY DEF NoBlobs
  <2> QED BY <1>5, <1>9, <1>10, <1>11, <1>12, <1>13, <2>1 DEF WriteInv
<1>15. ClosedInv(NoBlobs)' /\ ReadInv(NoBlobs)'
  BY <1>5, <1>10, <1>12 DEF ClosedInv, ReadInv
<1> QED BY <1>9, <1>10, <1>11, <1>14, <1>15 DEF FileInv

(* What a writer may rely on.                                                *)
LEMMA WriterMeans ==
  ASSUME SumInv, NEW offs, FileInv(offs), needsUpdate
  PROVE  /\ wroteHeader /\ ~readHeader /\ ~reading /\ atClose = <<>>
         /\ IsStream(stream) /\ stream.pos \in 0 .. Len(stream.cells)
         /\ Len(stream.cells) \in Nat /\ Len(stream.cells) <= Capacity
         /\ Len(written) \in Nat /\ offs[Len(written) + 1] \in Nat
         /\ HeaderCells <= offs[Len(written) + 1]
         /\ KnowsOffsets(offs) /\ maxBlob = 0 /\ verified = <<>>
<1>1. wroteHeader /\ ~readHeader /\ ~reading /\ atClose = <<>> /\ Len(stream.cells) <= Capacity
  BY DEF SumInv, WriterInv
<1>2. IsStream(stream) /\ Len(stream.cells) \in Nat
  BY TextMeans DEF SumInv, FileInv, IsStream
<1>3. KnowsOffsets(offs) /\ stream.pos \in 0 .. Len(stream.cells) /\ maxBlob = 0
      /\ verified = <<>>
  BY <1>1 DEF FileInv, WriteInv, ReadInv
<1> QED BY <1>1, <1>2, <1>3, LayoutEnd DEF FileInv

LEMMA OpenMeans ==
  ASSUME SumInv, NEW offs, FileInv(offs), needsUpdate, writing
  PROVE  LET b == open[1]
         IN /\ open = <<b>> /\ b \in Records /\ Len(written) < MaxBlobs
            /\ b.data \in Seq(Bytes) /\ b.id \in Ids
            /\ startOffset = offs[Len(written) + 1] /\ startOffset \in Nat
            /\ HeaderCells <= startOffset
            /\ bytesWritten \in Nat /\ Len(b.data) = bytesWritten /\ bytesWritten <= MaxBytes
            /\ hashed = Data(b.data)
            /\ stream.pos = startOffset + BlobHeader + bytesWritten
            /\ stream.cells[startOffset + 3] = Num(0)
            /\ stream.cells[startOffset + 4] = Num(b.id)
            /\ HasData(damaged, stream.cells, startOffset + BlobHeader, b.data)
<1>1. OpenBlob(offs)
  BY DEF FileInv, WriteInv
<1>2. offs[Len(written) + 1] \in Nat /\ HeaderCells <= offs[Len(written) + 1]
  BY WriterMeans
<1>3. bytesWritten \in Nat /\ bytesWritten <= MaxBytes
  BY <1>1, ContainerAssumption DEF OpenBlob
<1> QED BY <1>1, <1>2, <1>3 DEF OpenBlob, Records

(* What is written at the end of the blobs or of the open one fits.          *)
LEMMA Fitting ==
  ASSUME SumInv, NEW offs, FileInv(offs), needsUpdate, NEW new, IsText(new),
         stream.pos + Len(new) <= Capacity
  PROVE  /\ Fits(stream, Len(new)) = Len(new)
         /\ AfterWrite(stream, new).pos = stream.pos + Len(new)
         /\ AfterWrite(stream, new).pos \in 0 .. Len(AfterWrite(stream, new).cells)
         /\ IsStream(AfterWrite(stream, new))
         /\ \A i \in 1 .. stream.pos : AfterWrite(stream, new).cells[i] = stream.cells[i]
         /\ \A i \in 1 .. Len(new) : AfterWrite(stream, new).cells[stream.pos + i] = new[i]
<1> DEFINE r == AfterWrite(stream, new)
           k == Len(new)
<1>1. /\ IsStream(stream) /\ stream.pos \in Nat /\ stream.pos <= Len(stream.cells)
      /\ Len(stream.cells) \in Nat /\ Capacity \in Nat /\ k \in Nat
  BY WriterMeans, StreamAssumption, TextMeans
<1>2. Fits(stream, k) = k
  BY <1>1 DEF Fits, Fewer, MoreThanNone
<1>3. Covers(stream, new, k, r)
  BY <1>1, <1>2, WriteMeans
<1> HIDE DEF r, k
<1>4. /\ IsStream(r) /\ r.pos = stream.pos + k
      /\ Len(r.cells) = IF stream.pos + k > Len(stream.cells) THEN stream.pos + k
                        ELSE Len(stream.cells)
  BY <1>3 DEF Covers
<1>5. /\ Len(r.cells) \in Nat /\ stream.pos + k <= Len(r.cells)
      /\ stream.pos + k \in 0 .. Len(r.cells)
  BY <1>1, <1>4
<1>6. ASSUME NEW i \in 1 .. stream.pos PROVE r.cells[i] = stream.cells[i]
  <2>1. i \in 1 .. Len(r.cells) /\ ~ (stream.pos < i)
    BY <1>1, <1>5
  <2> QED BY <1>3, <2>1, Zenon DEF Covers
<1>7. ASSUME NEW i \in 1 .. k PROVE r.cells[stream.pos + i] = new[i]
  <2>1. /\ stream.pos + i \in 1 .. Len(r.cells) /\ stream.pos < stream.pos + i
        /\ stream.pos + i <= stream.pos + k /\ (stream.pos + i) - stream.pos = i
    BY <1>1, <1>5
  <2>2. r.cells[stream.pos + i] = new[(stream.pos + i) - stream.pos]
    BY <1>3, <2>1, Zenon DEF Covers
  <2> QED BY <2>1, <2>2, Zenon
<1> QED BY <1>2, <1>4, <1>5, <1>6, <1>7 DEF r, k

LEMMA FileStartWrite ==
  ASSUME Roomy, SumInv, NEW offs, FileInv(offs), NEW id \in Ids, StartWriteBlob(id)
  PROVE  /\ FileInv(offs)' /\ needsUpdate
         /\ open = <<>> /\ Len(open') = 1 /\ open'[1].data = <<>>
<1> DEFINE new == <<Junk, Junk, Num(0), Num(id)>>
           b == [id |-> id, data |-> <<>>]
           n == Len(written)
           end == offs[n + 1]
<1>1. /\ ~writing /\ n < MaxBlobs /\ startOffset' = stream.pos
      /\ stream' = AfterWrite(stream, new)
      /\ Wrote(stream, new) =>
           /\ writing' = TRUE /\ bytesWritten' = 0 /\ hashed' = <<>> /\ open' = <<b>>
      /\ UNCHANGED <<headerVars, readVars, curBlob, written, damaged, atClose, times, seen,
                     verified>>
  BY DEF StartWriteBlob
<1>2. needsUpdate
  BY DEF StartWriteBlob, Roomy
<1>3. open = <<>> /\ stream.pos = end
  BY <1>1, <1>2 DEF FileInv, WriteInv
<1>4. IsText(new) /\ Len(new) = 4 /\ new[3] = Num(0) /\ new[4] = Num(id)
  <2>1. new \in Seq({Junk, Num(0), Num(id)})
    OBVIOUS
  <2> QED BY <2>1 DEF IsText
<1> HIDE DEF new
<1>5. /\ n \in Nat /\ end \in Nat /\ HeaderCells <= end /\ MaxBytes \in Nat /\ Capacity \in Nat
  BY <1>2, WriterMeans, ContainerAssumption, StreamAssumption
<1>6. end + 4 <= Capacity
  <2>1. end + BlobHeader + MaxBytes + n + 1 <= Capacity
    BY <1>1, Room DEF FileInv
  <2> QED BY <1>5, <2>1
<1>7. /\ Fits(stream, Len(new)) = Len(new)
      /\ stream'.pos = end + 4
      /\ stream'.pos \in 0 .. Len(stream'.cells)
      /\ \A i \in 1 .. end : stream'.cells[i] = stream.cells[i]
      /\ \A i \in 1 .. 4 : stream'.cells[end + i] = new[i]
  <2>1. stream.pos + Len(new) <= Capacity
    BY <1>3, <1>4, <1>6
  <2>2. /\ Fits(stream, Len(new)) = Len(new)
        /\ stream'.pos = stream.pos + Len(new)
        /\ stream'.pos \in 0 .. Len(stream'.cells)
        /\ \A i \in 1 .. stream.pos : stream'.cells[i] = stream.cells[i]
        /\ \A i \in 1 .. Len(new) : stream'.cells[stream.pos + i] = new[i]
    BY <1>1, <1>2, <1>4, <2>1, Fitting, Zenon
  <2> QED BY <1>3, <1>4, <2>2, Zenon
<1>8. Wrote(stream, new)
  BY <1>7 DEF Wrote
<1>9. Layout(damaged, stream.cells, written, offs)'
  <2>1. \A i \in HeaderCells + 1 .. end : stream'.cells[i] = stream.cells[i]
    BY <1>5, <1>7
  <2>2. damaged' = damaged /\ written' = written
    BY <1>1
  <2>3. Layout(damaged, stream'.cells, written, offs)
    BY <2>1, LayoutKept DEF FileInv
  <2> QED BY <2>2, <2>3
<1>10. written' = written /\ written' \in Finished /\ Len(written') <= MaxBlobs
  BY <1>1 DEF FileInv
<1>11. UNCHANGED <<needsUpdate, wroteHeader, readHeader, totalBlobs, toc, maxBlob, reading,
                   atClose, verified, damaged, curBlob>>
  BY <1>1 DEF headerVars, readVars
<1>12. OpenBlob(offs)'
  <2>1. b \in Records /\ Len(b.data) = 0 /\ b.data = <<>> /\ b.id = id
    BY DEF Records
  <2>2. open' = <<b>> /\ open'[1] = b /\ bytesWritten' = 0 /\ hashed' = <<>>
    BY <1>1, <1>8
  <2>3. Data(<<>>) = <<>>
    BY DEF Data
  <2>4. stream'.cells[end + 3] = Num(0) /\ stream'.cells[end + 4] = Num(id)
    BY <1>4, <1>7
  <2>5. startOffset' = end /\ written' = written /\ stream'.pos = end + BlobHeader + 0
    BY <1>1, <1>3, <1>5, <1>7
  <2>6. HasData(damaged', stream'.cells, end + BlobHeader, <<>>)
    BY DEF HasData
  <2>7. 0 \in 0 .. MaxBytes
    BY <1>5
  <2> HIDE DEF b
  <2> QED BY <1>1, <2>1, <2>2, <2>3, <2>4, <2>5, <2>6, <2>7 DEF OpenBlob
<1>13. WriteInv(offs)'
  <2>1. KnowsOffsets(offs)'
    BY <1>2, <1>10, <1>11, WriterMeans DEF KnowsOffsets
  <2>2. wroteHeader' /\ atClose' = <<>> /\ writing'
    BY <1>1, <1>2, <1>8, <1>11, WriterMeans
  <2> QED BY <1>12, <2>1, <2>2 DEF WriteInv
<1>14. ClosedInv(offs)' /\ ReadInv(offs)'
  <2>1. /\ needsUpdate' /\ ~readHeader' /\ wroteHeader' /\ ~reading' /\ maxBlob' = 0
        /\ verified' = <<>>
    BY <1>2, <1>11, WriterMeans
  <2> QED BY <2>1 DEF ClosedInv, ReadInv
<1>15. FileInv(offs)'
  BY <1>7, <1>9, <1>10, <1>13, <1>14 DEF FileInv
<1> QED BY <1>1, <1>2, <1>3, <1>8, <1>15

Grown(cells, p, d, more, r) ==
  /\ \A i \in p + 1 .. p + Len(d) : r[i] = cells[i]
  /\ \A i \in 1 .. Len(more) : r[p + Len(d) + i] = Byte(more[i])

LEMMA DataJoined ==
  ASSUME NEW d \in Seq(Bytes), NEW more \in Seq(Bytes)
  PROVE  Data(d \o more) = Data(d) \o Data(more)
<1> DEFINE l == d \o more
<1>1. /\ l \in Seq(Bytes) /\ Len(l) = Len(d) + Len(more)
      /\ Len(d) \in Nat /\ Len(more) \in Nat
      /\ \A i \in 1 .. Len(d) + Len(more) :
           l[i] = IF i <= Len(d) THEN d[i] ELSE more[i - Len(d)]
  BY ConcatProperties
<1> HIDE DEF l
<1>2. Data(l) = Data(d) \o Data(more)
  <2>1. /\ IsText(Data(l)) /\ Len(Data(l)) = Len(d) + Len(more)
        /\ \A i \in 1 .. Len(d) + Len(more) : Data(l)[i] = Byte(l[i])
    BY <1>1, DataText
  <2>2. /\ IsText(Data(d)) /\ Len(Data(d)) = Len(d)
        /\ \A i \in 1 .. Len(d) : Data(d)[i] = Byte(d[i])
    BY DataText
  <2>3. /\ IsText(Data(more)) /\ Len(Data(more)) = Len(more)
        /\ \A i \in 1 .. Len(more) : Data(more)[i] = Byte(more[i])
    BY DataText
  <2> DEFINE q == Data(d) \o Data(more)
  <2>4. /\ IsText(q) /\ Len(q) = Len(d) + Len(more)
        /\ \A i \in 1 .. Len(d) + Len(more) :
             q[i] = IF i <= Len(d) THEN Data(d)[i] ELSE Data(more)[i - Len(d)]
    <3>1. /\ IsText(q) /\ Len(q) = Len(Data(d)) + Len(Data(more))
          /\ \A i \in 1 .. Len(Data(d)) + Len(Data(more)) :
               q[i] = IF i <= Len(Data(d)) THEN Data(d)[i] ELSE Data(more)[i - Len(Data(d))]
      BY <2>2, <2>3, JoinedText
    <3> QED BY <2>2, <2>3, <3>1, Zenon
  <2> HIDE DEF q
  <2>5. ASSUME NEW i \in 1 .. Len(d) + Len(more) PROVE Data(l)[i] = q[i]
    <3>1. CASE i <= Len(d)
      <4>1. i \in 1 .. Len(d)
        BY <3>1
      <4> QED BY <1>1, <2>1, <2>2, <2>4, <3>1, <4>1
    <3>2. CASE ~ (i <= Len(d))
      <4>1. i - Len(d) \in 1 .. Len(more)
        BY <1>1, <3>2
      <4> QED BY <1>1, <2>1, <2>3, <2>4, <3>2, <4>1
    <3> QED BY <3>1, <3>2
  <2>6. Data(l) = q
    BY <2>1, <2>4, <2>5, SameText
  <2> QED BY <2>6 DEF q
<1> QED BY <1>2 DEF l

LEMMA DataAdded ==
  ASSUME NEW hurt, NEW cells, NEW p \in Nat, NEW d \in Seq(Bytes), NEW more \in Seq(Bytes),
         NEW r, HasData(hurt, cells, p, d), Grown(cells, p, d, more, r)
  PROVE  /\ d \o more \in Seq(Bytes) /\ Len(d \o more) = Len(d) + Len(more)
         /\ HasData(hurt, r, p, d \o more)
<1> DEFINE l == d \o more
<1>1. /\ l \in Seq(Bytes) /\ Len(l) = Len(d) + Len(more)
      /\ Len(d) \in Nat /\ Len(more) \in Nat
      /\ \A i \in 1 .. Len(d) + Len(more) :
           l[i] = IF i <= Len(d) THEN d[i] ELSE more[i - Len(d)]
  BY ConcatProperties
<1> HIDE DEF l
<1>2. ASSUME NEW j \in 1 .. Len(d) + Len(more)
      PROVE  IsByte(r[p + j]) /\ (hurt \/ r[p + j] = Byte(l[j]))
  <2>1. CASE j <= Len(d)
    <3>1. j \in 1 .. Len(d) /\ p + j \in p + 1 .. p + Len(d)
      BY <1>1, <2>1
    <3>2. r[p + j] = cells[p + j] /\ l[j] = d[j]
      BY <1>1, <2>1, <3>1 DEF Grown
    <3>3. IsByte(cells[p + j]) /\ (hurt \/ cells[p + j] = Byte(d[j]))
      BY <3>1 DEF HasData
    <3> QED BY <3>2, <3>3
  <2>2. CASE ~ (j <= Len(d))
    <3>1. j - Len(d) \in 1 .. Len(more) /\ p + Len(d) + (j - Len(d)) = p + j
      BY <1>1, <2>2
    <3>2. l[j] = more[j - Len(d)]
      BY <1>1, <2>2
    <3>3. r[p + Len(d) + (j - Len(d))] = Byte(more[j - Len(d)])
      BY <3>1 DEF Grown
    <3>4. r[p + j] = Byte(l[j])
      BY <3>1, <3>2, <3>3, Zenon
    <3> QED BY <3>4 DEF IsByte, Byte
  <2> QED BY <2>1, <2>2
<1>3. HasData(hurt, r, p, l)
  BY <1>1, <1>2, Zenon DEF HasData
<1> QED BY <1>1, <1>3 DEF l

LEMMA FileWrite ==
  ASSUME Roomy, SumInv, NEW offs, FileInv(offs), needsUpdate, NEW bytes \in Pieces,
         WriteToBlob(bytes)
  PROVE  /\ FileInv(offs)'
         /\ open' = <<[id |-> open[1].id, data |-> open[1].data \o bytes]>>
<1> DEFINE new == Data(bytes)
           k == Len(bytes)
           b == open[1]
           c == [id |-> b.id, data |-> b.data \o bytes]
           p == startOffset
           n == Len(written)
<1>1. /\ writing /\ bytesWritten + k <= MaxBytes
      /\ bytesWritten' = bytesWritten + Fits(stream, k)
      /\ open' = <<[id |-> b.id, data |-> b.data \o SubSeq(bytes, 1, Fits(stream, k))]>>
      /\ stream' = AfterWrite(stream, new) /\ hashed' = hashed \o new
      /\ UNCHANGED <<headerVars, writing, readVars, startOffset, curBlob, written,
                     damaged, atClose, times, seen, verified>>
  BY DEF WriteToBlob, Hashed
<1>2. /\ bytes \in Seq(Bytes) /\ k \in Nat /\ IsText(new) /\ Len(new) = k
      /\ \A i \in 1 .. k : new[i] = Byte(bytes[i])
  BY PieceText
<1>3. /\ open = <<b>> /\ b \in Records /\ n < MaxBlobs
      /\ b.data \in Seq(Bytes) /\ b.id \in Ids
      /\ p = offs[n + 1] /\ p \in Nat /\ HeaderCells <= p
      /\ bytesWritten \in Nat /\ Len(b.data) = bytesWritten
      /\ hashed = Data(b.data)
      /\ stream.pos = p + BlobHeader + bytesWritten
      /\ stream.cells[p + 3] = Num(0) /\ stream.cells[p + 4] = Num(b.id)
      /\ HasData(damaged, stream.cells, p + BlobHeader, b.data)
  BY <1>1, OpenMeans
<1> HIDE DEF new, b, p, k
<1>4. stream.pos + k <= Capacity
  <2>1. offs[n + 1] + BlobHeader + MaxBytes + n + 1 <= Capacity
    BY <1>3, Room DEF FileInv
  <2>2. n \in Nat /\ MaxBytes \in Nat /\ Capacity \in Nat
    BY WriterMeans, ContainerAssumption, StreamAssumption
  <2> HIDE DEF n
  <2>3. /\ p \in Nat /\ k \in Nat /\ bytesWritten \in Nat /\ p = offs[n + 1]
        /\ bytesWritten + k <= MaxBytes /\ stream.pos = p + BlobHeader + bytesWritten
    BY <1>1, <1>2, <1>3
  <2>4. p + BlobHeader + MaxBytes + n + 1 <= Capacity
    BY <2>1, <2>3
  <2> QED BY <2>2, <2>3, <2>4
<1>5. /\ Fits(stream, k) = k
      /\ stream'.pos = stream.pos + k
      /\ stream'.pos \in 0 .. Len(stream'.cells)
      /\ \A i \in 1 .. stream.pos : stream'.cells[i] = stream.cells[i]
      /\ \A i \in 1 .. k : stream'.cells[stream.pos + i] = new[i]
  <2>1. stream.pos + Len(new) <= Capacity
    BY <1>2, <1>4
  <2>2. /\ Fits(stream, Len(new)) = Len(new)
        /\ stream'.pos = stream.pos + Len(new)
        /\ stream'.pos \in 0 .. Len(stream'.cells)
        /\ \A i \in 1 .. stream.pos : stream'.cells[i] = stream.cells[i]
        /\ \A i \in 1 .. Len(new) : stream'.cells[stream.pos + i] = new[i]
    BY <1>1, <1>2, <2>1, Fitting, Zenon
  <2> QED BY <1>2, <2>2, Zenon
<1>6. SubSeq(bytes, 1, k) = bytes
  BY <1>2, SubSeqFull DEF k
<1>7. open' = <<c>> /\ bytesWritten' = bytesWritten + k
  BY <1>1, <1>5, <1>6
<1>8. Layout(damaged, stream.cells, written, offs)'
  <2>1. \A i \in HeaderCells + 1 .. offs[n + 1] : stream'.cells[i] = stream.cells[i]
    <3>1. ASSUME NEW i \in HeaderCells + 1 .. offs[n + 1] PROVE i \in 1 .. stream.pos
      BY <1>3
    <3> QED BY <1>5, <3>1
  <2>2. damaged' = damaged /\ written' = written
    BY <1>1
  <2>3. Layout(damaged, stream'.cells, written, offs)
    BY <2>1, LayoutKept DEF FileInv
  <2> QED BY <2>2, <2>3
<1>9. /\ b.data \o bytes \in Seq(Bytes) /\ Len(b.data \o bytes) = bytesWritten + k
      /\ HasData(damaged, stream'.cells, p + BlobHeader, b.data \o bytes)
      /\ Data(b.data \o bytes) = hashed \o new
  <2>1. PICK base \in Nat, d \in Seq(Bytes) : base = p + BlobHeader /\ d = b.data
    BY <1>3
  <2>2. ASSUME NEW i \in base + 1 .. base + Len(d)
        PROVE  stream'.cells[i] = stream.cells[i]
    <3>1. i \in 1 .. stream.pos
      BY <1>3, <2>1
    <3> QED BY <1>5, <3>1
  <2>3. ASSUME NEW i \in 1 .. Len(bytes)
        PROVE  stream'.cells[base + Len(d) + i] = Byte(bytes[i])
    <3>1. stream'.cells[stream.pos + i] = new[i] /\ new[i] = Byte(bytes[i])
      BY <1>2, <1>5 DEF k
    <3> QED BY <1>3, <2>1, <3>1, Zenon
  <2>4. HasData(damaged, stream.cells, base, d)
    BY <1>3, <2>1
  <2>5. /\ d \o bytes \in Seq(Bytes) /\ Len(d \o bytes) = Len(d) + Len(bytes)
        /\ HasData(damaged, stream'.cells, base, d \o bytes)
        /\ Data(d \o bytes) = Data(d) \o Data(bytes)
    <3>1. bytes \in Seq(Bytes)
      BY <1>2
    <3>2. Grown(stream.cells, base, d, bytes, stream'.cells)
      BY <2>2, <2>3, Zenon DEF Grown
    <3>3. PICK file, r, h : file = stream.cells /\ r = stream'.cells /\ h = damaged
      OBVIOUS
    <3>4. HasData(h, file, base, d) /\ Grown(file, base, d, bytes, r)
      BY <2>4, <3>2, <3>3
    <3>5. d \o bytes \in Seq(Bytes)
      BY <3>1, <3>4, DataAdded
    <3>6. Len(d \o bytes) = Len(d) + Len(bytes)
      BY <3>1, <3>4, DataAdded
    <3>7. HasData(h, r, base, d \o bytes)
      BY <3>1, <3>4, DataAdded
    <3>8. Data(d \o bytes) = Data(d) \o Data(bytes)
      BY <3>1, DataJoined
    <3> QED BY <3>3, <3>5, <3>6, <3>7, <3>8
  <2> QED BY <1>3, <2>1, <2>5, Zenon DEF new, k
<1>10. written' = written /\ written' \in Finished /\ Len(written') <= MaxBlobs
  BY <1>1 DEF FileInv
<1>11. UNCHANGED <<needsUpdate, wroteHeader, readHeader, totalBlobs, toc, maxBlob, reading,
                   atClose, verified, damaged, curBlob, writing, startOffset>>
  BY <1>1 DEF headerVars, readVars
<1>12. OpenBlob(offs)'
  <2>1. c \in Records /\ c.data = b.data \o bytes /\ c.id = b.id
    BY <1>3, <1>9 DEF Records
  <2> HIDE DEF c
  <2>2. open' = <<c>> /\ open'[1] = c
    BY <1>7
  <2>3. bytesWritten' \in 0 .. MaxBytes /\ Len(c.data) = bytesWritten'
    <3>1. bytesWritten + k \in 0 .. MaxBytes
      BY <1>1, <1>2, <1>3, ContainerAssumption
    <3> QED BY <1>7, <1>9, <2>1, <3>1
  <2>4. hashed' = Data(c.data) /\ startOffset' = p /\ written' = written /\ damaged' = damaged
    BY <1>1, <1>9, <2>1 DEF p
  <2>5. stream'.pos = p + BlobHeader + bytesWritten'
    BY <1>2, <1>3, <1>5, <1>7
  <2>6. stream'.cells[p + 3] = Num(0) /\ stream'.cells[p + 4] = Num(c.id)
    <3>1. p + 3 \in 1 .. stream.pos /\ p + 4 \in 1 .. stream.pos
      BY <1>3
    <3> QED BY <1>3, <1>5, <2>1, <3>1
  <2> QED BY <1>3, <1>9, <2>1, <2>2, <2>3, <2>4, <2>5, <2>6 DEF OpenBlob
<1>13. WriteInv(offs)'
  <2>1. KnowsOffsets(offs)'
    BY <1>10, <1>11, WriterMeans DEF KnowsOffsets
  <2>2. wroteHeader' /\ atClose' = <<>> /\ writing'
    BY <1>1, <1>11, WriterMeans
  <2> QED BY <1>12, <2>1, <2>2 DEF WriteInv
<1>14. ClosedInv(offs)' /\ ReadInv(offs)'
  <2>1. /\ needsUpdate' /\ ~readHeader' /\ wroteHeader' /\ ~reading' /\ maxBlob' = 0
        /\ verified' = <<>>
    BY <1>11, WriterMeans
  <2> QED BY <2>1 DEF ClosedInv, ReadInv
<1>15. FileInv(offs)'
  BY <1>5, <1>8, <1>10, <1>13, <1>14 DEF FileInv
<1> QED BY <1>7, <1>15 DEF b

(* What EndWriteBlob and Close make of the blob that is open.                *)
LEMMA Ended ==
  ASSUME SumInv, NEW offs, FileInv(offs), needsUpdate
  PROVE  LET l == written \o open
             e == EndOfBlobs
         IN \E o : /\ l \in Finished /\ Len(l) <= MaxBlobs
                   /\ Layout(damaged, e.cells, l, o)
                   /\ Blobs = Len(l) /\ IsText(Table) /\ Len(Table) = Len(l)
                   /\ \A i \in 1 .. Len(l) : Table[i] = o[i]
                   /\ IsStream(e) /\ e.pos = o[Len(l) + 1]
                   /\ e.pos <= Len(e.cells) /\ Len(e.cells) <= Capacity
<1> DEFINE l == written \o open
           e == EndOfBlobs
           n == Len(written)
<1>1. /\ wroteHeader /\ IsStream(stream) /\ stream.pos \in 0 .. Len(stream.cells)
      /\ Len(stream.cells) \in Nat /\ Len(stream.cells) <= Capacity
      /\ n \in Nat /\ offs[n + 1] \in Nat /\ HeaderCells <= offs[n + 1]
      /\ totalBlobs = n /\ IsText(toc) /\ Len(toc) = n
      /\ \A i \in 1 .. n : toc[i] = offs[i]
  BY WriterMeans DEF KnowsOffsets
<1>2. /\ written \in Finished /\ n <= MaxBlobs /\ Layout(damaged, stream.cells, written, offs)
      /\ written \in Seq(Records)
  BY DEF FileInv, Finished
<1>3. CASE ~writing
  <2>1. open = <<>> /\ stream.pos = offs[n + 1]
    BY <1>3 DEF FileInv, WriteInv
  <2>2. l = written
    BY <1>2, <2>1, ConcatEmptySeq
  <2>3. e = stream /\ Table = toc /\ Blobs = n
    BY <1>1, <1>3 DEF EndOfBlobs, Table, Blobs
  <2>4. stream.pos <= Len(stream.cells)
    BY <1>1
  <2> HIDE DEF e, l
  <2>5. \E o : /\ l \in Finished /\ Len(l) <= MaxBlobs
               /\ Layout(damaged, e.cells, l, o)
               /\ Blobs = Len(l) /\ IsText(Table) /\ Len(Table) = Len(l)
               /\ \A i \in 1 .. Len(l) : Table[i] = o[i]
               /\ IsStream(e) /\ e.pos = o[Len(l) + 1]
               /\ e.pos <= Len(e.cells) /\ Len(e.cells) <= Capacity
    BY <1>1, <1>2, <2>1, <2>2, <2>3, <2>4, Zenon
  <2> QED BY <2>5 DEF e, l
<1>4. CASE writing
  <2> DEFINE b == open[1]
             p == startOffset
             o == Added(written, offs, b)
  <2>1. /\ open = <<b>> /\ b \in Records /\ n < MaxBlobs
        /\ p = offs[n + 1] /\ p \in Nat /\ HeaderCells <= p
        /\ bytesWritten \in Nat /\ Len(b.data) = bytesWritten /\ bytesWritten <= MaxBytes
        /\ hashed = Data(b.data)
        /\ stream.pos = p + BlobHeader + bytesWritten
        /\ stream.cells[p + 3] = Num(0) /\ stream.cells[p + 4] = Num(b.id)
        /\ HasData(damaged, stream.cells, p + BlobHeader, b.data)
    BY <1>4, OpenMeans
  <2>2. e = EndedStream /\ Table = Append(toc, p) /\ Blobs = n + 1
    BY <1>1, <1>4 DEF EndOfBlobs, Table, Blobs, Entry
  <2> HIDE DEF b, p
  <2>3. /\ IsStream(e) /\ e.pos = stream.pos /\ Len(e.cells) = Len(stream.cells)
        /\ \A i \in 1 .. Len(stream.cells) :
             e.cells[i] = IF i = p + 1 THEN Num(bytesWritten)
                          ELSE IF i = p + 2 THEN Digest(hashed) ELSE stream.cells[i]
    <3>1. stream.pos <= Len(stream.cells)
      BY <1>1
    <3> QED BY <1>1, <2>1, <2>2, <3>1, EndedMeans DEF p
  <2> HIDE DEF e
  <2>4. PICK len \in Nat, at \in Nat, k \in Nat :
          /\ len = Len(stream.cells) /\ at = p /\ k = bytesWritten
          /\ at + 4 + k <= len /\ 4 <= at
    BY <1>1, <2>1
  <2>5. ASSUME NEW i \in 1 .. len, i # at + 1, i # at + 2 PROVE e.cells[i] = stream.cells[i]
    BY <2>3, <2>4, <2>5, Zenon
  <2>6. /\ e.cells[p + 1] = Num(Len(b.data)) /\ e.cells[p + 2] = Digest(Data(b.data))
        /\ e.cells[p + 3] = Num(0) /\ e.cells[p + 4] = Num(b.id)
    <3>1. /\ at + 1 \in 1 .. len /\ at + 2 \in 1 .. len /\ at + 3 \in 1 .. len /\ at + 4 \in 1 .. len
          /\ at + 1 # at + 2 /\ at + 3 # at + 1 /\ at + 3 # at + 2
          /\ at + 4 # at + 1 /\ at + 4 # at + 2
      BY <2>4
    <3>2. e.cells[at + 1] = Num(bytesWritten)
      BY <2>3, <2>4, <3>1, Zenon
    <3>3. e.cells[at + 2] = Digest(hashed)
      BY <2>3, <2>4, <3>1, Zenon
    <3>4. e.cells[at + 3] = stream.cells[at + 3] /\ e.cells[at + 4] = stream.cells[at + 4]
      BY <2>5, <3>1, Zenon
    <3> QED BY <2>1, <2>4, <3>2, <3>3, <3>4, Zenon
  <2>7. HasData(damaged, e.cells, p + BlobHeader, b.data)
    <3>1. ASSUME NEW j \in 1 .. Len(b.data)
          PROVE  e.cells[p + BlobHeader + j] = stream.cells[p + BlobHeader + j]
      <4>1. j \in 1 .. k
        BY <2>1, <2>4
      <4>2. /\ at + BlobHeader + j \in 1 .. len /\ at + BlobHeader + j # at + 1
            /\ at + BlobHeader + j # at + 2
        BY <2>4, <4>1
      <4> QED BY <2>4, <2>5, <4>2, Zenon
    <3> QED BY <2>1, <3>1, Zenon DEF HasData
  <2>8. HasBlob(damaged, e.cells, offs[n + 1], b)
    BY <2>1, <2>6, <2>7, Zenon DEF HasBlob
  <2>9. Layout(damaged, e.cells, written, offs)
    <3>1. ASSUME NEW i \in HeaderCells + 1 .. offs[n + 1] PROVE e.cells[i] = stream.cells[i]
      <4>1. i \in 5 .. at
        BY <2>1, <2>4
      <4>2. i \in 1 .. len /\ i # at + 1 /\ i # at + 2
        BY <2>4, <4>1
      <4> QED BY <2>5, <4>2
    <3> QED BY <1>2, <3>1, LayoutKept
  <2>10. l \in Finished /\ Layout(damaged, e.cells, l, o)
    <3>1. l = written \o <<b>>
      BY <2>1
    <3> HIDE DEF l
    <3> QED BY <1>2, <2>1, <2>8, <2>9, <3>1, LayoutAdded
  <2>11. Len(l) = n + 1
    BY <1>2, <2>1, JoinedOne
  <2>12. /\ \A i \in 1 .. n + 1 : o[i] = offs[i]
         /\ o[(n + 1) + 1] = p + BlobHeader + bytesWritten
    <3>1. (n + 1) + 1 = n + 2 /\ n + 2 \in 1 .. n + 2 /\ ~ (n + 2 <= n + 1)
      BY <1>1
    <3> QED BY <1>1, <2>1, <3>1 DEF Added
  <2> HIDE DEF o, l, n
  <2>13. /\ IsText(Table) /\ Len(Table) = n + 1
         /\ \A i \in 1 .. n + 1 : Table[i] = o[i]
    <3>1. /\ IsText(Table) /\ Len(Table) = n + 1
          /\ \A i \in 1 .. n : Table[i] = toc[i]
          /\ Table[n + 1] = p
      BY <1>1, <2>2, AddedText
    <3>2. ASSUME NEW i \in 1 .. n + 1 PROVE Table[i] = o[i]
      <4>1. CASE i \in 1 .. n
        <5>1. Table[i] = offs[i]
          BY <1>1, <3>1, <4>1
        <5> QED BY <2>12, <5>1
      <4>2. CASE i = n + 1
        BY <2>1, <2>12, <3>1, <4>2
      <4> QED BY <1>1, <4>1, <4>2
    <3> QED BY <3>1, <3>2
  <2>14. n + 1 <= MaxBlobs
    BY <1>1, <2>1, ContainerAssumption
  <2>15. e.pos = o[(n + 1) + 1] /\ e.pos <= Len(e.cells) /\ Len(e.cells) <= Capacity
    BY <1>1, <2>1, <2>3, <2>12
  <2>16. \E x : /\ l \in Finished /\ Len(l) <= MaxBlobs
                /\ Layout(damaged, e.cells, l, x)
                /\ Blobs = Len(l) /\ IsText(Table) /\ Len(Table) = Len(l)
                /\ \A i \in 1 .. Len(l) : Table[i] = x[i]
                /\ IsStream(e) /\ e.pos = x[Len(l) + 1]
                /\ e.pos <= Len(e.cells) /\ Len(e.cells) <= Capacity
    BY <2>2, <2>3, <2>10, <2>11, <2>13, <2>14, <2>15, Zenon
  <2> QED BY <2>16 DEF e, l
<1> QED BY <1>3, <1>4

LEMMA FileEndWrite ==
  ASSUME SumInv, NEW offs, FileInv(offs), EndWriteBlob
  PROVE  needsUpdate /\ \E o : FileInv(o)'
<1>1. /\ writing /\ writing' = FALSE /\ stream' = EndedStream
      /\ totalBlobs' = totalBlobs + 1 /\ toc' = Append(toc, Entry(startOffset))
      /\ written' = written \o open /\ open' = <<>>
      /\ UNCHANGED <<readHeader, wroteHeader, needsUpdate, maxBlob, reading, damaged, atClose,
                     verified>>
  BY DEF EndWriteBlob, readVars
<1>2. needsUpdate
  BY <1>1 DEF FileInv, ClosedInv
<1>3. stream' = EndOfBlobs /\ toc' = Table /\ totalBlobs' = Blobs
  BY <1>1 DEF EndOfBlobs, Table, Blobs
<1>4. PICK o : /\ written' \in Finished /\ Len(written') <= MaxBlobs
               /\ Layout(damaged, stream'.cells, written', o)
               /\ totalBlobs' = Len(written') /\ IsText(toc') /\ Len(toc') = Len(written')
               /\ \A i \in 1 .. Len(written') : toc'[i] = o[i]
               /\ IsStream(stream') /\ stream'.pos = o[Len(written') + 1]
               /\ stream'.pos <= Len(stream'.cells)
  BY <1>1, <1>2, <1>3, Ended, Zenon
<1>5. stream'.pos \in 0 .. Len(stream'.cells)
  BY <1>4, TextMeans DEF IsStream
<1>6. Layout(damaged, stream.cells, written, o)'
  BY <1>1, <1>4
<1>7. /\ wroteHeader' /\ needsUpdate' /\ ~readHeader' /\ ~reading' /\ atClose' = <<>>
      /\ maxBlob' = 0 /\ verified' = <<>>
  BY <1>1, <1>2, WriterMeans
<1>8. WriteInv(o)'
  BY <1>1, <1>4, <1>7 DEF WriteInv, KnowsOffsets
<1>9. ClosedInv(o)' /\ ReadInv(o)'
  BY <1>7 DEF ClosedInv, ReadInv
<1>10. FileInv(o)'
  BY <1>4, <1>5, <1>6, <1>8, <1>9 DEF FileInv
<1> QED BY <1>2, <1>10

(* A close that fills in the header.                                         *)
LEMMA FileClosed ==
  ASSUME Roomy, SumInv, NEW offs, FileInv(offs), needsUpdate, FileIsClosed
  PROVE  /\ written' \in Finished /\ Len(written') <= MaxBlobs /\ open' = <<>>
         /\ atClose' # <<>> /\ stream'.pos \in 0 .. Len(stream'.cells)
         /\ \E o : /\ Layout(damaged, stream'.cells, written', o)
                   /\ Complete(stream'.cells, written', o)
<1> DEFINE e == EndOfBlobs
           l == written \o open
           n == Len(l)
           r == ClosedStream
<1>1. PICK o : /\ l \in Finished /\ n <= MaxBlobs /\ Layout(damaged, e.cells, l, o)
               /\ Blobs = n /\ IsText(Table) /\ Len(Table) = n
               /\ \A i \in 1 .. n : Table[i] = o[i]
               /\ IsStream(e) /\ e.pos = o[n + 1]
               /\ e.pos <= Len(e.cells) /\ Len(e.cells) <= Capacity
  BY Ended, Zenon
<1>2. stream' = r /\ written' = l /\ open' = <<>> /\ atClose' = r.cells
  BY DEF FileIsClosed
<1> DEFINE end == o[n + 1]
<1>3. /\ n \in Nat /\ end \in Nat /\ HeaderCells <= end /\ Capacity \in Nat
      /\ Len(e.cells) \in Nat
  BY <1>1, LayoutEnd, StreamAssumption, TextMeans DEF IsStream
<1>4. end + n <= Capacity
  BY <1>1, Room
<1>5. /\ IsText(Tabled) /\ Len(Tabled) = n /\ \A i \in 1 .. n : Tabled[i] = Num(o[i])
  <2>1. IsText(Tabled) /\ Len(Tabled) = n /\ DOMAIN Table = 1 .. n
    BY <1>1, ListText, TextMeans DEF Tabled
  <2> QED BY <1>1, <2>1 DEF Tabled
<1>6. InTable = n
  <2>1. InTable = Fewer(n, MoreThanNone(Capacity - end))
    BY <1>1, <1>5 DEF InTable, Fits
  <2> HIDE DEF n, end
  <2> QED BY <1>3, <1>4, <2>1 DEF Fewer, MoreThanNone
<1>7. /\ IsStream(r) /\ r.pos = 2
      /\ Len(r.cells) = IF e.pos + InTable > Len(e.cells) THEN e.pos + InTable
                        ELSE Len(e.cells)
      /\ \A i \in 1 .. Len(r.cells) :
           r.cells[i] = IF i = 2 THEN SumAtClose ELSE IF i = 3 THEN Num(Blobs)
                        ELSE IF i = 4 THEN Num(e.pos)
                        ELSE IF e.pos < i /\ i <= e.pos + InTable THEN Tabled[i - e.pos]
                        ELSE e.cells[i]
  <2>1. HeaderCells <= Len(e.cells)
    BY <1>1, <1>3
  <2> QED BY <1>1, <2>1, ClosedMeans
<1> HIDE DEF e, l, n, r
<1>8. /\ Len(r.cells) = IF end + n > Len(e.cells) THEN end + n ELSE Len(e.cells)
      /\ \A i \in 1 .. Len(r.cells) :
           r.cells[i] = IF i = 2 THEN SumAtClose ELSE IF i = 3 THEN Num(n)
                        ELSE IF i = 4 THEN Num(end)
                        ELSE IF end < i /\ i <= end + n THEN Tabled[i - end]
                        ELSE e.cells[i]
  BY <1>1, <1>6, <1>7, Zenon
<1> HIDE DEF end
<1>9. Len(r.cells) \in Nat /\ end + n <= Len(r.cells)
  BY <1>3, <1>8
<1>10. Layout(damaged, r.cells, l, o)
  <2>1. ASSUME NEW i \in HeaderCells + 1 .. end PROVE r.cells[i] = e.cells[i]
    <3>1. i \in 1 .. Len(r.cells) /\ i # 2 /\ i # 3 /\ i # 4 /\ ~ (end < i)
      BY <1>3, <1>9
    <3> QED BY <1>8, <3>1, Zenon
  <2> QED BY <1>1, <2>1, LayoutKept DEF n, end
<1>11. Complete(r.cells, l, o)
  <2>1. r.cells[3] = Num(n)
    <3>1. 3 \in 1 .. Len(r.cells)
      BY <1>3, <1>9
    <3> QED BY <1>8, <3>1
  <2>2. r.cells[4] = Num(end)
    <3>1. 4 \in 1 .. Len(r.cells)
      BY <1>3, <1>9
    <3> QED BY <1>8, <3>1
  <2>3. ASSUME NEW i \in 1 .. n PROVE r.cells[end + i] = Num(o[i])
    <3>1. /\ end + i \in 1 .. Len(r.cells) /\ end + i # 2 /\ end + i # 3 /\ end + i # 4
          /\ end < end + i /\ end + i <= end + n /\ (end + i) - end = i
      BY <1>3, <1>9
    <3>2. r.cells[end + i] = Tabled[(end + i) - end]
      BY <1>8, <3>1, Zenon
    <3>3. Tabled[i] = Num(o[i])
      BY <1>5
    <3> QED BY <3>1, <3>2, <3>3, Zenon
  <2> QED BY <1>9, <2>1, <2>2, <2>3 DEF Complete, n, end
<1>12. r.cells # <<>> /\ r.pos \in 0 .. Len(r.cells)
  BY <1>3, <1>7, <1>9
<1> QED BY <1>1, <1>2, <1>10, <1>11, <1>12 DEF n

(* One that has nothing to fill in.                                          *)
LEMMA FileIsSame ==
  ASSUME NEW offs, FileInv(offs), ~needsUpdate, FileIsClosed
  PROVE  ~writing /\ UNCHANGED <<stream, written, open, atClose>>
<1>1. ~writing /\ open = <<>> /\ written \in Seq(Records)
  BY DEF FileInv, ClosedInv, Finished
<1>2. written \o <<>> = written
  BY <1>1, ConcatEmptySeq
<1> QED BY <1>1, <1>2 DEF FileIsClosed, ClosedStream, EndOfBlobs

LEMMA FileClose ==
  ASSUME Roomy, SumInv, NEW offs, FileInv(offs), Close
  PROVE  \E o : FileInv(o)'
<1>1. /\ FileIsClosed /\ writing' = FALSE /\ needsUpdate' = FALSE
      /\ totalBlobs' = Blobs /\ toc' = Table
      /\ curBlob' = IF writing THEN curBlob + 1 ELSE curBlob
      /\ UNCHANGED <<readHeader, wroteHeader, maxBlob, ignore, readVars, hashed, damaged, seen,
                     verified>>
  BY DEF Close
<1>2. CASE needsUpdate
  <2>1. PICK o : /\ Layout(damaged, stream'.cells, written', o)
                 /\ Complete(stream'.cells, written', o)
                 /\ written' \in Finished /\ Len(written') <= MaxBlobs /\ open' = <<>>
                 /\ atClose' # <<>> /\ stream'.pos \in 0 .. Len(stream'.cells)
    BY <1>1, <1>2, FileClosed, Zenon
  <2>2. Layout(damaged, stream.cells, written, o)'
    BY <1>1, <2>1
  <2>3. /\ ~readHeader' /\ wroteHeader' /\ ~reading' /\ maxBlob' = 0 /\ verified' = <<>>
    BY <1>1, <1>2, WriterMeans DEF readVars
  <2>4. WriteInv(o)' /\ ClosedInv(o)' /\ ReadInv(o)'
    BY <1>1, <2>1, <2>3 DEF WriteInv, ClosedInv, ReadInv
  <2> QED BY <2>1, <2>2, <2>4 DEF FileInv
<1>3. CASE ~needsUpdate
  <2>1. ~writing /\ UNCHANGED <<stream, written, open, atClose>>
    BY <1>1, <1>3, FileIsSame
  <2>2. ~needsUpdate' /\ ~writing' /\ UNCHANGED <<toc, curBlob>>
    BY <1>1, <2>1 DEF Table
  <2>3. readHeader \/ ~wroteHeader => totalBlobs' = totalBlobs
    <3>1. Len(written) \in Nat
      BY LayoutEnd DEF FileInv
    <3>2. readHeader \/ ~wroteHeader => totalBlobs \in Nat
      BY <3>1 DEF FileInv, ReadInv, KnowsOffsets
    <3> QED BY <1>1, <2>1, <3>2 DEF Blobs
  <2>4. UNCHANGED <<reading, blobSize, blobMD5, bytesRead, gotId, delivered, readHeader,
                    wroteHeader, maxBlob, ignore, hashed, damaged, verified>>
    BY <1>1 DEF readVars, seen
  <2>5. WriteInv(offs)' /\ ClosedInv(offs)'
    BY <1>3, <2>1, <2>2, <2>4 DEF WriteInv, ClosedInv, FileInv
  <2>6. ReadInv(offs)'
    <3>1. ReadBlob(offs) => ReadBlob(offs)'
      BY <2>1, <2>2, <2>4 DEF ReadBlob
    <3>2. readHeader /\ KnowsOffsets(offs) => KnowsOffsets(offs)'
      BY <2>1, <2>2, <2>3 DEF KnowsOffsets
    <3> QED BY <2>1, <2>2, <2>3, <2>4, <3>1, <3>2 DEF ReadInv, FileInv
  <2>7. FileInv(offs)'
    BY <2>1, <2>4, <2>5, <2>6 DEF FileInv
  <2> QED BY <2>7
<1> QED BY <1>2, <1>3

LEMMA FileCreateInstance ==
  ASSUME Roomy, SumInv, NEW offs, FileInv(offs), CreateInstance
  PROVE  \E o : FileInv(o)'
<1>1. /\ FileIsClosed /\ writing' = FALSE /\ needsUpdate' = FALSE
      /\ readHeader' = FALSE /\ wroteHeader' = FALSE /\ reading' = FALSE
      /\ totalBlobs' = 0 /\ toc' = <<>> /\ maxBlob' = 0 /\ curBlob' = 0 /\ verified' = <<>>
      /\ UNCHANGED damaged
  BY DEF CreateInstance
<1>2. CASE needsUpdate
  <2>1. PICK o : /\ Layout(damaged, stream'.cells, written', o)
                 /\ Complete(stream'.cells, written', o)
                 /\ written' \in Finished /\ Len(written') <= MaxBlobs /\ open' = <<>>
                 /\ atClose' # <<>> /\ stream'.pos \in 0 .. Len(stream'.cells)
    BY <1>1, <1>2, FileClosed, Zenon
  <2>2. Layout(damaged, stream.cells, written, o)'
    BY <1>1, <2>1
  <2>3. WriteInv(o)' /\ ClosedInv(o)' /\ ReadInv(o)'
    BY <1>1, <2>1 DEF WriteInv, ClosedInv, ReadInv
  <2> QED BY <2>1, <2>2, <2>3 DEF FileInv
<1>3. CASE ~needsUpdate
  <2>1. ~writing /\ UNCHANGED <<stream, written, open, atClose>>
    BY <1>1, <1>3, FileIsSame
  <2>2. WriteInv(offs)' /\ ClosedInv(offs)' /\ ReadInv(offs)'
    BY <1>1, <1>3, <2>1 DEF WriteInv, ClosedInv, ReadInv, FileInv
  <2>3. FileInv(offs)'
    BY <1>1, <2>1, <2>2 DEF FileInv
  <2> QED BY <2>3
<1> QED BY <1>2, <1>3

(* The offsets are found in the file or in the memory of the writer.         *)
FileState == SumInv /\ \E offs : FileInv(offs)

LEMMA FileWriter ==
  ASSUME Roomy, FileState, Writer PROVE \E o : FileInv(o)'
<1>1. PICK offs : FileInv(offs)
  BY DEF FileState
<1>2. SumInv
  BY DEF FileState
<1>3. CASE WriteHeader
  BY <1>1, <1>2, <1>3, FileWriteHeader
<1>4. CASE EndWriteBlob
  BY <1>1, <1>2, <1>4, FileEndWrite
<1>5. CASE Close
  BY <1>1, <1>2, <1>5, FileClose
<1>6. CASE CreateInstance
  BY <1>1, <1>2, <1>6, FileCreateInstance
<1>7. CASE \E id \in Ids : StartWriteBlob(id)
  BY <1>1, <1>2, <1>7, FileStartWrite
<1>8. CASE \E bytes \in Pieces : WriteToBlob(bytes)
  <2>1. writing
    BY <1>8 DEF WriteToBlob
  <2>2. needsUpdate
    BY <1>1, <2>1 DEF FileInv, ClosedInv
  <2> QED BY <1>1, <1>2, <1>8, <2>2, FileWrite
<1> QED BY <1>3, <1>4, <1>5, <1>6, <1>7, <1>8 DEF Writer

LEMMA FileReader ==
  ASSUME FileState, Reader PROVE \E o : FileInv(o)'
<1>1. PICK offs : FileInv(offs)
  BY DEF FileState
<1>2. SumInv
  BY DEF FileState
<1>3. CASE ReadHeader
  BY <1>1, <1>2, <1>3, FileReadHeader
<1>4. CASE StartReadBlob
  BY <1>1, <1>2, <1>4, FileStartRead
<1>5. CASE EndReadBlob
  BY <1>1, <1>2, <1>5, FileEndRead
<1>6. CASE VerifyContainer
  BY <1>1, <1>2, <1>6, FileVerify
<1>7. CASE \E i \in 0 .. MaxBlobs - 1 : JumpToBlob(i)
  BY <1>1, <1>2, <1>7, FileJump
<1>8. CASE \E m \in ReadSizes : ReadFromBlob(m)
  BY <1>1, <1>2, <1>8, FileReadFrom
<1> QED BY <1>3, <1>4, <1>5, <1>6, <1>7, <1>8 DEF Reader

LEMMA FileNext ==
  ASSUME Roomy, FileState, [Next]_vars PROVE FileState'
<1>1. SumInv'
  BY SumNext DEF FileState
<1>2. CASE Writer
  BY <1>1, <1>2, FileWriter DEF FileState
<1>3. CASE Reader
  BY <1>1, <1>3, FileReader DEF FileState
<1>4. CASE Damage
  BY <1>1, <1>4, FileDamage DEF FileState
<1>5. CASE UNCHANGED vars
  <2>1. PICK offs : FileInv(offs)
    BY DEF FileState
  <2>2. UNCHANGED <<stream, readHeader, wroteHeader, needsUpdate, writing, bytesWritten,
                    startOffset, blobSize, blobMD5, bytesRead, reading, totalBlobs, hashed, toc,
                    curBlob, maxBlob, ignore, written, open, gotId, delivered, atClose,
                    damaged, verified>>
    BY <1>5 DEF vars, headerVars, writeVars, readVars, store, seen
  <2>3. FileInv(offs)'
    BY <2>1, <2>2 DEF FileInv, WriteInv, ClosedInv, ReadInv, KnowsOffsets, OpenBlob, ReadBlob
  <2> QED BY <1>1, <2>3 DEF FileState
<1> QED BY <1>2, <1>3, <1>4, <1>5 DEF Next

LEMMA AlwaysFile == ASSUME Roomy PROVE Spec => []FileState
<1>1. Init => FileState
  BY SumInit, FileInit DEF FileState
<1>2. FileState /\ [Next]_vars => FileState'
  BY FileNext
<1> QED BY <1>1, <1>2, PTL DEF Spec

(* Once ReadHeader has succeeded the object knows the container.             *)
THEOREM KnowsItsFile == ASSUME Roomy PROVE Spec => []KnowsTheFile
<1>1. FileState => KnowsTheFile
  <2> SUFFICES ASSUME FileState, readHeader PROVE KnowsTheFile
    BY DEF KnowsTheFile
  <2>1. PICK offs : FileInv(offs)
    BY DEF FileState
  <2>2. /\ KnowsOffsets(offs) /\ maxBlob = Max({0} \cup Sizes(written))
        /\ ~reading /\ curBlob < Len(written) /\ verified = <<>> => stream.pos = offs[curBlob + 1]
        /\ curBlob \in 0 .. Len(written)
    BY <2>1 DEF FileInv, ReadInv
  <2>3. Complete(stream.cells, written, offs)
    BY <2>1, ReaderMeans DEF FileState
  <2>4. Len(written) \in Nat /\ DOMAIN written = 1 .. Len(written)
    BY <2>1, LayoutEnd DEF FileInv
  <2>5. maxBlob = Max({0} \cup {Len(written[i].data) : i \in DOMAIN written})
    BY <2>2, <2>4, Zenon DEF Sizes
  <2>6. ASSUME NEW i \in DOMAIN written
        PROVE  toc[i] + BlobHeader + Len(written[i].data)
                 = IF i < totalBlobs THEN toc[i + 1] ELSE stream.cells[HeaderCells][2]
    <3>1. toc[i] + BlobHeader + Len(written[i].data) = offs[i + 1]
      BY <2>1, <2>2, <2>4, LayoutAt DEF FileInv, KnowsOffsets
    <3>2. CASE i < totalBlobs
      <4>1. i + 1 \in 1 .. Len(written)
        BY <2>2, <2>4, <3>2 DEF KnowsOffsets
      <4> QED BY <2>2, <3>1, <3>2, <4>1 DEF KnowsOffsets
    <3>3. CASE ~ (i < totalBlobs)
      <4>1. i = Len(written)
        BY <2>2, <2>4, <3>3 DEF KnowsOffsets
      <4>2. stream.cells[4][2] = offs[Len(written) + 1]
        BY <2>3 DEF Complete, Num
      <4> QED BY <3>1, <3>3, <4>1, <4>2
    <3> QED BY <3>2, <3>3
  <2>7. ~reading /\ curBlob < totalBlobs /\ verified = <<>> => stream.pos = toc[curBlob + 1]
    <3>1. curBlob < Len(written) => curBlob + 1 \in 1 .. Len(written)
      BY <2>2, <2>4
    <3> QED BY <2>2, <3>1 DEF KnowsOffsets
  <2> QED BY <2>2, <2>5, <2>6, <2>7, Zenon DEF KnowsTheFile, KnowsOffsets
<1> QED BY <1>1, AlwaysFile, PTL

-----------------------------------------------------------------------------
(* The container implements the store                                        *)

LEMMA Prefix ==
  ASSUME NEW q, NEW t, IsText(q), IsText(t), Len(q) <= Len(t),
         \A i \in 1 .. Len(q) : q[i] = t[i]
  PROVE  Store!IsPrefix(q, t)
<1>1. PICK S, T : q \in Seq(S) /\ t \in Seq(T)
  BY DEF IsText
<1>2. SubSeq(q, 1, Len(q)) = q
  BY <1>1, SubSeqFull
<1>3. /\ IsText(SubSeq(t, 1, Len(q))) /\ Len(SubSeq(t, 1, Len(q))) = Len(q)
      /\ \A i \in 1 .. Len(q) : SubSeq(t, 1, Len(q))[i] = t[i]
  <2>1. SubSeq(t, 1, Len(q)) \in Seq(T) /\ Len(q) \in Nat
    BY <1>1
  <2>2. Len(SubSeq(t, 1, Len(q))) = Len(q)
    BY <1>1
  <2>3. \A i \in 1 .. Len(q) : SubSeq(t, 1, Len(q))[i] = t[i]
    BY <1>1
  <2> QED BY <2>1, <2>2, <2>3 DEF IsText
<1>4. SubSeq(t, 1, Len(q)) = q
  BY <1>3, SameText
<1> QED BY <1>2, <1>4 DEF Store!IsPrefix

LEMMA LongerPrefix ==
  ASSUME NEW q, NEW more, IsText(q), IsText(more)
  PROVE  Store!IsPrefix(q, q \o more)
<1>1. /\ IsText(q \o more) /\ Len(q \o more) = Len(q) + Len(more)
      /\ \A i \in 1 .. Len(q) + Len(more) :
           (q \o more)[i] = IF i <= Len(q) THEN q[i] ELSE more[i - Len(q)]
  BY JoinedText
<1>2. Len(q) \in Nat /\ Len(more) \in Nat
  BY DEF IsText
<1>3. \A i \in 1 .. Len(q) : q[i] = (q \o more)[i]
  BY <1>1, <1>2
<1> DEFINE t == q \o more
<1>4. IsText(t) /\ Len(q) <= Len(t) /\ \A i \in 1 .. Len(q) : q[i] = t[i]
  BY <1>1, <1>2, <1>3
<1> HIDE DEF t
<1>5. Store!IsPrefix(q, t)
  BY <1>4, Prefix
<1> QED BY <1>5 DEF t

LEMMA StoreInit == Init => Store!Init
  BY DEF Init, Store!Init

LEMMA StoreBegin ==
  ASSUME Roomy, SumInv, NEW offs, FileInv(offs), WriteHeader
  PROVE  Store!Begin
<1>1. /\ ~readHeader /\ written' = <<>> /\ open' = <<>> /\ damaged' = FALSE
      /\ UNCHANGED <<reading, curBlob, ignore, seen>>
  BY DEF WriteHeader, readVars
<1>2. needsUpdate'
  BY FileWriteHeader
<1>3. ~reading
  BY <1>1 DEF FileInv, ReadInv
<1> QED BY <1>1, <1>2, <1>3 DEF Store!Begin, Store!reader, seen

LEMMA StoreStartWrite ==
  ASSUME Roomy, SumInv, NEW offs, FileInv(offs), NEW id \in Ids, StartWriteBlob(id)
  PROVE  Store!StartWrite
<1>1. needsUpdate /\ open = <<>> /\ Len(open') = 1 /\ open'[1].data = <<>>
  BY FileStartWrite
<1>2. UNCHANGED <<needsUpdate, atClose, written, damaged, reading, curBlob, ignore, seen>>
  BY DEF StartWriteBlob, headerVars, readVars
<1> QED BY <1>1, <1>2 DEF Store!StartWrite, Store!reader, seen

LEMMA StoreWrite ==
  ASSUME Roomy, SumInv, NEW offs, FileInv(offs), NEW bytes \in Pieces, WriteToBlob(bytes)
  PROVE  Store!Write
<1>1. writing /\ needsUpdate
  BY DEF WriteToBlob, FileInv, ClosedInv
<1>2. open = <<open[1]>> /\ open[1].data \in Seq(Bytes)
  BY <1>1, OpenMeans
<1>3. open' = <<[id |-> open[1].id, data |-> open[1].data \o bytes]>>
  BY <1>1, FileWrite
<1>4. UNCHANGED <<needsUpdate, atClose, written, damaged, reading, curBlob, ignore, seen>>
  BY DEF WriteToBlob, headerVars, readVars
<1>5. Len(open) = 1
  BY <1>2
<1>6. Len(open') = 1 /\ open'[1].id = open[1].id /\ open'[1].data = open[1].data \o bytes
  BY <1>3
<1>7. Store!IsPrefix(open[1].data, open'[1].data)
  <2>1. IsText(open[1].data) /\ IsText(bytes)
    BY <1>2, PieceText DEF IsText
  <2> QED BY <1>6, <2>1, LongerPrefix
<1> QED BY <1>4, <1>5, <1>6, <1>7 DEF Store!Write, Store!reader, seen

LEMMA StoreEndWrite ==
  ASSUME SumInv, NEW offs, FileInv(offs), EndWriteBlob
  PROVE  Store!EndWrite
<1>1. writing /\ needsUpdate
  BY FileEndWrite DEF EndWriteBlob
<1>2. open = <<open[1]>> /\ ~reading
  BY <1>1, OpenMeans, WriterMeans
<1>3. /\ written' = written \o open /\ open' = <<>>
      /\ UNCHANGED <<needsUpdate, atClose, damaged, reading, ignore, seen>>
  BY DEF EndWriteBlob, readVars
<1>4. Len(open) = 1
  BY <1>2
<1> QED BY <1>2, <1>3, <1>4 DEF Store!EndWrite, Store!reader, seen

LEMMA StoreClose ==
  ASSUME Roomy, SumInv, NEW offs, FileInv(offs), Close
  PROVE  Store!Next \/ UNCHANGED Store!vars
<1>1. /\ FileIsClosed /\ written' = written \o open /\ open' = <<>> /\ ~needsUpdate'
      /\ curBlob' = (IF writing THEN curBlob + 1 ELSE curBlob)
      /\ UNCHANGED <<damaged, reading, ignore, seen>>
  BY DEF Close, FileIsClosed, readVars
<1>2. CASE needsUpdate
  <2>1. atClose' # <<>> /\ ~reading
    BY <1>1, <1>2, FileClosed, WriterMeans
  <2>2. Store!Close
    BY <1>1, <1>2, <2>1 DEF Store!Close, Store!reader, seen
  <2> QED BY <2>2 DEF Store!Next
<1>3. CASE ~needsUpdate
  <2>1. ~writing /\ UNCHANGED <<written, open, atClose>>
    BY <1>1, <1>3, FileIsSame
  <2>2. UNCHANGED curBlob
    BY <1>1, <2>1
  <2> QED BY <1>1, <1>3, <2>1, <2>2 DEF Store!vars, seen
<1> QED BY <1>2, <1>3

LEMMA StoreCreateInstance ==
  ASSUME Roomy, SumInv, NEW offs, FileInv(offs), CreateInstance
  PROVE  Store!Next
<1>1. /\ FileIsClosed /\ written' = written \o open /\ open' = <<>> /\ ~needsUpdate'
      /\ ignore' \in BOOLEAN /\ ~reading' /\ gotId' = 0 /\ delivered' = <<>> /\ verdict' = "none"
      /\ UNCHANGED damaged
  BY DEF CreateInstance, FileIsClosed
<1>2. Store!NewReader
  BY <1>1 DEF Store!NewReader
<1>3. CASE needsUpdate
  <2>1. atClose' # <<>>
    BY <1>1, <1>3, FileClosed
  <2>2. Store!Close
    BY <1>1, <1>2, <1>3, <2>1 DEF Store!Close
  <2> QED BY <2>2 DEF Store!Next
<1>4. CASE ~needsUpdate
  <2>1. UNCHANGED <<written, open, atClose>>
    BY <1>1, <1>4, FileIsSame
  <2>2. Store!Reopen
    BY <1>1, <1>2, <1>4, <2>1 DEF Store!Reopen, Store!writer
  <2> QED BY <2>2 DEF Store!Next
<1> QED BY <1>3, <1>4

(* What the reader knows of the blob it is reading.                          *)
LEMMA ReadBlobMeans ==
  ASSUME NEW offs, FileInv(offs), reading
  PROVE  LET b == written[curBlob + 1]
         IN /\ readHeader /\ curBlob + 1 \in DOMAIN written /\ curBlob + 1 > 0
            /\ b.data \in Seq(Bytes) /\ Len(b.data) \in Nat
            /\ blobSize = Len(b.data) /\ blobMD5 = Digest(Data(b.data)) /\ gotId = b.id
            /\ bytesRead \in 0 .. blobSize
            /\ IsText(delivered) /\ Len(delivered) = bytesRead
            /\ damaged \/ \A j \in 1 .. bytesRead : delivered[j] = b.data[j]
            /\ ignore \/ /\ IsText(hashed) /\ Len(hashed) = bytesRead
                         /\ \A j \in 1 .. bytesRead : hashed[j] = Byte(delivered[j])
<1>1. readHeader /\ ReadBlob(offs) /\ curBlob \in 0 .. Len(written)
  BY DEF FileInv, ReadInv
<1>2. curBlob < Len(written)
  BY <1>1 DEF ReadBlob
<1>3. Len(written) \in Nat /\ DOMAIN written = 1 .. Len(written) /\ written \in Seq(Records)
  BY DEF FileInv, Finished
<1>4. curBlob + 1 \in 1 .. Len(written) /\ curBlob + 1 > 0
  BY <1>1, <1>2, <1>3
<1>5. written[curBlob + 1] \in Records
  BY <1>3, <1>4
<1>6. written[curBlob + 1].data \in Seq(Bytes)
  BY <1>5 DEF Records
<1>7. Len(written[curBlob + 1].data) \in Nat
  BY <1>6
<1> QED BY <1>1, <1>3, <1>4, <1>6, <1>7 DEF ReadBlob

LEMMA StoreStutters ==
  ASSUME NEW offs, FileInv(offs),
         ReadHeader \/ VerifyContainer \/ \E i \in 0 .. MaxBlobs - 1 : JumpToBlob(i)
  PROVE  UNCHANGED Store!vars
<1>1. CASE ReadHeader \/ VerifyContainer
  <2>1. UNCHANGED <<needsUpdate, atClose, written, open, damaged, ignore, reading, curBlob, seen>>
    BY <1>1 DEF ReadHeader, VerifyContainer, headerVars, readVars, store
  <2> QED BY <2>1 DEF Store!vars, seen
<1>2. CASE \E i \in 0 .. MaxBlobs - 1 : JumpToBlob(i)
  <2>1. /\ ~reading /\ ~reading'
        /\ UNCHANGED <<needsUpdate, atClose, written, open, damaged, ignore, seen>>
    BY <1>2 DEF JumpToBlob, headerVars, readVars, store
  <2> QED BY <2>1 DEF Store!vars, seen
<1> QED BY <1>1, <1>2

LEMMA StoreOpenBlob ==
  ASSUME SumInv, NEW offs, FileInv(offs), StartReadBlob
  PROVE  Store!OpenBlob \/ UNCHANGED Store!vars
<1>1. /\ readHeader /\ ~reading
      /\ UNCHANGED <<needsUpdate, atClose, written, open, damaged, ignore, curBlob>>
  BY DEF StartReadBlob, headerVars, store
<1>2. ~needsUpdate /\ atClose # <<>>
  BY <1>1, ReaderMeans
<1>3. CASE reading' /\ delivered' = <<>> /\ verdict' = "none"
  <2>1. FileInv(offs)'
    BY FileStartRead
  <2>2. ReadBlob(offs)'
    BY <1>3, <2>1 DEF FileInv, ReadInv
  <2>3. curBlob < Len(written) /\ gotId' = written[curBlob + 1].id
    BY <1>1, <2>2 DEF ReadBlob
  <2>4. /\ curBlob \in 0 .. Len(written) /\ Len(written) \in Nat
        /\ DOMAIN written = 1 .. Len(written)
    BY <1>1 DEF FileInv, ReadInv, Finished
  <2>5. curBlob + 1 \in DOMAIN written
    BY <2>3, <2>4
  <2> QED BY <1>1, <1>2, <1>3, <2>3, <2>5 DEF Store!OpenBlob, Store!writer
<1>4. CASE UNCHANGED <<reading, seen>>
  BY <1>1, <1>4 DEF Store!vars, seen
<1> QED BY <1>3, <1>4, FileStartRead

LEMMA StoreRead ==
  ASSUME SumInv, NEW offs, FileInv(offs), NEW m \in ReadSizes, ReadFromBlob(m)
  PROVE  Store!Read
<1> DEFINE b == written[curBlob + 1]
<1>1. /\ reading
      /\ UNCHANGED <<needsUpdate, atClose, written, open, damaged, ignore, curBlob, reading,
                     gotId, verdict>>
  BY DEF ReadFromBlob, headerVars, store
<1>2. FileInv(offs)' /\ \E more : IsText(more) /\ delivered' = delivered \o more
  BY FileReadFrom
<1>3. /\ curBlob + 1 > 0 /\ IsText(delivered)
      /\ b.data \in Seq(Bytes) /\ Len(b.data) \in Nat
  BY <1>1, ReadBlobMeans
<1>4. /\ bytesRead' \in 0 .. Len(b.data)
      /\ IsText(delivered') /\ Len(delivered') = bytesRead'
      /\ damaged \/ \A j \in 1 .. bytesRead' : delivered'[j] = b.data[j]
  <2>1. /\ bytesRead' \in 0 .. blobSize' /\ blobSize' = Len(b'.data)
        /\ IsText(delivered') /\ Len(delivered') = bytesRead'
        /\ damaged' \/ \A j \in 1 .. bytesRead' : delivered'[j] = b'.data[j]
    <3>1. ReadBlob(offs)'
      BY <1>1, <1>2 DEF FileInv, ReadInv
    <3> QED BY <3>1 DEF ReadBlob
  <2>2. b' = b /\ damaged' = damaged
    BY <1>1
  <2> QED BY <2>1, <2>2
<1> HIDE DEF b
<1>5. Store!IsPrefix(delivered, delivered')
  BY <1>2, <1>3, LongerPrefix
<1>6. Len(delivered') <= Len(b.data)
  BY <1>3, <1>4
<1>7. ~damaged => Store!IsPrefix(delivered', b.data)
  <2> SUFFICES ASSUME ~damaged PROVE Store!IsPrefix(delivered', b.data)
    OBVIOUS
  <2>1. \A j \in 1 .. Len(delivered') : delivered'[j] = b.data[j]
    BY <1>4
  <2>2. IsText(b.data)
    BY <1>3 DEF IsText
  <2> QED BY <1>4, <1>6, <2>1, <2>2, Prefix
<1> QED BY <1>1, <1>3, <1>5, <1>6, <1>7 DEF Store!Read, Store!writer, b

(* The digest of the data that was written is found again only for them.     *)
LEMMA StoreEndRead ==
  ASSUME NEW offs, FileInv(offs), EndReadBlob
  PROVE  Store!EndsWell \/ Store!EndsBadly
<1> DEFINE b == written[curBlob + 1]
<1>1. /\ reading /\ bytesRead = blobSize /\ ~reading'
      /\ verdict' = IF ignore \/ Digest(hashed) = blobMD5 THEN "good" ELSE "bad"
      /\ UNCHANGED <<needsUpdate, atClose, written, open, damaged, ignore, gotId, delivered>>
  BY DEF EndReadBlob, headerVars, store
<1>2. /\ curBlob + 1 > 0 /\ IsText(delivered) /\ Len(delivered) = Len(b.data)
      /\ b.data \in Seq(Bytes) /\ Len(b.data) \in Nat
      /\ blobMD5 = Digest(Data(b.data))
      /\ damaged \/ \A j \in 1 .. Len(b.data) : delivered[j] = b.data[j]
      /\ ignore \/ /\ IsText(hashed) /\ Len(hashed) = Len(b.data)
                   /\ \A j \in 1 .. Len(b.data) : hashed[j] = Byte(delivered[j])
  BY <1>1, ReadBlobMeans
<1> HIDE DEF b
<1>3. /\ IsText(Data(b.data)) /\ Len(Data(b.data)) = Len(b.data)
      /\ \A j \in 1 .. Len(b.data) : Data(b.data)[j] = Byte(b.data[j])
  BY <1>2, DataText
<1>4. ASSUME \A j \in 1 .. Len(b.data) : delivered[j] = b.data[j]
      PROVE  delivered = b.data
  <2>1. IsText(b.data)
    BY <1>2 DEF IsText
  <2>2. \A j \in 1 .. Len(delivered) : delivered[j] = b.data[j]
    BY <1>2, <1>4
  <2> QED BY <1>2, <2>1, <2>2, SameText
<1>5. ASSUME ~ignore, Digest(hashed) = blobMD5 PROVE delivered = b.data
  <2>1. hashed = Data(b.data)
    BY <1>2, <1>5 DEF Digest
  <2>2. ASSUME NEW j \in 1 .. Len(b.data) PROVE delivered[j] = b.data[j]
    <3>1. Byte(delivered[j]) = Byte(b.data[j])
      BY <1>2, <1>3, <1>5, <2>1
    <3> QED BY <3>1 DEF Byte
  <2> QED BY <1>4, <2>2
<1>6. ASSUME ~damaged PROVE delivered = b.data /\ (ignore \/ Digest(hashed) = blobMD5)
  <2>1. delivered = b.data
    BY <1>2, <1>4, <1>6
  <2>2. ASSUME ~ignore PROVE hashed = Data(b.data)
    <3>1. \A j \in 1 .. Len(hashed) : hashed[j] = Data(b.data)[j]
      BY <1>2, <1>3, <2>1, <2>2
    <3> QED BY <1>2, <1>3, <2>2, <3>1, SameText
  <2> QED BY <1>2, <2>1, <2>2
<1>7. CASE ignore \/ Digest(hashed) = blobMD5
  <2>1. (ignore /\ damaged) \/ delivered = b.data
    BY <1>5, <1>6, <1>7
  <2> QED BY <1>1, <1>2, <1>7, <2>1 DEF Store!EndsWell, Store!writer, b
<1>8. CASE ~ (ignore \/ Digest(hashed) = blobMD5)
  <2>1. damaged
    BY <1>6, <1>8
  <2> QED BY <1>1, <1>2, <1>8, <2>1 DEF Store!EndsBadly, Store!writer
<1> QED BY <1>7, <1>8

LEMMA StoreDamage ==
  ASSUME SumInv, NEW offs, FileInv(offs), Damage
  PROVE  Store!Damage
<1>1. /\ DOMAIN stream.cells # {} /\ damaged' = TRUE
      /\ UNCHANGED <<needsUpdate, atClose, written, open, ignore, reading, curBlob, seen>>
  BY DEF Damage, headerVars, readVars
<1>2. stream.cells # <<>>
  BY <1>1
<1>3. needsUpdate \/ atClose # <<>>
  BY <1>2 DEF FileInv, ClosedInv
<1> QED BY <1>1, <1>3 DEF Store!Damage, Store!reader, seen

LEMMA StoreWriter ==
  ASSUME Roomy, FileState, Writer
  PROVE  Store!Next \/ UNCHANGED Store!vars
<1>1. PICK offs : FileInv(offs)
  BY DEF FileState
<1>2. SumInv
  BY DEF FileState
<1>3. CASE WriteHeader
  BY <1>1, <1>2, <1>3, StoreBegin DEF Store!Next
<1>4. CASE EndWriteBlob
  BY <1>1, <1>2, <1>4, StoreEndWrite DEF Store!Next
<1>5. CASE Close
  BY <1>1, <1>2, <1>5, StoreClose
<1>6. CASE CreateInstance
  BY <1>1, <1>2, <1>6, StoreCreateInstance
<1>7. CASE \E id \in Ids : StartWriteBlob(id)
  BY <1>1, <1>2, <1>7, StoreStartWrite DEF Store!Next
<1>8. CASE \E bytes \in Pieces : WriteToBlob(bytes)
  BY <1>1, <1>2, <1>8, StoreWrite DEF Store!Next
<1> QED BY <1>3, <1>4, <1>5, <1>6, <1>7, <1>8 DEF Writer

LEMMA StoreReader ==
  ASSUME FileState, Reader
  PROVE  Store!Next \/ UNCHANGED Store!vars
<1>1. PICK offs : FileInv(offs)
  BY DEF FileState
<1>2. SumInv
  BY DEF FileState
<1>3. CASE ReadHeader \/ VerifyContainer \/ \E i \in 0 .. MaxBlobs - 1 : JumpToBlob(i)
  BY <1>1, <1>3, StoreStutters
<1>4. CASE StartReadBlob
  BY <1>1, <1>2, <1>4, StoreOpenBlob DEF Store!Next
<1>5. CASE EndReadBlob
  BY <1>1, <1>5, StoreEndRead DEF Store!Next
<1>6. CASE \E m \in ReadSizes : ReadFromBlob(m)
  BY <1>1, <1>2, <1>6, StoreRead DEF Store!Next
<1> QED BY <1>3, <1>4, <1>5, <1>6 DEF Reader

(* The container implements the store: its methods, in whatever order they   *)
(* are called, return of a file what was written to it.                      *)
THEOREM ImplementsStore == ASSUME Roomy PROVE Spec => Implements
<1>1. Init => Store!Init
  BY StoreInit
<1>2. FileState /\ [Next]_vars => [Store!Next]_Store!vars
  <2> SUFFICES ASSUME FileState, [Next]_vars PROVE Store!Next \/ UNCHANGED Store!vars
    OBVIOUS
  <2>1. CASE Writer
    BY <2>1, StoreWriter
  <2>2. CASE Reader
    BY <2>2, StoreReader
  <2>3. CASE Damage
    BY <2>3, StoreDamage DEF FileState, Store!Next
  <2>4. CASE UNCHANGED vars
    BY <2>4 DEF vars, headerVars, readVars, store, seen, Store!vars
  <2> QED BY <2>1, <2>2, <2>3, <2>4 DEF Next
<1> QED BY <1>1, <1>2, AlwaysFile, PTL DEF Spec, Implements, Store!Spec

-----------------------------------------------------------------------------
(* The types                                                                 *)

Flags == {readHeader, wroteHeader, needsUpdate, writing, reading, ignore, damaged} \subseteq BOOLEAN

(* What an object has counted, whether it reads, writes or has closed.       *)
Counted ==
  /\ Flags
  /\ bytesWritten \in 0 .. MaxBytes
  /\ totalBlobs \in 0 .. MaxBlobs /\ Len(toc) = totalBlobs /\ curBlob \in 0 .. totalBlobs
  /\ blobSize \in 0 .. MaxBytes /\ bytesRead \in 0 .. blobSize

LEMMA Sizable == MaxBytes \in Nat /\ MaxBlobs \in Nat
BY ContainerAssumption

LEMMA CountInit == Init => Counted
<1> SUFFICES ASSUME Init PROVE Counted
  OBVIOUS
<1>1. Flags /\ toc = <<>> /\ Len(<<>>) = 0
  BY NoText DEF Init, Flags
<1>2. /\ bytesWritten = 0 /\ totalBlobs = 0 /\ curBlob = 0 /\ blobSize = 0 /\ bytesRead = 0
      /\ Len(toc) = 0
  BY <1>1 DEF Init
<1> QED BY <1>1, <1>2, Sizable DEF Counted

LEMMA CountWriteHeader == ASSUME Counted, WriteHeader PROVE Counted'
<1>1. /\ UNCHANGED <<readHeader, totalBlobs, toc, ignore, writeVars, readVars, curBlob>>
      /\ wroteHeader' \in BOOLEAN /\ needsUpdate' = wroteHeader' /\ damaged' = FALSE
  BY DEF WriteHeader, Wrote
<1> QED BY <1>1 DEF Counted, Flags, writeVars, readVars

LEMMA CountStartWrite == ASSUME Counted, NEW id, StartWriteBlob(id) PROVE Counted'
<1>1. /\ UNCHANGED <<headerVars, readVars, curBlob, damaged>>
      /\ \/ writing' = TRUE /\ bytesWritten' = 0
         \/ UNCHANGED <<writing, bytesWritten>>
  BY DEF StartWriteBlob
<1>2. Flags'
  BY <1>1 DEF Counted, Flags, headerVars, readVars
<1>3. bytesWritten' \in 0 .. MaxBytes
  BY <1>1, Sizable DEF Counted
<1> QED BY <1>1, <1>2, <1>3 DEF Counted, headerVars, readVars

LEMMA CountWrite ==
  ASSUME Counted, SumInv, NEW offs, FileInv(offs)', needsUpdate, NEW bytes, WriteToBlob(bytes)
  PROVE  Counted'
<1>1. /\ writing
      /\ UNCHANGED <<headerVars, writing, readVars, curBlob, damaged>>
  BY DEF WriteToBlob
<1>2. needsUpdate' /\ writing'
  BY <1>1 DEF headerVars
<1>3. bytesWritten' \in 0 .. MaxBytes
  BY <1>2 DEF FileInv, WriteInv, OpenBlob
<1> QED BY <1>1, <1>3 DEF Counted, Flags, headerVars, readVars

(* The blob that ends was not yet counted.                                   *)
LEMMA OneMore ==
  ASSUME Counted, SumInv, NEW offs, FileInv(offs), writing
  PROVE  /\ totalBlobs + 1 \in 0 .. MaxBlobs /\ curBlob + 1 \in 0 .. totalBlobs + 1
         /\ \A e : Len(Append(toc, e)) = totalBlobs + 1
<1>1. needsUpdate
  BY DEF FileInv, ClosedInv
<1>2. Len(written) < MaxBlobs /\ totalBlobs = Len(written)
  BY <1>1 DEF FileInv, WriteInv, OpenBlob, KnowsOffsets
<1>3. IsText(toc)
  BY <1>1, WriterMeans DEF SumInv, WriterInv
<1>4. \A e : Len(Append(toc, e)) = Len(toc) + 1
  <2> TAKE e
  <2>1. PICK S : toc \in Seq(S)
    BY <1>3 DEF IsText
  <2>2. toc \in Seq(S \cup {e}) /\ e \in S \cup {e}
    BY <2>1
  <2> QED BY <2>2
<1> QED BY <1>2, <1>4, Sizable DEF Counted

LEMMA CountEndWrite ==
  ASSUME Counted, SumInv, NEW offs, FileInv(offs), EndWriteBlob PROVE Counted'
<1>1. /\ writing /\ writing' = FALSE /\ totalBlobs' = totalBlobs + 1 /\ curBlob' = curBlob + 1
      /\ toc' = Append(toc, Entry(startOffset))
      /\ UNCHANGED <<readHeader, wroteHeader, needsUpdate, ignore, bytesWritten, readVars, damaged>>
  BY DEF EndWriteBlob
<1>2. /\ totalBlobs' \in 0 .. MaxBlobs /\ curBlob' \in 0 .. totalBlobs' /\ Len(toc') = totalBlobs'
  BY <1>1, OneMore
<1> QED BY <1>1, <1>2 DEF Counted, Flags, readVars

LEMMA CountClose ==
  ASSUME Counted, SumInv, NEW offs, FileInv(offs), Close PROVE Counted'
<1>1. /\ writing' = FALSE /\ needsUpdate' = FALSE
      /\ totalBlobs' = Blobs /\ toc' = Table
      /\ curBlob' = (IF writing THEN curBlob + 1 ELSE curBlob)
      /\ UNCHANGED <<readHeader, wroteHeader, ignore, bytesWritten, readVars, damaged>>
  BY DEF Close
<1>2. /\ totalBlobs' \in 0 .. MaxBlobs /\ curBlob' \in 0 .. totalBlobs' /\ Len(toc') = totalBlobs'
  <2>1. CASE writing
    BY <1>1, <2>1, OneMore DEF Blobs, Table
  <2>2. CASE ~writing
    <3>1. totalBlobs' = totalBlobs /\ toc' = toc /\ curBlob' = curBlob
      BY <1>1, <2>2, Sizable DEF Blobs, Table, Counted
    <3> QED BY <3>1 DEF Counted
  <2> QED BY <2>1, <2>2
<1> QED BY <1>1, <1>2 DEF Counted, Flags, readVars

LEMMA CountCreateInstance == ASSUME Counted, CreateInstance PROVE Counted'
<1>1. Flags' /\ toc' = <<>> /\ Len(<<>>) = 0
  BY NoText DEF CreateInstance, Counted, Flags
<1>2. /\ bytesWritten' = 0 /\ totalBlobs' = 0 /\ curBlob' = 0 /\ blobSize' = 0 /\ bytesRead' = 0
      /\ Len(toc') = 0
  BY <1>1 DEF CreateInstance
<1> QED BY <1>1, <1>2, Sizable DEF Counted

LEMMA CountReadHeader ==
  ASSUME Counted, SumInv, NEW offs, FileInv(offs)', ReadHeader PROVE Counted'
<1>1. /\ ~readHeader /\ ~wroteHeader
      /\ readHeader' = TRUE \/ UNCHANGED <<readHeader, totalBlobs, toc>>
      /\ UNCHANGED <<wroteHeader, needsUpdate, ignore, writeVars, readVars, curBlob, damaged>>
  BY DEF ReadHeader, store
<1>2. CASE readHeader' = TRUE
  <2>1. KnowsOffsets(offs)' /\ curBlob' \in 0 .. Len(written')
    BY <1>2 DEF FileInv, ReadInv
  <2>2. Len(written') \in 0 .. MaxBlobs
    <3>1. written' \in Seq(Records) /\ Len(written') <= MaxBlobs
      BY DEF FileInv, Finished
    <3> QED BY <3>1, Sizable
  <2> QED BY <1>1, <1>2, <2>1, <2>2 DEF Counted, Flags, KnowsOffsets, writeVars, readVars
<1>3. CASE UNCHANGED <<readHeader, totalBlobs, toc>>
  BY <1>1, <1>3 DEF Counted, Flags, writeVars, readVars
<1> QED BY <1>1, <1>2, <1>3

LEMMA CountJump ==
  ASSUME Counted, NEW i \in 0 .. MaxBlobs - 1, JumpToBlob(i) PROVE Counted'
<1>1. /\ i < totalBlobs /\ curBlob' = i
      /\ UNCHANGED <<headerVars, writeVars, readVars, damaged>>
  BY DEF JumpToBlob, store
<1>2. i \in 0 .. totalBlobs
  BY <1>1, Sizable DEF Counted
<1> QED BY <1>1, <1>2 DEF Counted, Flags, headerVars, writeVars, readVars

(* Of a blob that is being read the file knows the size.                     *)
LEMMA SizeRead ==
  ASSUME NEW offs, FileInv(offs)', reading'
  PROVE  blobSize' \in 0 .. MaxBytes /\ bytesRead' \in 0 .. blobSize'
<1>1. ReadBlob(offs)' /\ curBlob' \in 0 .. Len(written')
  BY DEF FileInv, ReadInv
<1>2. /\ curBlob' < Len(written') /\ blobSize' = Len(written'[curBlob' + 1].data)
      /\ bytesRead' \in 0 .. blobSize'
  BY <1>1 DEF ReadBlob
<1>3. /\ written' \in Seq(Records)
      /\ \A i \in 1 .. Len(written') : Len(written'[i].data) <= MaxBytes
  BY DEF FileInv, Finished
<1>4. curBlob' + 1 \in 1 .. Len(written')
  <2>1. PICK n \in Nat, c \in Nat : n = Len(written') /\ c = curBlob'
    BY <1>1, <1>3
  <2>2. c \in 0 .. n /\ c < n
    BY <1>1, <1>2, <2>1
  <2>3. c + 1 \in 1 .. n
    BY <2>2
  <2> QED BY <2>1, <2>3
<1>5. written'[curBlob' + 1].data \in Seq(Bytes)
  <2>1. written'[curBlob' + 1] \in Records
    BY <1>3, <1>4
  <2> QED BY <2>1 DEF Records
<1>6. Len(written'[curBlob' + 1].data) \in 0 .. MaxBytes
  <2>1. Len(written'[curBlob' + 1].data) \in Nat
    BY <1>5
  <2>2. Len(written'[curBlob' + 1].data) <= MaxBytes
    BY <1>3, <1>4
  <2> QED BY <2>1, <2>2, Sizable
<1> QED BY <1>2, <1>6

LEMMA CountStartRead ==
  ASSUME Counted, SumInv, NEW offs, FileInv(offs)', StartReadBlob PROVE Counted'
<1>1. /\ UNCHANGED <<headerVars, writeVars, curBlob, damaged>>
      /\ reading' = TRUE \/ UNCHANGED readVars
  BY DEF StartReadBlob, store
<1>2. CASE reading' = TRUE
  <2>1. blobSize' \in 0 .. MaxBytes /\ bytesRead' \in 0 .. blobSize'
    BY <1>2, SizeRead
  <2> QED BY <1>1, <1>2, <2>1 DEF Counted, Flags, headerVars, writeVars
<1>3. CASE UNCHANGED readVars
  BY <1>1, <1>3 DEF Counted, Flags, headerVars, writeVars, readVars
<1> QED BY <1>1, <1>2, <1>3

LEMMA CountReadFrom ==
  ASSUME Counted, SumInv, NEW offs, FileInv(offs)', NEW m, ReadFromBlob(m) PROVE Counted'
<1>1. /\ reading /\ UNCHANGED <<headerVars, writeVars, curBlob, damaged, reading>>
  BY DEF ReadFromBlob, store
<1>2. blobSize' \in 0 .. MaxBytes /\ bytesRead' \in 0 .. blobSize'
  BY <1>1, SizeRead
<1> QED BY <1>1, <1>2 DEF Counted, Flags, headerVars, writeVars

LEMMA CountEndRead ==
  ASSUME Counted, SumInv, NEW offs, FileInv(offs), EndReadBlob PROVE Counted'
<1>1. /\ reading /\ reading' = FALSE /\ curBlob' = curBlob + 1
      /\ UNCHANGED <<headerVars, writeVars, blobSize, bytesRead, damaged>>
  BY DEF EndReadBlob, store
<1>2. curBlob < Len(written) /\ totalBlobs = Len(written)
  BY <1>1 DEF FileInv, ReadInv, ReadBlob, KnowsOffsets
<1>3. curBlob' \in 0 .. totalBlobs
  BY <1>1, <1>2, Sizable DEF Counted
<1> QED BY <1>1, <1>3 DEF Counted, Flags, headerVars, writeVars

LEMMA CountSame ==
  ASSUME Counted, VerifyContainer \/ Damage \/ UNCHANGED vars PROVE Counted'
<1>1. /\ UNCHANGED <<headerVars, writeVars, readVars, curBlob>> /\ (damaged' = TRUE \/ UNCHANGED damaged)
  BY DEF VerifyContainer, Damage, vars, store
<1> QED BY <1>1 DEF Counted, Flags, headerVars, writeVars, readVars

LEMMA CountNext ==
  ASSUME Roomy, FileState, FileState', Counted, [Next]_vars PROVE Counted'
<1>1. PICK offs : FileInv(offs)
  BY DEF FileState
<1>2. PICK o : FileInv(o)'
  BY DEF FileState
<1>3. SumInv
  BY DEF FileState
<1>4. CASE WriteHeader
  BY <1>4, CountWriteHeader
<1>5. CASE EndWriteBlob
  BY <1>1, <1>3, <1>5, CountEndWrite
<1>6. CASE Close
  BY <1>1, <1>3, <1>6, CountClose
<1>7. CASE CreateInstance
  BY <1>7, CountCreateInstance
<1>8. CASE \E id \in Ids : StartWriteBlob(id)
  BY <1>8, CountStartWrite
<1>9. CASE \E bytes \in Pieces : WriteToBlob(bytes)
  <2>1. needsUpdate
    BY <1>1, <1>9 DEF WriteToBlob, FileInv, ClosedInv
  <2> QED BY <1>2, <1>3, <1>9, <2>1, CountWrite
<1>10. CASE ReadHeader
  BY <1>2, <1>3, <1>10, CountReadHeader
<1>11. CASE StartReadBlob
  BY <1>2, <1>3, <1>11, CountStartRead
<1>12. CASE EndReadBlob
  BY <1>1, <1>3, <1>12, CountEndRead
<1>13. CASE VerifyContainer \/ Damage \/ UNCHANGED vars
  BY <1>13, CountSame
<1>14. CASE \E i \in 0 .. MaxBlobs - 1 : JumpToBlob(i)
  BY <1>14, CountJump
<1>15. CASE \E m \in ReadSizes : ReadFromBlob(m)
  BY <1>2, <1>3, <1>15, CountReadFrom
<1> QED BY <1>4, <1>5, <1>6, <1>7, <1>8, <1>9, <1>10, <1>11, <1>12, <1>13, <1>14, <1>15
        DEF Next, Writer, Reader

(* The members keep their types, and what an object has counted of a blob    *)
(* lies within that blob: the blobs it counts are those of its table, and it *)
(* is never beyond the last one.                                             *)
THEOREM TypeCorrect == ASSUME Roomy PROVE Spec => []TypeOK
<1>1. Init => Counted
  BY CountInit
<1>2. FileState /\ FileState' /\ Counted /\ [Next]_vars => Counted'
  BY CountNext
<1>3. FileState /\ Counted => TypeOK
  <2> SUFFICES ASSUME FileState, Counted PROVE TypeOK
    OBVIOUS
  <2>1. PICK offs : FileInv(offs)
    BY DEF FileState
  <2>2. /\ stream.pos \in 0 .. Len(stream.cells) /\ ~ (readHeader /\ wroteHeader)
        /\ written \in Seq([id : Ids, data : Seq(Bytes)])
    BY <2>1 DEF FileState, SumInv, WriterInv, FileInv, Finished, Records
  <2>3. Len(open) = IF writing THEN 1 ELSE 0
    <3>1. CASE writing
      <4>1. needsUpdate
        BY <2>1, <3>1 DEF FileInv, ClosedInv
      <4>2. open = <<open[1]>>
        BY <2>1, <3>1, <4>1, OpenMeans DEF FileState
      <4> QED BY <3>1, <4>2
    <3>2. CASE ~writing
      <4>1. open = <<>>
        BY <2>1, <3>2 DEF FileInv, ClosedInv, WriteInv
      <4> QED BY <3>2, <4>1, NoText
    <3> QED BY <3>1, <3>2
  <2> QED BY <2>2, <2>3 DEF Counted, Flags, TypeOK
<1> QED BY <1>1, <1>2, <1>3, AlwaysFile, PTL DEF Spec
=============================================================================
