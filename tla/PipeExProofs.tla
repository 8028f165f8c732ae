---------------------------- MODULE PipeExProofs ----------------------------
(***************************************************************************)
(* Proofs about PipeEx on either platform, for any sizes, any capacity of  *)
(* the pipe and any threads: any number of writers and readers where only  *)
(* the counter is concerned, one reader where another could take the bytes *)
(* away, one writer where the counter of a single write is concerned.      *)
(***************************************************************************)
EXTENDS PipeEx, FiniteSetTheorems, TLAPS

(* The bytes that the threads of S owe, f[t] by thread t, one element each,  *)
(* so that their number is the sum of f.                                     *)
Owed(f, S) == {x \in S \X Nat : x[2] \in 1 .. f[x[1]]}

Uncounted == Cardinality(Owed(put, Writers))
Untaken   == Cardinality(Owed(got, Readers))

(* A reader holds the mutex exactly while NonBlockingRead reads, owes size   *)
(* the bytes it got only before SubtractRead, and knows nothing about the    *)
(* pipe while it reads.                                                     *)
ReadersInv ==
  \A r \in Readers :
    /\ mutex = r <=> rpc[r] = "nbread"
    /\ rpc[r] # "subtract" => got[r] = 0
    /\ rpc[r] # "idle" => known[r] = 0

(* What a writer has put into the pipe follows from where it is in its call. *)
WritersInv ==
  \A w \in Writers :
    /\ wpc[w] \in {"idle", "enter"} => put[w] = 0
    /\ wpc[w] # "idle" => want[w] > 0
    /\ wpc[w] = "write" => put[w] < want[w]
    /\ wpc[w] = "clear" => \/ put[w] = want[w]
                           \/ put[w] = 0 /\ ~wOpen
                           \/ put[w] <= want[w] /\ ~ReadEndHeld
    /\ wpc[w] = "count" => put[w] > 0

(* pending is the want of a call that has not cleared it, if not 0.          *)
PendingInv ==
  pending > 0 =>
    \E w \in Writers : wpc[w] \in {"enter", "write", "clear"} /\ want[w] = pending

(* The bytes in the pipe, and those read and not yet taken off size, are     *)
(* those that size counts and those written and not yet added to it. A       *)
(* failed write on Windows breaks this, but only for a pipe nobody reads.    *)
Balanced == inPipe + Untaken = size + Uncounted
Ledger ==
  /\ IsFiniteSet(Owed(put, Writers)) /\ IsFiniteSet(Owed(got, Readers))
  /\ size + Uncounted <= inPipe + Untaken
  /\ ReadEndHeld => Balanced
  /\ \A w \in Writers : Writers = {w} /\ put[w] > 0 => Balanced

IInv == TypeOK /\ ReadersInv /\ WritersInv /\ PendingInv /\ Ledger

-----------------------------------------------------------------------------
(* A number of numbers.                                                      *)
LEMMA UpToItself ==
  ASSUME NEW m \in Nat PROVE IsFiniteSet(1 .. m) /\ Cardinality(1 .. m) = m
<1>1. 1 \in Int /\ m \in Int /\ (1 > m => m = 0) /\ m - 1 + 1 = m
  OBVIOUS
<1>2. /\ IsFiniteSet(1 .. m)
      /\ Cardinality(1 .. m) = IF 1 > m THEN 0 ELSE m - 1 + 1
  BY <1>1, FS_Interval
<1> QED  BY <1>1, <1>2

(* What one thread owes changes the sum by as much, and is part of it.       *)
LEMMA OneShare ==
  ASSUME NEW S, NEW f \in [S -> Nat], NEW g \in [S -> Nat], NEW t \in S,
         \A s \in S : s # t => g[s] = f[s], IsFiniteSet(Owed(f, S))
  PROVE  /\ IsFiniteSet(Owed(g, S))
         /\ Cardinality(Owed(g, S)) = Cardinality(Owed(f, S)) - f[t] + g[t]
         /\ f[t] <= Cardinality(Owed(f, S))
<1> DEFINE Rest     == {x \in Owed(f, S) : x[1] # t}
           Share(m) == {t} \X (1 .. m)
<1>1. ASSUME NEW m \in Nat
      PROVE  IsFiniteSet(Share(m)) /\ Cardinality(Share(m)) = m
  <2>1. IsFiniteSet({t}) /\ Cardinality({t}) = 1
    BY FS_Singleton
  <2>2. IsFiniteSet(1 .. m) /\ Cardinality(1 .. m) = m
    BY UpToItself
  <2>3. IsFiniteSet(Share(m)) /\ Cardinality(Share(m)) = 1 * m
    BY <2>1, <2>2, FS_Product
  <2> QED  BY <2>3
<1>2. IsFiniteSet(Rest) /\ Cardinality(Rest) \in Nat
  <2>1. Rest \in SUBSET Owed(f, S)  OBVIOUS
  <2> HIDE DEF Rest
  <2> QED  BY <2>1, FS_Subset, FS_CardinalityType
<1>3. ASSUME NEW h \in [S -> Nat], \A s \in S : s # t => h[s] = f[s]
      PROVE  Owed(h, S) = Rest \cup Share(h[t])
  <2>1. ASSUME NEW x \in Owed(h, S) PROVE x \in Rest \cup Share(h[t])
    <3>1. x \in S \X Nat /\ x[2] \in 1 .. h[x[1]]  BY <2>1 DEF Owed
    <3>2. CASE x[1] = t  BY <3>1, <3>2
    <3>3. CASE x[1] # t  BY <3>1, <3>3, <1>3 DEF Owed
    <3> QED  BY <3>2, <3>3
  <2>2. ASSUME NEW x \in Rest PROVE x \in Owed(h, S)
    BY <1>3 DEF Owed
  <2>3. ASSUME NEW x \in Share(h[t]) PROVE x \in Owed(h, S)
    BY DEF Owed
  <2> QED  BY <2>1, <2>2, <2>3
<1>4. ASSUME NEW m \in Nat PROVE Rest \cap Share(m) = {}
  OBVIOUS
<1>5. ASSUME NEW h \in [S -> Nat], \A s \in S : s # t => h[s] = f[s]
      PROVE  /\ IsFiniteSet(Owed(h, S))
             /\ Cardinality(Owed(h, S)) = Cardinality(Rest) + h[t]
  <2>1. h[t] \in Nat /\ Owed(h, S) = Rest \cup Share(h[t])
    BY <1>3, <1>5
  <2>2. /\ IsFiniteSet(Share(h[t])) /\ Cardinality(Share(h[t])) = h[t]
        /\ Rest \cap Share(h[t]) = {}
    BY <1>1, <1>4, <2>1
  <2> HIDE DEF Rest, Share
  <2>3. Cardinality(Rest \cup Share(h[t])) = Cardinality(Rest) + h[t] - Cardinality({})
        /\ IsFiniteSet(Rest \cup Share(h[t]))
    BY <1>2, <2>2, FS_Union
  <2> QED  BY <1>2, <2>1, <2>3, FS_EmptySet
<1> HIDE DEF Rest
<1>6. Cardinality(Owed(f, S)) = Cardinality(Rest) + f[t]
  BY <1>5
<1>7. IsFiniteSet(Owed(g, S)) /\ Cardinality(Owed(g, S)) = Cardinality(Rest) + g[t]
  BY <1>5
<1> QED  BY <1>2, <1>6, <1>7

(* Nobody owes anything.                                                     *)
LEMMA NoShare ==
  ASSUME NEW S, NEW f, \A t \in S : f[t] = 0
  PROVE  IsFiniteSet(Owed(f, S)) /\ Cardinality(Owed(f, S)) = 0
<1>1. Owed(f, S) = {}
  BY DEF Owed
<1> QED  BY <1>1, FS_EmptySet

(* One thread alone owes the sum.                                            *)
LEMMA OnlyShare ==
  ASSUME NEW t, NEW f \in [{t} -> Nat]
  PROVE  IsFiniteSet(Owed(f, {t})) /\ Cardinality(Owed(f, {t})) = f[t]
<1>1. PICK m \in Nat : f[t] = m
  OBVIOUS
<1>2. Owed(f, {t}) = {t} \X (1 .. m)
  BY <1>1 DEF Owed
<1>3. IsFiniteSet({t}) /\ Cardinality({t}) = 1
  BY FS_Singleton
<1>4. IsFiniteSet(1 .. m) /\ Cardinality(1 .. m) = m
  BY UpToItself
<1>5. IsFiniteSet({t} \X (1 .. m)) /\ Cardinality({t} \X (1 .. m)) = 1 * m
  BY <1>3, <1>4, FS_Product
<1>6. Cardinality({t} \X (1 .. m)) = m
  BY <1>5
<1> QED  BY <1>1, <1>2, <1>5, <1>6

(* The shares of put and got, and what a step does to them.                  *)
LEMMA WriterShare ==
  ASSUME IInv, NEW w \in Writers, NEW n \in Nat, put' = [put EXCEPT ![w] = n]
  PROVE  /\ IsFiniteSet(Owed(put, Writers))'
         /\ Uncounted' = Uncounted - put[w] + n
<1>1. put \in [Writers -> Nat] /\ IsFiniteSet(Owed(put, Writers))
  BY DEF IInv, TypeOK, Ledger
<1>2. /\ put' \in [Writers -> Nat] /\ put'[w] = n
      /\ \A s \in Writers : s # w => put'[s] = put[s]
  BY <1>1
<1>3. /\ IsFiniteSet(Owed(put', Writers))
      /\ Cardinality(Owed(put', Writers)) = Cardinality(Owed(put, Writers)) - put[w] + put'[w]
  <2>1. ASSUME NEW f \in [Writers -> Nat], NEW g \in [Writers -> Nat],
               \A s \in Writers : s # w => g[s] = f[s], IsFiniteSet(Owed(f, Writers))
        PROVE  /\ IsFiniteSet(Owed(g, Writers))
               /\ Cardinality(Owed(g, Writers)) = Cardinality(Owed(f, Writers)) - f[w] + g[w]
    BY ONLY <2>1, OneShare, w \in Writers
  <2> QED  BY <1>1, <1>2, <2>1
<1> QED  BY <1>2, <1>3 DEF Owed, Uncounted

LEMMA ReaderShare ==
  ASSUME IInv, NEW r \in Readers, NEW n \in Nat, got' = [got EXCEPT ![r] = n]
  PROVE  /\ IsFiniteSet(Owed(got, Readers))'
         /\ Untaken' = Untaken - got[r] + n
<1>1. got \in [Readers -> Nat] /\ IsFiniteSet(Owed(got, Readers))
  BY DEF IInv, TypeOK, Ledger
<1>2. /\ got' \in [Readers -> Nat] /\ got'[r] = n
      /\ \A s \in Readers : s # r => got'[s] = got[s]
  BY <1>1
<1>3. /\ IsFiniteSet(Owed(got', Readers))
      /\ Cardinality(Owed(got', Readers)) = Cardinality(Owed(got, Readers)) - got[r] + got'[r]
  <2>1. ASSUME NEW f \in [Readers -> Nat], NEW g \in [Readers -> Nat],
               \A s \in Readers : s # r => g[s] = f[s], IsFiniteSet(Owed(f, Readers))
        PROVE  /\ IsFiniteSet(Owed(g, Readers))
               /\ Cardinality(Owed(g, Readers)) = Cardinality(Owed(f, Readers)) - f[r] + g[r]
    BY ONLY <2>1, OneShare, r \in Readers
  <2> QED  BY <1>1, <1>2, <2>1
<1> QED  BY <1>2, <1>3 DEF Owed, Untaken

LEMMA ShareBound ==
  ASSUME IInv
  PROVE  /\ Uncounted \in Nat /\ Untaken \in Nat
         /\ \A w \in Writers : put[w] <= Uncounted
         /\ \A r \in Readers : got[r] <= Untaken
<1>1. /\ put \in [Writers -> Nat] /\ IsFiniteSet(Owed(put, Writers))
      /\ got \in [Readers -> Nat] /\ IsFiniteSet(Owed(got, Readers))
  BY DEF IInv, TypeOK, Ledger
<1>2. ASSUME NEW S, NEW f \in [S -> Nat], IsFiniteSet(Owed(f, S)), NEW t \in S
      PROVE  f[t] <= Cardinality(Owed(f, S))
  BY <1>2, OneShare
<1>3. \A w \in Writers : put[w] <= Uncounted
  BY <1>1, <1>2 DEF Uncounted
<1>4. \A r \in Readers : got[r] <= Untaken
  BY <1>1, <1>2 DEF Untaken
<1>5. Uncounted \in Nat /\ Untaken \in Nat
  BY <1>1, FS_CardinalityType DEF Uncounted, Untaken
<1> QED  BY <1>3, <1>4, <1>5

-----------------------------------------------------------------------------
(* The initial state satisfies the invariant.                                *)
LEMMA InitIInv == Init => IInv
<1> SUFFICES ASSUME Init PROVE IInv
  OBVIOUS
<1>1. TypeOK /\ ReadersInv /\ WritersInv /\ PendingInv
  BY PipeAssumption
  DEF Init, TypeOK, ReadersInv, WritersInv, PendingInv, WriterStates, ReaderStates
<1>2. /\ IsFiniteSet(Owed(put, Writers)) /\ Uncounted = 0
      /\ IsFiniteSet(Owed(got, Readers)) /\ Untaken = 0
  BY NoShare DEF Init, Uncounted, Untaken
<1>3. Ledger
  BY <1>2 DEF Init, Ledger, Balanced
<1> QED  BY <1>1, <1>3 DEF IInv

(* Every step keeps the types.                                               *)
LEMMA NextTypeOK == TypeOK /\ [Next]_vars => TypeOK'
<1> SUFFICES ASSUME TypeOK, [Next]_vars PROVE TypeOK'
  OBVIOUS
<1> USE PipeAssumption
    DEF TypeOK, WriterStates, ReaderStates, Goes, Least,
        osVars, countVars, writerVars, readerVars
<1>1. ASSUME NEW w \in Writers, NEW n \in WriteSizes, SetPending(w, n)
      PROVE  TypeOK'
  BY <1>1 DEF SetPending
<1>2. ASSUME NEW w \in Writers, EnterWrite(w) PROVE TypeOK'
  BY <1>2 DEF EnterWrite
<1>3. ASSUME NEW w \in Writers, WriteSome(w) PROVE TypeOK'
  BY <1>3 DEF WriteSome
<1>4. ASSUME NEW w \in Writers, WriteFails(w) PROVE TypeOK'
  BY <1>4 DEF WriteFails
<1>5. ASSUME NEW w \in Writers, ClearPending(w) PROVE TypeOK'
  BY <1>5 DEF ClearPending
<1>6. ASSUME NEW w \in Writers, CountWrite(w) PROVE TypeOK'
  BY <1>6 DEF CountWrite
<1>7. ASSUME NEW r \in Readers, NEW n \in ReadSizes, BlockingRead(r, n)
      PROVE  TypeOK'
  BY <1>7 DEF BlockingRead
<1>8. ASSUME NEW r \in Readers, ReadSome(r) PROVE TypeOK'
  BY <1>8 DEF ReadSome
<1>9. ASSUME NEW r \in Readers, ReadFails(r) PROVE TypeOK'
  BY <1>9 DEF ReadFails
<1>10. ASSUME NEW r \in Readers, SubtractRead(r) PROVE TypeOK'
  BY <1>10 DEF SubtractRead, BytesRead
<1>11. ASSUME NEW r \in Readers, NEW n \in ReadSizes, NonBlockingRead(r, n)
       PROVE  TypeOK'
  BY <1>11 DEF NonBlockingRead
<1>12. ASSUME NEW r \in Readers, NonBlockingReadSome(r) PROVE TypeOK'
  BY <1>12 DEF NonBlockingReadSome
<1>13. ASSUME NEW r \in Readers, NonBlockingReadFails(r) PROVE TypeOK'
  BY <1>13 DEF NonBlockingReadFails
<1>14. ASSUME NEW r \in Readers, GetReadBufferSize(r) PROVE TypeOK'
  BY <1>14 DEF GetReadBufferSize, Reported
<1>15. CASE CloseWriteEnd
  BY <1>15 DEF CloseWriteEnd
<1>16. CASE CloseReadEnd
  BY <1>16 DEF CloseReadEnd
<1>17. CASE UNCHANGED vars
  BY <1>17 DEF vars
<1> HIDE DEF TypeOK
<1> QED
  BY <1>1, <1>2, <1>3, <1>4, <1>5, <1>6, <1>7, <1>8, <1>9, <1>10, <1>11,
     <1>12, <1>13, <1>14, <1>15, <1>16, <1>17
  DEF Next, Writing, Reading, Poll

(* Every step keeps what is said of readers.                                 *)
LEMMA NextReaders == IInv /\ TypeOK' /\ [Next]_vars => ReadersInv'
<1> SUFFICES ASSUME IInv, TypeOK', [Next]_vars PROVE ReadersInv'
  OBVIOUS
<1>0. TypeOK /\ ReadersInv
  BY DEF IInv
<1> USE PipeAssumption
    DEF ReadersInv, TypeOK, WriterStates, ReaderStates, Goes, Least, Unlocked,
        ReadEndHeld, WriteEndHeld, EndOfFile, osVars, countVars, writerVars,
        readerVars
<1>1. ASSUME NEW w \in Writers, NEW n \in WriteSizes, SetPending(w, n)
      PROVE  ReadersInv'
  BY <1>0, <1>1 DEF SetPending
<1>2. ASSUME NEW w \in Writers, EnterWrite(w)
      PROVE  ReadersInv'
  BY <1>0, <1>2 DEF EnterWrite
<1>3. ASSUME NEW w \in Writers, WriteSome(w)
      PROVE  ReadersInv'
  BY <1>0, <1>3 DEF WriteSome
<1>4. ASSUME NEW w \in Writers, WriteFails(w)
      PROVE  ReadersInv'
  BY <1>0, <1>4 DEF WriteFails
<1>5. ASSUME NEW w \in Writers, ClearPending(w)
      PROVE  ReadersInv'
  BY <1>0, <1>5 DEF ClearPending
<1>6. ASSUME NEW w \in Writers, CountWrite(w)
      PROVE  ReadersInv'
  BY <1>0, <1>6 DEF CountWrite
<1>7. ASSUME NEW r \in Readers, NEW n \in ReadSizes, BlockingRead(r, n)
      PROVE  ReadersInv'
  BY <1>0, <1>7 DEF BlockingRead
<1>8. ASSUME NEW r \in Readers, ReadSome(r)
      PROVE  ReadersInv'
  BY <1>0, <1>8 DEF ReadSome
<1>9. ASSUME NEW r \in Readers, ReadFails(r)
      PROVE  ReadersInv'
  BY <1>0, <1>9 DEF ReadFails
<1>10. ASSUME NEW r \in Readers, SubtractRead(r)
       PROVE  ReadersInv'
  BY <1>0, <1>10 DEF SubtractRead, BytesRead
<1>11. ASSUME NEW r \in Readers, NEW n \in ReadSizes, NonBlockingRead(r, n)
       PROVE  ReadersInv'
  BY <1>0, <1>11 DEF NonBlockingRead
<1>12. ASSUME NEW r \in Readers, NonBlockingReadSome(r)
       PROVE  ReadersInv'
  BY <1>0, <1>12 DEF NonBlockingReadSome
<1>13. ASSUME NEW r \in Readers, NonBlockingReadFails(r)
       PROVE  ReadersInv'
  BY <1>0, <1>13 DEF NonBlockingReadFails
<1>14. ASSUME NEW r \in Readers, GetReadBufferSize(r)
       PROVE  ReadersInv'
  BY <1>0, <1>14 DEF GetReadBufferSize, Reported
<1>15. CASE CloseWriteEnd
  BY <1>0, <1>15 DEF CloseWriteEnd
<1>16. CASE CloseReadEnd
  BY <1>0, <1>16 DEF CloseReadEnd
<1>17. CASE UNCHANGED vars
  BY <1>0, <1>17 DEF vars
<1> HIDE DEF ReadersInv
<1> QED
  BY <1>1, <1>2, <1>3, <1>4, <1>5, <1>6, <1>7, <1>8, <1>9, <1>10, <1>11,
     <1>12, <1>13, <1>14, <1>15, <1>16, <1>17
  DEF Next, Writing, Reading, Poll

(* Every step keeps what is said of writers.                                 *)
LEMMA NextWriters == IInv /\ TypeOK' /\ [Next]_vars => WritersInv'
<1> SUFFICES ASSUME IInv, TypeOK', [Next]_vars PROVE WritersInv'
  OBVIOUS
<1>0. TypeOK /\ WritersInv
  BY DEF IInv
<1> USE PipeAssumption
    DEF WritersInv, TypeOK, WriterStates, ReaderStates, Goes, Least, Unlocked,
        ReadEndHeld, WriteEndHeld, EndOfFile, osVars, countVars, writerVars,
        readerVars
<1>1. ASSUME NEW w \in Writers, NEW n \in WriteSizes, SetPending(w, n)
      PROVE  WritersInv'
  BY <1>0, <1>1 DEF SetPending
<1>2. ASSUME NEW w \in Writers, EnterWrite(w)
      PROVE  WritersInv'
  BY <1>0, <1>2 DEF EnterWrite
<1>3. ASSUME NEW w \in Writers, WriteSome(w)
      PROVE  WritersInv'
  BY <1>0, <1>3 DEF WriteSome
<1>4. ASSUME NEW w \in Writers, WriteFails(w)
      PROVE  WritersInv'
  BY <1>0, <1>4 DEF WriteFails
<1>5. ASSUME NEW w \in Writers, ClearPending(w)
      PROVE  WritersInv'
  BY <1>0, <1>5 DEF ClearPending
<1>6. ASSUME NEW w \in Writers, CountWrite(w)
      PROVE  WritersInv'
  BY <1>0, <1>6 DEF CountWrite
<1>7. ASSUME NEW r \in Readers, NEW n \in ReadSizes, BlockingRead(r, n)
      PROVE  WritersInv'
  BY <1>0, <1>7 DEF BlockingRead
<1>8. ASSUME NEW r \in Readers, ReadSome(r)
      PROVE  WritersInv'
  BY <1>0, <1>8 DEF ReadSome
<1>9. ASSUME NEW r \in Readers, ReadFails(r)
      PROVE  WritersInv'
  BY <1>0, <1>9 DEF ReadFails
<1>10. ASSUME NEW r \in Readers, SubtractRead(r)
       PROVE  WritersInv'
  BY <1>0, <1>10 DEF SubtractRead, BytesRead
<1>11. ASSUME NEW r \in Readers, NEW n \in ReadSizes, NonBlockingRead(r, n)
       PROVE  WritersInv'
  BY <1>0, <1>11 DEF NonBlockingRead
<1>12. ASSUME NEW r \in Readers, NonBlockingReadSome(r)
       PROVE  WritersInv'
  BY <1>0, <1>12 DEF NonBlockingReadSome
<1>13. ASSUME NEW r \in Readers, NonBlockingReadFails(r)
       PROVE  WritersInv'
  BY <1>0, <1>13 DEF NonBlockingReadFails
<1>14. ASSUME NEW r \in Readers, GetReadBufferSize(r)
       PROVE  WritersInv'
  BY <1>0, <1>14 DEF GetReadBufferSize, Reported
<1>15. CASE CloseWriteEnd
  BY <1>0, <1>15 DEF CloseWriteEnd
<1>16. CASE CloseReadEnd
  BY <1>0, <1>16 DEF CloseReadEnd
<1>17. CASE UNCHANGED vars
  BY <1>0, <1>17 DEF vars
<1> HIDE DEF WritersInv
<1> QED
  BY <1>1, <1>2, <1>3, <1>4, <1>5, <1>6, <1>7, <1>8, <1>9, <1>10, <1>11,
     <1>12, <1>13, <1>14, <1>15, <1>16, <1>17
  DEF Next, Writing, Reading, Poll

(* Every step keeps what is said of pending.                                 *)
LEMMA NextPending == IInv /\ TypeOK' /\ [Next]_vars => PendingInv'
<1> SUFFICES ASSUME IInv, TypeOK', [Next]_vars PROVE PendingInv'
  OBVIOUS
<1>0. TypeOK /\ PendingInv
  BY DEF IInv
<1> USE PipeAssumption
    DEF PendingInv, TypeOK, WriterStates, ReaderStates, Goes, Least, Unlocked,
        ReadEndHeld, WriteEndHeld, EndOfFile, osVars, countVars, writerVars,
        readerVars
<1>1. ASSUME NEW w \in Writers, NEW n \in WriteSizes, SetPending(w, n)
      PROVE  PendingInv'
  BY <1>0, <1>1 DEF SetPending
<1>2. ASSUME NEW w \in Writers, EnterWrite(w)
      PROVE  PendingInv'
  BY <1>0, <1>2 DEF EnterWrite
<1>3. ASSUME NEW w \in Writers, WriteSome(w)
      PROVE  PendingInv'
  BY <1>0, <1>3 DEF WriteSome
<1>4. ASSUME NEW w \in Writers, WriteFails(w)
      PROVE  PendingInv'
  BY <1>0, <1>4 DEF WriteFails
<1>5. ASSUME NEW w \in Writers, ClearPending(w)
      PROVE  PendingInv'
  BY <1>0, <1>5 DEF ClearPending
<1>6. ASSUME NEW w \in Writers, CountWrite(w)
      PROVE  PendingInv'
  BY <1>0, <1>6 DEF CountWrite
<1>7. ASSUME NEW r \in Readers, NEW n \in ReadSizes, BlockingRead(r, n)
      PROVE  PendingInv'
  BY <1>0, <1>7 DEF BlockingRead
<1>8. ASSUME NEW r \in Readers, ReadSome(r)
      PROVE  PendingInv'
  BY <1>0, <1>8 DEF ReadSome
<1>9. ASSUME NEW r \in Readers, ReadFails(r)
      PROVE  PendingInv'
  BY <1>0, <1>9 DEF ReadFails
<1>10. ASSUME NEW r \in Readers, SubtractRead(r)
       PROVE  PendingInv'
  BY <1>0, <1>10 DEF SubtractRead, BytesRead
<1>11. ASSUME NEW r \in Readers, NEW n \in ReadSizes, NonBlockingRead(r, n)
       PROVE  PendingInv'
  BY <1>0, <1>11 DEF NonBlockingRead
<1>12. ASSUME NEW r \in Readers, NonBlockingReadSome(r)
       PROVE  PendingInv'
  BY <1>0, <1>12 DEF NonBlockingReadSome
<1>13. ASSUME NEW r \in Readers, NonBlockingReadFails(r)
       PROVE  PendingInv'
  BY <1>0, <1>13 DEF NonBlockingReadFails
<1>14. ASSUME NEW r \in Readers, GetReadBufferSize(r)
       PROVE  PendingInv'
  BY <1>0, <1>14 DEF GetReadBufferSize, Reported
<1>15. CASE CloseWriteEnd
  BY <1>0, <1>15 DEF CloseWriteEnd
<1>16. CASE CloseReadEnd
  BY <1>0, <1>16 DEF CloseReadEnd
<1>17. CASE UNCHANGED vars
  BY <1>0, <1>17 DEF vars
<1> HIDE DEF PendingInv
<1> QED
  BY <1>1, <1>2, <1>3, <1>4, <1>5, <1>6, <1>7, <1>8, <1>9, <1>10, <1>11,
     <1>12, <1>13, <1>14, <1>15, <1>16, <1>17
  DEF Next, Writing, Reading, Poll

(* The end that is read is not used again once nobody has it.                *)
LEMMA HeldBefore == TypeOK /\ [Next]_vars /\ ReadEndHeld' => ReadEndHeld
<1> SUFFICES ASSUME TypeOK, [Next]_vars, ReadEndHeld', ~ReadEndHeld PROVE FALSE
  OBVIOUS
<1>1. rOpen' => rOpen
  BY DEF Next, Writing, Reading, Poll, SetPending, EnterWrite, WriteSome,
         WriteFails, ClearPending, CountWrite, BlockingRead, ReadSome, ReadFails,
         SubtractRead, NonBlockingRead, NonBlockingReadSome,
         NonBlockingReadFails, GetReadBufferSize, CloseWriteEnd, CloseReadEnd,
         osVars, vars
<1>2. PICK r \in Readers : rpc'[r] \in {"read", "nbread"}
  BY <1>1 DEF ReadEndHeld
<1>3. ~rOpen /\ rpc[r] \notin {"read", "nbread"} /\ rpc \in [Readers -> ReaderStates]
  BY DEF ReadEndHeld, TypeOK
<1>4. rpc' # rpc
  BY <1>2, <1>3
<1>5. PICK q \in Readers :
        \/ ReadSome(q) \/ ReadFails(q) \/ SubtractRead(q)
        \/ NonBlockingReadSome(q) \/ NonBlockingReadFails(q)
  BY <1>3, <1>4
  DEF Next, Writing, Reading, Poll, SetPending, EnterWrite, WriteSome,
      WriteFails, ClearPending, CountWrite, BlockingRead, NonBlockingRead,
      GetReadBufferSize, CloseWriteEnd, CloseReadEnd, readerVars, vars
<1>6. rpc' = [rpc EXCEPT ![q] = "subtract"] \/ rpc' = [rpc EXCEPT ![q] = "idle"]
  BY <1>5 DEF ReadSome, ReadFails, SubtractRead, NonBlockingReadSome,
              NonBlockingReadFails, Goes
<1> QED  BY <1>2, <1>3, <1>6

(* A step that leaves the bytes alone that are owed and counted.             *)
LEMMA SameLedger ==
  ASSUME IInv, TypeOK', ReadEndHeld' => ReadEndHeld,
         UNCHANGED <<inPipe, size, put, got>>
  PROVE  Ledger'
  BY DEF IInv, Ledger, Balanced, Uncounted, Untaken, Owed

(* A step of a writer, which puts n - put[w] bytes more into what it owes.   *)
LEMMA WriterLedger ==
  ASSUME IInv, TypeOK', ReadEndHeld' => ReadEndHeld,
         NEW w \in Writers, NEW n \in Nat, put' = [put EXCEPT ![w] = n],
         got' = got,
         inPipe' = inPipe + (size' - size) + (n - put[w]),
         ReadEndHeld \/ n = 0
  PROVE  Ledger'
<1>1. /\ IsFiniteSet(Owed(put, Writers))'
      /\ Uncounted' = Uncounted - put[w] + n
  BY WriterShare
<1>2. IsFiniteSet(Owed(got, Readers))' /\ Untaken' = Untaken
  BY DEF IInv, Ledger, Untaken, Owed
<1>3. Uncounted \in Nat /\ Untaken \in Nat
  BY ShareBound
<1>4. /\ put[w] \in Nat /\ size \in Int /\ size' \in Int
      /\ inPipe \in Nat /\ inPipe' \in Nat
  BY DEF IInv, TypeOK
<1>5. ASSUME Balanced PROVE Balanced'
  <2>1. Uncounted' = Uncounted - put[w] + n /\ Untaken' = Untaken
    BY <1>1, <1>2
  <2>2. inPipe + Untaken = size + Uncounted
    BY <1>5 DEF Balanced
  <2>3. inPipe' + Untaken' = size' + Uncounted'
    BY <1>3, <1>4, <2>1, <2>2
  <2> QED  BY <2>3 DEF Balanced
<1>6. (size + Uncounted <= inPipe + Untaken)'
  BY <1>1, <1>2, <1>3, <1>4 DEF IInv, Ledger
<1>7. ASSUME NEW v \in Writers, Writers = {v}, put'[v] > 0
      PROVE  Balanced'
  <2>1. v = w /\ put'[w] = n
    BY <1>7 DEF IInv, TypeOK
  <2>2. ReadEndHeld
    BY <1>7, <2>1
  <2> QED  BY <1>5, <2>2 DEF IInv, Ledger
<1> QED  BY <1>1, <1>2, <1>5, <1>6, <1>7 DEF IInv, Ledger

(* A step of a reader, which takes n - got[r] bytes more out of the pipe than *)
(* it takes off size.                                                        *)
LEMMA ReaderLedger ==
  ASSUME IInv, TypeOK', ReadEndHeld' => ReadEndHeld,
         NEW r \in Readers, NEW n \in Nat, got' = [got EXCEPT ![r] = n],
         put' = put,
         inPipe' = inPipe + (size' - size) - (n - got[r])
  PROVE  Ledger'
<1>1. /\ IsFiniteSet(Owed(got, Readers))'
      /\ Untaken' = Untaken - got[r] + n
  BY ReaderShare
<1>2. IsFiniteSet(Owed(put, Writers))' /\ Uncounted' = Uncounted
  BY DEF IInv, Ledger, Uncounted, Owed
<1>3. Uncounted \in Nat /\ Untaken \in Nat
  BY ShareBound
<1>4. /\ got[r] \in Nat /\ size \in Int /\ size' \in Int
      /\ inPipe \in Nat /\ inPipe' \in Nat
  BY DEF IInv, TypeOK
<1>5. ASSUME Balanced PROVE Balanced'
  <2>1. Uncounted' = Uncounted /\ Untaken' = Untaken - got[r] + n
    BY <1>1, <1>2
  <2>2. inPipe + Untaken = size + Uncounted
    BY <1>5 DEF Balanced
  <2>3. inPipe' + Untaken' = size' + Uncounted'
    BY <1>3, <1>4, <2>1, <2>2
  <2> QED  BY <2>3 DEF Balanced
<1>6. (size + Uncounted <= inPipe + Untaken)'
  BY <1>1, <1>2, <1>3, <1>4 DEF IInv, Ledger
<1> QED  BY <1>1, <1>2, <1>5, <1>6 DEF IInv, Ledger

(* A write that fails forgets, on Windows, the bytes it put into the pipe.   *)
LEMMA WriteFailsLedger ==
  ASSUME IInv, TypeOK', NEW w \in Writers, WriteFails(w)
  PROVE  Ledger'
<1>1. PICK n \in 0 .. put[w] : put' = [put EXCEPT ![w] = n] /\ (n = 0 \/ put' = put)
  <2>1. put[w] \in Nat /\ put \in [Writers -> Nat]
    BY DEF IInv, TypeOK
  <2>2. put' = put \/ put' = [put EXCEPT ![w] = 0]
    BY DEF WriteFails
  <2>3. put = [put EXCEPT ![w] = put[w]]
    BY <2>1
  <2>4. 0 \in 0 .. put[w] /\ put[w] \in 0 .. put[w]
    BY <2>1
  <2> QED  BY <2>2, <2>3, <2>4
<1>2. /\ IsFiniteSet(Owed(put, Writers))'
      /\ Uncounted' = Uncounted - put[w] + n
  <2>1. n \in Nat
    BY <1>1 DEF IInv, TypeOK
  <2> QED  BY <1>1, <2>1, WriterShare
<1>3. IsFiniteSet(Owed(got, Readers))' /\ Untaken' = Untaken
  BY DEF IInv, Ledger, Untaken, Owed, WriteFails, readerVars
<1>4. ~ReadEndHeld' /\ inPipe' = inPipe /\ size' = size
  BY DEF WriteFails, osVars, countVars, readerVars, ReadEndHeld
<1>5. (size + Uncounted <= inPipe + Untaken)'
  <2>1. /\ Uncounted \in Nat /\ Untaken \in Nat /\ put[w] \in Nat
        /\ size \in Int /\ inPipe \in Nat
    BY ShareBound DEF IInv, TypeOK
  <2> QED  BY <1>1, <1>2, <1>3, <1>4, <2>1 DEF IInv, Ledger
<1>6. ASSUME NEW v \in Writers, Writers = {v}, put'[v] > 0
      PROVE  Balanced'
  <2>1. put' = put
    BY <1>1, <1>6 DEF IInv, TypeOK
  <2>2. Uncounted' = Uncounted
    BY <2>1 DEF Uncounted, Owed
  <2>3. Balanced
    BY <1>6, <2>1 DEF IInv, Ledger
  <2> QED  BY <1>3, <1>4, <2>2, <2>3 DEF Balanced
<1> QED  BY <1>2, <1>3, <1>4, <1>5, <1>6 DEF Ledger

(* Every step keeps the ledger.                                              *)
LEMMA NextLedger == IInv /\ TypeOK' /\ [Next]_vars => Ledger'
<1> SUFFICES ASSUME IInv, TypeOK', [Next]_vars PROVE Ledger'
  OBVIOUS
<1>1. ReadEndHeld' => ReadEndHeld
  BY HeldBefore DEF IInv
<1>2. CASE UNCHANGED <<inPipe, size, put, got>>
  BY <1>1, <1>2, SameLedger
<1>3. ASSUME NEW w \in Writers, WriteSome(w) PROVE Ledger'
  <2>1. PICK k \in 1 .. Least(want[w] - put[w], Capacity - inPipe) :
          inPipe' = inPipe + k /\ put' = [put EXCEPT ![w] = put[w] + k]
    BY <1>3 DEF WriteSome
  <2>2. /\ ReadEndHeld /\ size' = size /\ got' = got
    BY <1>3 DEF WriteSome, countVars, readerVars
  <2>3. put[w] \in Nat /\ size \in Int /\ k \in Nat /\ put[w] + k \in Nat
        /\ inPipe \in Nat
    BY <2>1 DEF IInv, TypeOK
  <2>4. PICK n \in Nat : n = put[w] + k
    BY <2>3
  <2>5. inPipe' = inPipe + (size' - size) + (n - put[w])
    BY <2>1, <2>2, <2>3, <2>4
  <2>6. put' = [put EXCEPT ![w] = n]
    BY <2>1, <2>4
  <2> QED  BY <1>1, <2>2, <2>5, <2>6, WriterLedger
<1>4. ASSUME NEW w \in Writers, CountWrite(w) PROVE Ledger'
  <2>1. /\ put' = [put EXCEPT ![w] = 0] /\ got' = got
        /\ size' = size + put[w] /\ inPipe' = inPipe
    BY <1>4 DEF CountWrite, osVars, readerVars
  <2>2. put[w] \in Nat /\ size \in Int /\ inPipe \in Nat /\ 0 \in Nat
    BY DEF IInv, TypeOK
  <2>3. inPipe' = inPipe + (size' - size) + (0 - put[w])
    BY <2>1, <2>2
  <2> QED  BY <1>1, <2>1, <2>2, <2>3, WriterLedger
<1>5. ASSUME NEW r \in Readers, ReadSome(r) PROVE Ledger'
  <2>1. PICK k \in 1 .. Least(ask[r], inPipe) :
          inPipe' = inPipe - k /\ got' = [got EXCEPT ![r] = k]
    BY <1>5 DEF ReadSome
  <2>2. size' = size /\ put' = put /\ got[r] = 0
    BY <1>5 DEF ReadSome, countVars, writerVars, IInv, ReadersInv
  <2>3. size \in Int /\ k \in Nat /\ inPipe \in Nat
    BY <2>1 DEF IInv, TypeOK
  <2>4. inPipe' = inPipe + (size' - size) - (k - got[r])
    BY <2>1, <2>2, <2>3
  <2> QED  BY <1>1, <2>1, <2>2, <2>3, <2>4, ReaderLedger
<1>6. ASSUME NEW r \in Readers, SubtractRead(r) PROVE Ledger'
  <2>1. /\ got' = [got EXCEPT ![r] = 0] /\ put' = put
        /\ size' = size - got[r] /\ inPipe' = inPipe
    BY <1>6 DEF SubtractRead, BytesRead, osVars, writerVars
  <2>2. got[r] \in Nat /\ size \in Int /\ inPipe \in Nat /\ 0 \in Nat
    BY DEF IInv, TypeOK
  <2>3. inPipe' = inPipe + (size' - size) - (0 - got[r])
    BY <2>1, <2>2
  <2> QED  BY <1>1, <2>1, <2>2, <2>3, ReaderLedger
<1>7. ASSUME NEW r \in Readers, NonBlockingReadSome(r) PROVE Ledger'
  <2>1. PICK k \in 1 .. Least(ask[r], inPipe) :
          inPipe' = inPipe - k /\ size' = size - k
    BY <1>7 DEF NonBlockingReadSome
  <2>2. put' = put /\ got' = got
    BY <1>7 DEF NonBlockingReadSome, writerVars
  <2>3. size \in Int /\ k \in Nat /\ inPipe \in Nat /\ got[r] \in Nat
        /\ got' = [got EXCEPT ![r] = got[r]]
    BY <2>1, <2>2 DEF IInv, TypeOK
  <2>4. inPipe' = inPipe + (size' - size) - (got[r] - got[r])
    BY <2>1, <2>3
  <2> QED  BY <1>1, <2>2, <2>3, <2>4, ReaderLedger
<1>8. ASSUME NEW w \in Writers, WriteFails(w) PROVE Ledger'
  BY <1>8, WriteFailsLedger
<1>9. \/ UNCHANGED <<inPipe, size, put, got>>
      \/ \E w \in Writers : WriteSome(w) \/ CountWrite(w) \/ WriteFails(w)
      \/ \E r \in Readers : \/ ReadSome(r) \/ SubtractRead(r)
                            \/ NonBlockingReadSome(r)
  BY DEF Next, Writing, Reading, Poll, SetPending, EnterWrite, ClearPending,
         BlockingRead, ReadFails, NonBlockingRead, NonBlockingReadFails,
         GetReadBufferSize, CloseWriteEnd, CloseReadEnd, osVars, countVars,
         writerVars, readerVars, vars
<1> QED  BY <1>2, <1>3, <1>4, <1>5, <1>6, <1>7, <1>8, <1>9

(* The invariant holds in every state.                                       *)
THEOREM Invariance == Spec => []IInv
<1>1. IInv /\ [Next]_vars => IInv'
  <2>1. IInv /\ [Next]_vars => TypeOK'
    BY NextTypeOK DEF IInv
  <2> QED
    BY <2>1, NextReaders, NextWriters, NextPending, NextLedger DEF IInv
<1> QED  BY <1>1, InitIInv, PTL DEF Spec

-----------------------------------------------------------------------------
(* With one reader, what it owes is all that is owed.                        *)
LEMMA OneReader ==
  ASSUME NEW r, Readers = {r}, IInv
  PROVE  Untaken = got[r]
<1>1. got \in [{r} -> Nat]
  BY DEF IInv, TypeOK
<1> QED  BY <1>1, OnlyShare DEF Untaken

(* What the reader was told stays true until it reads.                       *)
LEMMA PromiseStep ==
  ASSUME NEW r, Readers = {r}, IInv, PromiseKept, [Next]_vars, TypeOK'
  PROVE  PromiseKept'
<1> SUFFICES known'[r] <= inPipe'
  BY DEF PromiseKept
<1>1. /\ known[r] <= inPipe /\ known[r] \in Nat /\ inPipe \in Nat
      /\ inPipe' \in Nat /\ known \in [Readers -> Nat] /\ r \in Readers
  BY DEF PromiseKept, IInv, TypeOK
<1>2. CASE known' = known /\ inPipe' >= inPipe
  BY <1>1, <1>2
<1>3. CASE known' = known /\ rpc[r] # "idle"
  <2>1. known[r] = 0
    BY <1>1, <1>3 DEF IInv, ReadersInv
  <2> QED  BY <1>1, <1>3, <2>1
<1>4. CASE known' = [known EXCEPT ![r] = 0]
  BY <1>1, <1>4
<1>5. CASE GetReadBufferSize(r)
  <2>1. known' = [known EXCEPT ![r] = Reported] /\ inPipe' = inPipe /\ got[r] = 0
    BY <1>5 DEF GetReadBufferSize, osVars, IInv, ReadersInv
  <2>2. Untaken = 0 /\ Uncounted \in Nat
    BY <2>1, OneReader, ShareBound
  <2>3. size <= inPipe
    BY <1>1, <2>2 DEF IInv, TypeOK, Ledger
  <2>4. Reported <= inPipe
    BY <1>1, <2>3 DEF Reported
  <2> QED  BY <1>1, <2>1, <2>4
<1>6. \/ known' = known /\ inPipe' = inPipe
      \/ \E w \in Writers : WriteSome(w)
      \/ ReadSome(r) \/ NonBlockingReadSome(r) \/ GetReadBufferSize(r)
      \/ known' = [known EXCEPT ![r] = 0]
  BY DEF Next, Writing, Reading, Poll, SetPending, EnterWrite, WriteFails,
         ClearPending, CountWrite, BlockingRead, ReadFails, SubtractRead,
         NonBlockingRead, NonBlockingReadFails, CloseWriteEnd, CloseReadEnd,
         osVars, readerVars, vars
<1>7. ASSUME NEW w \in Writers, WriteSome(w)
      PROVE  known' = known /\ inPipe' >= inPipe
  <2>1. PICK k \in 1 .. Least(want[w] - put[w], Capacity - inPipe) :
          inPipe' = inPipe + k
    BY <1>7 DEF WriteSome
  <2>2. known' = known
    BY <1>7 DEF WriteSome, readerVars
  <2>3. k \in Nat
    BY <2>1
  <2> QED  BY <1>1, <2>1, <2>2, <2>3
<1>8. ReadSome(r) \/ NonBlockingReadSome(r) => known' = known /\ rpc[r] # "idle"
  BY DEF ReadSome, NonBlockingReadSome
<1> QED  BY <1>1, <1>2, <1>3, <1>4, <1>5, <1>6, <1>7, <1>8

(* A write that still has bytes to put into the pipe is under way.           *)
Coming == \E w \in Writers : wpc[w] \in {"enter", "write"} /\ put[w] < want[w]
Answers == inPipe > 0 \/ EndOfFile \/ Coming

(* What the two counters promise on Windows.                                 *)
LEMMA CountersAnswer ==
  ASSUME NEW r, Readers = {r}, IInv, rpc[r] = "idle", ReadEndHeld,
         size > 0 \/ size + pending > 0
  PROVE  Answers
<1>1. /\ Untaken = 0 /\ Uncounted \in Nat
      /\ \A w \in Writers : put[w] <= Uncounted
  BY OneReader, ShareBound DEF IInv, ReadersInv
<1>2. /\ size \in Int /\ pending \in Nat /\ inPipe \in Nat
      /\ \A w \in Writers : put[w] \in Nat
  BY DEF IInv, TypeOK
<1>3. size + Uncounted <= inPipe
  <2>1. size + Uncounted <= inPipe + Untaken
    BY DEF IInv, Ledger
  <2> QED  BY <1>1, <1>2, <2>1
<1>4. CASE size > 0
  BY <1>1, <1>2, <1>3, <1>4 DEF Answers
<1>5. CASE ~(size > 0)
  <2>1. pending > 0 /\ size + pending > 0
    BY <1>2, <1>5
  <2>2. PICK w \in Writers : /\ wpc[w] \in {"enter", "write", "clear"}
                             /\ want[w] = pending
    BY <2>1 DEF IInv, PendingInv
  <2>3. CASE wpc[w] \in {"enter", "write"}
    <3>1. put[w] < want[w]
      BY <2>1, <2>2, <2>3 DEF IInv, WritersInv
    <3> QED  BY <2>3, <3>1 DEF Answers, Coming
  <2>4. CASE wpc[w] = "clear" /\ put[w] = want[w]
    <3>1. size + put[w] > 0 /\ put[w] <= Uncounted
      BY <1>1, <2>1, <2>2, <2>4
    <3>2. inPipe > 0
      BY <1>1, <1>2, <1>3, <3>1
    <3> QED  BY <3>2 DEF Answers
  <2>5. CASE wpc[w] = "clear" /\ ~wOpen
    <3>1. CASE \E v \in Writers : wpc[v] = "write"
      BY <3>1 DEF Answers, Coming, IInv, WritersInv
    <3>2. CASE ~ \E v \in Writers : wpc[v] = "write"
      BY <1>2, <2>5, <3>2 DEF Answers, EndOfFile, WriteEndHeld
    <3> QED  BY <3>1, <3>2
  <2> QED
    BY <2>2, <2>3, <2>4, <2>5 DEF IInv, WritersInv
<1> QED  BY <1>4, <1>5

(* What lets the reader in lasts until it has read.                          *)
LEMMA AnswersStep ==
  ASSUME NEW r, Readers = {r}, IInv, TypeOK', [Next]_vars,
         rpc[r] = "nbread", rpc'[r] = "nbread", Answers
  PROVE  Answers'
<1> USE DEF TypeOK, WriterStates, Goes
<1>1. /\ wpc \in [Writers -> WriterStates] /\ wpc' \in [Writers -> WriterStates]
      /\ put \in [Writers -> Nat] /\ put' \in [Writers -> Nat]
      /\ want \in [Writers -> Nat] /\ inPipe \in Nat /\ inPipe' \in Nat
      /\ wOpen \in BOOLEAN /\ rpc \in [Readers -> ReaderStates] /\ r \in Readers
  BY DEF IInv
<1>2. ASSUME NEW w \in Writers, NEW n \in WriteSizes, SetPending(w, n)
      PROVE  Answers'
  BY <1>1, <1>2 DEF SetPending, Answers, Coming, EndOfFile, WriteEndHeld, osVars
<1>3. ASSUME NEW w \in Writers, EnterWrite(w) PROVE Answers'
  <2>1. put[w] < want[w]
    BY <1>1, <1>3 DEF EnterWrite, IInv, WritersInv
  <2>2. CASE wOpen
    BY <1>1, <1>3, <2>1, <2>2 DEF EnterWrite, Answers, Coming, osVars
  <2>3. CASE ~wOpen /\ \E v \in Writers : wpc[v] = "write"
    <3>1. PICK v \in Writers : wpc[v] = "write"
      BY <2>3
    <3>2. wpc'[v] = "write" /\ put'[v] < want'[v]
      BY <1>1, <1>3, <3>1 DEF EnterWrite, IInv, WritersInv
    <3> QED  BY <3>2 DEF Answers, Coming
  <2>4. CASE ~wOpen /\ ~ \E v \in Writers : wpc[v] = "write"
    BY <1>1, <1>3, <2>4
    DEF EnterWrite, Answers, EndOfFile, WriteEndHeld, osVars
  <2> QED  BY <1>1, <2>2, <2>3, <2>4
<1>4. ASSUME NEW w \in Writers, WriteSome(w) PROVE Answers'
  <2>1. PICK k \in 1 .. Least(want[w] - put[w], Capacity - inPipe) :
          inPipe' = inPipe + k
    BY <1>4 DEF WriteSome
  <2>2. inPipe' > 0
    BY <1>1, <2>1
  <2> QED  BY <2>2 DEF Answers
<1>5. ASSUME NEW w \in Writers, WriteFails(w) PROVE Answers'
  BY <1>1, <1>5 DEF WriteFails, ReadEndHeld
<1>6. ASSUME NEW w \in Writers, ClearPending(w) PROVE Answers'
  BY <1>1, <1>6
  DEF ClearPending, Answers, Coming, EndOfFile, WriteEndHeld, osVars
<1>7. ASSUME NEW w \in Writers, CountWrite(w) PROVE Answers'
  BY <1>1, <1>7
  DEF CountWrite, Answers, Coming, EndOfFile, WriteEndHeld, osVars
<1>8. CASE UNCHANGED <<wOpen, inPipe, writerVars>>
  BY <1>8 DEF Answers, Coming, EndOfFile, WriteEndHeld, writerVars
<1>9. CASE CloseWriteEnd
  BY <1>1, <1>9
  DEF CloseWriteEnd, Answers, Coming, EndOfFile, WriteEndHeld, writerVars
<1>10. ~(ReadSome(r) \/ ReadFails(r) \/ SubtractRead(r) \/ NonBlockingReadSome(r)
         \/ NonBlockingReadFails(r))
  BY <1>1 DEF ReadSome, ReadFails, SubtractRead, NonBlockingReadSome,
              NonBlockingReadFails
<1>11. \/ UNCHANGED <<wOpen, inPipe, writerVars>> \/ CloseWriteEnd
       \/ \E w \in Writers : Writing(w) \/ \E n \in WriteSizes : SetPending(w, n)
  BY <1>10 DEF Next, Reading, Poll, BlockingRead, NonBlockingRead,
               GetReadBufferSize, CloseReadEnd, osVars, vars
<1> QED
  BY <1>2, <1>3, <1>4, <1>5, <1>6, <1>7, <1>8, <1>9, <1>11 DEF Writing

LEMMA NonBlockingStep ==
  ASSUME NEW r, Readers = {r}, IInv, ReadWouldNotBlock, [Next]_vars, TypeOK'
  PROVE  ReadWouldNotBlock'
<1> SUFFICES ASSUME rpc'[r] = "nbread" PROVE Answers'
  BY DEF ReadWouldNotBlock, Answers, Coming
<1>1. CASE rpc[r] = "nbread"
  <2>1. Answers
    BY <1>1 DEF ReadWouldNotBlock, Answers, Coming
  <2> QED  BY <1>1, <2>1, AnswersStep
<1>2. CASE rpc[r] # "nbread"
  <2>1. PICK n \in ReadSizes : NonBlockingRead(r, n)
    <3>1. rpc \in [Readers -> ReaderStates] /\ r \in Readers
      BY DEF IInv, TypeOK
    <3> QED
      BY <1>2, <3>1
      DEF Next, Writing, Reading, Poll, SetPending, EnterWrite, WriteSome,
          WriteFails, ClearPending, CountWrite, BlockingRead, ReadSome, ReadFails,
          SubtractRead, NonBlockingReadSome, NonBlockingReadFails,
          GetReadBufferSize, CloseWriteEnd, CloseReadEnd, readerVars, vars, Goes
  <2>2. /\ rpc[r] = "idle" /\ Readable /\ rOpen
        /\ UNCHANGED <<wOpen, inPipe, writerVars>>
    BY <2>1 DEF NonBlockingRead, osVars
  <2>3. Answers
    <3>1. CASE platform = "unix"
      BY <2>2, <3>1 DEF Readable, Answers
    <3>2. CASE platform # "unix"
      BY <2>2, <3>2, CountersAnswer DEF Readable, ReadEndHeld
    <3> QED  BY <3>1, <3>2
  <2> QED
    BY <2>2, <2>3 DEF Answers, Coming, EndOfFile, WriteEndHeld, writerVars
<1> QED  BY <1>1, <1>2

-----------------------------------------------------------------------------
(* With one writer the assertion of BlockingWrite never fails:               *)
(* m_iBufferSizeW is not negative once a write is counted, whatever any      *)
(* number of readers do meanwhile.                                           *)
THEOREM AssertionHolds ==
  ASSUME NEW w, Writers = {w}
  PROVE  Spec => []SizeNotNegative
<1>1. IInv => SizeNotNegative
  <2> SUFFICES ASSUME IInv, wpc[w] = "count" PROVE size + put[w] >= 0
    BY DEF SizeNotNegative
  <2>1. put \in [{w} -> Nat] /\ size \in Int /\ inPipe \in Nat /\ put[w] \in Nat
    BY DEF IInv, TypeOK
  <2>2. Uncounted = put[w] /\ Untaken \in Nat
    BY <2>1, OnlyShare, ShareBound DEF Uncounted
  <2>3. inPipe + Untaken = size + Uncounted
    BY DEF IInv, WritersInv, Ledger, Balanced
  <2> QED  BY <2>1, <2>2, <2>3
<1> QED  BY Invariance, <1>1, PTL

(* With one reader, and any number of writers, NonBlockingRead enters the    *)
(* system's read only when data, the end of the file or the rest of a write  *)
(* is on its way to it.                                                      *)
THEOREM NonBlocking ==
  ASSUME NEW r, Readers = {r}
  PROVE  Spec => []ReadWouldNotBlock
<1>1. Init => ReadWouldNotBlock
  BY DEF Init, ReadWouldNotBlock
<1>2. IInv /\ IInv' /\ ReadWouldNotBlock /\ [Next]_vars => ReadWouldNotBlock'
  BY NonBlockingStep DEF IInv
<1> QED  BY <1>1, <1>2, Invariance, PTL DEF Spec

(* With one reader, and any number of writers, what GetReadBufferSize        *)
(* reported can be read without blocking.                                    *)
THEOREM Promise ==
  ASSUME NEW r, Readers = {r}
  PROVE  Spec => []PromiseKept
<1>1. Init => PromiseKept
  BY DEF Init, PromiseKept
<1>2. IInv /\ IInv' /\ PromiseKept /\ [Next]_vars => PromiseKept'
  BY PromiseStep DEF IInv
<1> QED  BY <1>1, <1>2, Invariance, PTL DEF Spec

(* However many threads share the ends: with no call under way               *)
(* m_iBufferSizeW is the number of bytes in the pipe.                        *)
THEOREM ExactAtRest == Spec => []SizeIsExact
<1>1. IInv => SizeIsExact
  <2> SUFFICES ASSUME IInv, ReadEndHeld,
                      \A w \in Writers : wpc[w] = "idle",
                      \A r \in Readers : rpc[r] \in {"idle", "read"}
               PROVE  size = inPipe
    BY DEF SizeIsExact
  <2>1. Uncounted = 0 /\ Untaken = 0
    BY NoShare DEF IInv, WritersInv, ReadersInv, Uncounted, Untaken
  <2>2. inPipe + Untaken = size + Uncounted
    BY DEF IInv, Ledger, Balanced
  <2> QED  BY <2>1, <2>2 DEF IInv, TypeOK
<1> QED  BY Invariance, <1>1, PTL
=============================================================================
