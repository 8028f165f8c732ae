------------------------------- MODULE PipeEx -------------------------------
(***************************************************************************)
(* One direction of a pair of MpoPipeEx objects: the threads that call     *)
(* BlockingWrite on one end, the threads that call BlockingRead,           *)
(* NonBlockingRead and GetReadBufferSize on the other, the system's pipe   *)
(* between them, and the two counters by which the reading end tells       *)
(* whether a read would block. The other direction is the same thing with  *)
(* a mutex and counters of its own; the two meet only in Close.            *)
(*                                                                         *)
(* The pipe is abstracted to the number of bytes in it. A critical section *)
(* in which nothing blocks is one step that needs the mutex to be free;    *)
(* NonBlockingRead alone keeps the mutex from one step to another. The     *)
(* objects of both ends are assumed to outlive the calls.                  *)
(***************************************************************************)
EXTENDS Integers

CONSTANTS
  Writers,     \* threads that write to this direction
  Readers,     \* threads that read from it
  WriteSizes,  \* bytes a BlockingWrite is asked to write
  ReadSizes,   \* bytes a read is asked for
  Capacity,    \* of the system's pipe
  Platforms,   \* builds of the library: "unix", "win32" or both
  None

ASSUME PipeAssumption ==
  /\ WriteSizes \subseteq Nat \ {0} /\ ReadSizes \subseteq Nat \ {0}
  /\ Capacity \in Nat \ {0} /\ Platforms \subseteq {"unix", "win32"}
  /\ None \notin Readers

VARIABLES
  platform, \* which of the Platforms the code was built for
  wOpen,    \* m_bPipeOpen of the writing end
  rOpen,    \* m_bPipeOpen of the reading end
  inPipe,   \* bytes in the system's pipe
  size,     \* m_iBufferSizeW of the writing end, *m_piBufferSizeR of the other
  pending,  \* m_stPendingBytesToBeWrittenW
  mutex,    \* the reader that keeps the mutex of this direction, or None
  wpc,      \* what each writer does next
  want,     \* stBytesToWrite of its call
  put,      \* bytes of its call in the pipe and not yet counted in size
  rpc,      \* what each reader does next
  ask,      \* stBytesToRead of its call
  got,      \* bytes it has read and not yet taken off size
  known     \* what GetReadBufferSize said, 0 once the thread has read since

osVars     == <<platform, wOpen, rOpen, inPipe>>
countVars  == <<size, pending, mutex>>
writerVars == <<wpc, want, put>>
readerVars == <<rpc, ask, got, known>>
vars == <<osVars, countVars, writerVars, readerVars>>

Least(a, b) == IF a < b THEN a ELSE b
Unlocked == mutex = None
Goes(pc, t, to) == [pc EXCEPT ![t] = to]

(* A thread inside a system call keeps its end of the pipe in use even when  *)
(* another thread closes the descriptor.                                     *)
ReadEndHeld == rOpen \/ \E r \in Readers : rpc[r] \in {"read", "nbread"}
WriteEndHeld == wOpen \/ \E w \in Writers : wpc[w] = "write"
EndOfFile == inPipe = 0 /\ ~WriteEndHeld

Init ==
  /\ platform \in Platforms
  /\ wOpen = TRUE /\ rOpen = TRUE /\ inPipe = 0
  /\ size = 0 /\ pending = 0 /\ mutex = None
  /\ wpc = [w \in Writers |-> "idle"]
  /\ want = [w \in Writers |-> 0] /\ put = [w \in Writers |-> 0]
  /\ rpc = [r \in Readers |-> "idle"]
  /\ ask = [r \in Readers |-> 0] /\ got = [r \in Readers |-> 0]
  /\ known = [r \in Readers |-> 0]

-----------------------------------------------------------------------------
(* BlockingWrite *)

SetPending(w, n) ==
  /\ wpc[w] = "idle" /\ Unlocked
  /\ pending' = n
  /\ want' = [want EXCEPT ![w] = n]
  /\ wpc' = Goes(wpc, w, "enter")
  /\ UNCHANGED <<osVars, size, mutex, put, readerVars>>

(* Windows runs one write at a time on a synchronous handle. *)
EnterWrite(w) ==
  /\ wpc[w] = "enter"
  /\ platform = "unix" \/ \A v \in Writers : wpc[v] # "write"
  /\ wpc' = Goes(wpc, w, IF wOpen THEN "write" ELSE "clear")
  /\ UNCHANGED <<osVars, countVars, want, put, readerVars>>

(* The write puts bytes into the pipe as there is room for them and returns  *)
(* when all of them are in it.                                               *)
WriteSome(w) ==
  /\ wpc[w] = "write" /\ ReadEndHeld
  /\ \E k \in 1 .. Least(want[w] - put[w], Capacity - inPipe) :
       /\ inPipe' = inPipe + k
       /\ put' = [put EXCEPT ![w] = put[w] + k]
       /\ wpc' = IF put[w] + k = want[w] THEN Goes(wpc, w, "clear") ELSE wpc
  /\ UNCHANGED <<platform, wOpen, rOpen, countVars, want, readerVars>>

(* The reading end is gone. Unix reports the bytes written so far, if any. *)
WriteFails(w) ==
  /\ wpc[w] = "write" /\ ~ReadEndHeld
  /\ put' = IF platform = "unix" THEN put ELSE [put EXCEPT ![w] = 0]
  /\ wpc' = Goes(wpc, w, "clear")
  /\ UNCHANGED <<osVars, countVars, want, readerVars>>

ClearPending(w) ==
  /\ wpc[w] = "clear" /\ Unlocked
  /\ pending' = 0
  /\ wpc' = Goes(wpc, w, IF put[w] > 0 THEN "count" ELSE "idle")
  /\ UNCHANGED <<osVars, size, mutex, want, put, readerVars>>

CountWrite(w) ==
  /\ wpc[w] = "count" /\ Unlocked
  /\ size' = size + put[w]
  /\ put' = [put EXCEPT ![w] = 0]
  /\ wpc' = Goes(wpc, w, "idle")
  /\ UNCHANGED <<osVars, pending, mutex, want, readerVars>>

-----------------------------------------------------------------------------
(* BlockingRead *)

(* Windows runs one read at a time on a synchronous handle. *)
MayRead(r) == platform = "unix" \/ \A q \in Readers \ {r} : rpc[q] # "read"

BlockingRead(r, n) ==
  /\ rpc[r] = "idle" /\ rOpen /\ MayRead(r)
  /\ ask' = [ask EXCEPT ![r] = n]
  /\ known' = [known EXCEPT ![r] = 0]
  /\ rpc' = Goes(rpc, r, "read")
  /\ UNCHANGED <<osVars, countVars, writerVars, got>>

ReadSome(r) ==
  /\ rpc[r] = "read"
  /\ \E k \in 1 .. Least(ask[r], inPipe) :
       /\ inPipe' = inPipe - k
       /\ got' = [got EXCEPT ![r] = k]
  /\ rpc' = Goes(rpc, r, "subtract")
  /\ UNCHANGED <<platform, wOpen, rOpen, countVars, writerVars, ask, known>>

ReadFails(r) ==
  /\ rpc[r] = "read" /\ EndOfFile
  /\ rpc' = Goes(rpc, r, "idle")
  /\ UNCHANGED <<osVars, countVars, writerVars, ask, got, known>>

BytesAsked(r) == ask[r]    \* mutant: the request instead of the result
BytesRead(r) == got[r]

SubtractRead(r) ==
  /\ rpc[r] = "subtract" /\ Unlocked
  /\ size' = size - BytesRead(r)
  /\ got' = [got EXCEPT ![r] = 0]
  /\ rpc' = Goes(rpc, r, "idle")
  /\ UNCHANGED <<osVars, pending, mutex, writerVars, ask, known>>

-----------------------------------------------------------------------------
(* NonBlockingRead *)

(* Two mutants: a write under way counts as data, whatever select said; and  *)
(* only what has been counted is data.                                       *)
AnyPending == IF platform = "unix" THEN rOpen ELSE size > 0 \/ pending > 0
OnlyCounted == size > 0

(* Whether a read would return at once: select on unix, the counters on      *)
(* Windows.                                                                  *)
Readable ==
  IF platform = "unix" THEN rOpen /\ (inPipe > 0 \/ EndOfFile)
                       ELSE size > 0 \/ size + pending > 0

(* A call that finds the pipe not readable, or its own end closed, returns   *)
(* without bytes and leaves everything as it was.                            *)
NonBlockingRead(r, n) ==
  /\ rpc[r] = "idle" /\ Unlocked /\ Readable /\ rOpen
  /\ mutex' = r
  /\ ask' = [ask EXCEPT ![r] = n]
  /\ known' = [known EXCEPT ![r] = 0]
  /\ rpc' = Goes(rpc, r, "nbread")
  /\ UNCHANGED <<osVars, size, pending, writerVars, got>>

NonBlockingReadSome(r) ==
  /\ rpc[r] = "nbread" /\ MayRead(r)
  /\ \E k \in 1 .. Least(ask[r], inPipe) :
       /\ inPipe' = inPipe - k
       /\ size' = size - k
  /\ mutex' = None
  /\ rpc' = Goes(rpc, r, "idle")
  /\ UNCHANGED <<platform, wOpen, rOpen, pending, writerVars, ask, got, known>>

NonBlockingReadFails(r) ==
  /\ rpc[r] = "nbread" /\ EndOfFile
  /\ mutex' = None
  /\ rpc' = Goes(rpc, r, "idle")
  /\ UNCHANGED <<osVars, size, pending, writerVars, ask, got, known>>

WithPending == IF size + pending < 0 THEN 0 ELSE size + pending   \* mutant
Reported == IF size < 0 THEN 0 ELSE size

GetReadBufferSize(r) ==
  /\ rpc[r] = "idle" /\ Unlocked
  /\ known' = [known EXCEPT ![r] = Reported]
  /\ UNCHANGED <<osVars, countVars, writerVars, rpc, ask, got>>

-----------------------------------------------------------------------------
(* Close of either end; closing a closed end does nothing. *)

CloseWriteEnd ==
  /\ wOpen /\ wOpen' = FALSE
  /\ UNCHANGED <<platform, rOpen, inPipe, countVars, writerVars, readerVars>>

CloseReadEnd ==
  /\ rOpen /\ rOpen' = FALSE
  /\ UNCHANGED <<platform, wOpen, inPipe, countVars, writerVars, readerVars>>

-----------------------------------------------------------------------------
Writing(w) == EnterWrite(w) \/ WriteSome(w) \/ WriteFails(w)
              \/ ClearPending(w) \/ CountWrite(w)
Reading(r) == ReadSome(r) \/ ReadFails(r) \/ SubtractRead(r)
              \/ NonBlockingReadSome(r) \/ NonBlockingReadFails(r)
Poll(r) == \E n \in ReadSizes : NonBlockingRead(r, n)

Next ==
  \/ \E w \in Writers : Writing(w) \/ \E n \in WriteSizes : SetPending(w, n)
  \/ \E r \in Readers : \/ Reading(r) \/ Poll(r) \/ GetReadBufferSize(r)
                        \/ \E n \in ReadSizes : BlockingRead(r, n)
  \/ CloseWriteEnd \/ CloseReadEnd

Spec == Init /\ [][Next]_vars

(* The threads inside a call are scheduled. *)
CallsProceed ==
  /\ \A w \in Writers : WF_vars(Writing(w))
  /\ \A r \in Readers : WF_vars(Reading(r))
FairSpec == Spec /\ CallsProceed

(* Moreover the readers poll: none stops calling NonBlockingRead while there *)
(* is something to read. Nothing is assumed about who gets the mutex: it is  *)
(* not fair (mpo_ipc.cpp:388), so polling may keep a writer waiting for it.  *)
PollingSpec == FairSpec /\ \A r \in Readers : WF_vars(Poll(r))

-----------------------------------------------------------------------------
(* Properties. *)

WriterStates == {"idle", "enter", "write", "clear", "count"}
ReaderStates == {"idle", "read", "subtract", "nbread"}
(* Every counter and flag has its C++ type; a pipe never exceeds its size. *)
TypeOK ==
  /\ platform \in Platforms
  /\ wOpen \in BOOLEAN /\ rOpen \in BOOLEAN /\ inPipe \in 0 .. Capacity
  /\ size \in Int /\ pending \in Nat /\ mutex \in Readers \cup {None}
  /\ wpc \in [Writers -> WriterStates]
  /\ want \in [Writers -> Nat] /\ put \in [Writers -> Nat]
  /\ rpc \in [Readers -> ReaderStates]
  /\ ask \in [Readers -> Nat] /\ got \in [Readers -> Nat]
  /\ known \in [Readers -> Nat]

(* The assertion of BlockingWrite: once a write is counted, m_iBufferSizeW   *)
(* is not negative, because no more can have been read than was written.    *)
SizeNotNegative ==
  \A w \in Writers : wpc[w] = "count" => size + put[w] >= 0

(* A NonBlockingRead that holds the mutex inside the system's read finds     *)
(* data or the end of the file, or is about to: a write that still has bytes *)
(* to put into the pipe is under way, and needs no mutex to go on.           *)
ReadWouldNotBlock ==
  \A r \in Readers : rpc[r] = "nbread" =>
    \/ inPipe > 0 \/ EndOfFile
    \/ \E w \in Writers : wpc[w] \in {"enter", "write"} /\ put[w] < want[w]

(* GetReadBufferSize never promises bytes that are not in the pipe: until    *)
(* the thread that asked reads, that many can be read without blocking.      *)
PromiseKept == \A r \in Readers : known[r] <= inPipe

(* With no call under way the counter is the number of bytes in the pipe.    *)
SizeIsExact ==
  /\ \A w \in Writers : wpc[w] = "idle"
  /\ \A r \in Readers : rpc[r] \in {"idle", "read"}
  /\ ReadEndHeld
  => size = inPipe

(* NonBlockingRead returns, and so does every thread that waits for the      *)
(* mutex it holds.                                                           *)
NonBlockingReadReturns ==
  \A r \in Readers : rpc[r] = "nbread" ~> rpc[r] = "idle"

(* However large a write is, all of it leaves the thread that writes it if   *)
(* the other end keeps polling with NonBlockingRead, or is closed: the write *)
(* that is stuck half way, which no counter tells of yet, is seen by the     *)
(* reader through the pending count (Windows) or through select (unix).      *)
PolledWriteDrains ==
  \A w \in Writers : wpc[w] = "write" ~> wpc[w] # "write"

(* Its BlockingWrite returns then. Not so: it still has to lock the mutex,   *)
(* which a polling reader may take again before it each time.                *)
PolledWriteReturns ==
  \A w \in Writers : wpc[w] = "write" ~> wpc[w] = "idle"

=============================================================================
