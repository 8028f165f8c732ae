------------------------------- MODULE Process -------------------------------
(***************************************************************************)
(* MpoProcess on unix: the thread of the application that calls its        *)
(* methods, the threads that read the child's stdout and stderr, the       *)
(* child, and the pipes between them.                                      *)
(*                                                                         *)
(* The bytes of a pipe or a buffer are abstracted to their number. The     *)
(* child does one thing at a time: it writes what it has to say, reads its *)
(* stdin to the end of the file, in whatever order, and exits. While a     *)
(* pipe is full or empty it waits in that one system call; a write to a    *)
(* pipe that nobody reads kills it.                                        *)
(***************************************************************************)
EXTENDS Integers, FiniteSets

CONSTANTS
  Streams,      \* the captured ones of "out" and "err"
  StdIn,        \* whether stdin is captured
  Output,       \* bytes the child may write to a stream
  Input,        \* bytes the application may pass to WriteStdInEx
  Chunk,        \* bytes one read of a stream can return
  PipeSize,     \* bytes a pipe holds
  MaxBuf,       \* MPO_PROCESS_MAX_BUFFER_SIZE_BYTES
  MaxLaunches,  \* bound: children launched with one object
  Habits,       \* what system and application do beyond the usual
  None

(* "nofork", "nopipe": fork or pipe may fail; "relaunch": the application    *)
(* launches again without having waited for the child; "signal": it calls    *)
(* RequestShutdown after a Launch, whatever became of the child.             *)
AllHabits == {"nofork", "nopipe", "relaunch", "signal"}

ASSUME ProcessAssumption ==
  /\ Streams \subseteq {"out", "err"} /\ StdIn \in BOOLEAN
  /\ Output \subseteq Nat /\ Output # {} /\ Input \subseteq Nat \ {0}
  /\ Chunk \in Nat \ {0} /\ PipeSize \in Nat \ {0} /\ MaxBuf \in Nat
  /\ MaxLaunches \in Nat /\ Habits \subseteq AllHabits /\ None \notin Nat

Pipes == Streams \cup (IF StdIn THEN {"in"} ELSE {})
Kids == 1 .. MaxLaunches

VARIABLES
  app,       \* where the application is: "idle" or inside a call
  then,      \* what follows the Shutdown it is in: "fork" or "gone"
  on,        \* the stream it waits for
  left,      \* bytes WriteStdInEx has still to write
  last,      \* the last call that returned, with its argument and result
  running,   \* m_bProcessRunning
  shouldRun, \* m_bThreadsShouldBeRunning
  ack,       \* m_bParentAckChildren
  up,        \* m_bStdOutRunning, m_bStdErrRunning
  needsJoin, \* m_bStdOutNeedsJoin, m_bStdErrNeedsJoin
  ends,      \* the open descriptors of m_iStdOut, m_iStdErr and m_iStdIn
  buf,       \* size of m_strStdOut and m_strStdErr
  thread,    \* what the reader thread of each stream does next
  hand,      \* bytes it has read and not yet appended
  pid,       \* m_pid: number of a launch, 0 before any, None for fork's -1
  kid,       \* the child of each launch
  todo,      \* bytes the child of the last launch has still to write
  busy,      \* the pipe it is writing to or reading from, or "none"
  pipe       \* bytes in its pipes

callVars   == <<app, then, on, left, last>>
flagVars   == <<running, shouldRun, ack, needsJoin>>
threadVars == <<up, buf, thread, hand>>
kidVars    == <<kid, todo, busy>>
vars == <<callVars, flagVars, ends, threadVars, pid, kidVars, pipe>>

Least(a, b) == IF a < b THEN a ELSE b
First(S) == IF "out" \in S THEN "out" ELSE "err"   \* stdout is always first
R(s) == <<s, "r">>
W(s) == <<s, "w">>
Returns(call, s, res) == last' = [call |-> call, s |-> s, res |-> res]
Alive == pid \in Kids /\ kid[pid] = "alive"
Dies(n) == /\ kid' = [kid EXCEPT ![n] = "zombie"]
           /\ busy' = IF n = pid THEN "none" ELSE busy
UpToJoin == {s \in Streams : up[s]}   \* mutant: threads that have left are not
ToJoin == {s \in Streams : needsJoin[s]}

Init ==
  /\ app = "idle" /\ then = "gone" /\ on = "out" /\ left = 0
  /\ last = [call |-> "GetInstance", s |-> "out", res |-> TRUE]
  /\ running = FALSE /\ shouldRun = FALSE /\ ack = FALSE
  /\ up = [s \in Streams |-> FALSE] /\ needsJoin = [s \in Streams |-> FALSE]
  /\ ends = {} /\ buf = [s \in Streams |-> 0]
  /\ thread = [s \in Streams |-> "none"] /\ hand = [s \in Streams |-> 0]
  /\ pid = 0    \* not initialised by the constructor, nor used before Launch
  /\ kid = [n \in Kids |-> "none"]
  /\ todo = [s \in Streams |-> 0] /\ busy = "none"
  /\ pipe = [s \in Pipes |-> 0]

-----------------------------------------------------------------------------
(* Shutdown, the first part of Launch and all of the destructor.            *)

Launches == Cardinality({n \in Kids : kid[n] # "none"})

(* CloseStdIOThreads closes stdin only. Mutants: all the ends, or none.      *)
AllClosed == ends \ {W("in"), R("out"), R("err")}
NoneClosed == ends
StdInClosed == ends \ {W("in")}

Shutdown(next) ==
  /\ app = "idle"
  /\ next = "fork" => /\ Launches < MaxLaunches
                      /\ pid \in Kids => kid[pid] = "reaped" \/ "relaunch" \in Habits
  /\ shouldRun' = FALSE /\ ends' = StdInClosed
  /\ app' = "shutdown" /\ then' = next
  /\ UNCHANGED <<on, left, last, running, ack, needsJoin, threadVars, pid,
                 kidVars, pipe>>

JoinStays(s) ==    \* mutant: m_bStdOutNeedsJoin stays set
  /\ thread[s] = "ended"
  /\ thread' = [thread EXCEPT ![s] = "none"] /\ UNCHANGED needsJoin
Join(s) ==
  /\ thread[s] = "ended"
  /\ thread' = [thread EXCEPT ![s] = "none"]
  /\ needsJoin' = [needsJoin EXCEPT ![s] = FALSE]

ShutdownJoins ==
  /\ app = "shutdown" /\ ToJoin # {}
  /\ Join(First(ToJoin))
  /\ UNCHANGED <<callVars, running, shouldRun, ack, ends, up, buf, hand, pid,
                 kidVars, pipe>>

ShutdownEnds ==
  /\ app = "shutdown" /\ ToJoin = {}
  /\ ends' = ends \ {R("out"), R("err")}
  /\ pipe' = [s \in Pipes |-> IF s = "in" THEN pipe[s] ELSE 0]
  /\ app' = then
  /\ UNCHANGED <<then, on, left, last, flagVars, threadVars, pid, kidVars>>

-----------------------------------------------------------------------------
(* The rest of Launch. *)

(* A pipe cannot be made; those made before it stay in the object.          *)
PipeFails ==
  /\ app = "fork" /\ "nopipe" \in Habits
  /\ \E made \in SUBSET Pipes :
       /\ made # Pipes /\ ("err" \in made /\ "out" \in Streams => "out" \in made)
       /\ "in" \notin made
       /\ ends' = ends \cup {<<s, e>> : s \in made, e \in {"r", "w"}}
  /\ app' = "idle" /\ Returns("Launch", on, FALSE)
  /\ UNCHANGED <<then, on, left, flagVars, threadVars, pid, kidVars, pipe>>

AllEnds == ends \cup (Pipes \X {"r", "w"})   \* mutant: the child's stay open
ParentEnds == (ends \ {W("out"), W("err"), R("in")}) \cup {R(s) : s \in Streams}
                \cup (IF StdIn THEN {W("in")} ELSE {})
NoAck == FALSE

(* A failed fork is taken for a launched child. *)
Fork ==
  /\ app = "fork"
  /\ \/ /\ pid' = Launches + 1
        /\ kid' = [kid EXCEPT ![pid'] = "alive"]
        /\ todo' \in [Streams -> Output] /\ busy' = "none"
     \/ /\ "nofork" \in Habits
        /\ pid' = None
        /\ UNCHANGED kidVars
  /\ pipe' = [s \in Pipes |-> 0]
  /\ ends' = ParentEnds
  /\ running' = TRUE /\ shouldRun' = TRUE /\ ack' = NoAck
  /\ app' = "spawn"
  /\ UNCHANGED <<then, on, left, last, needsJoin, threadVars>>

CreateThread ==
  /\ app = "spawn" /\ Streams \ ToJoin # {}
  /\ on' = First(Streams \ ToJoin)
  /\ thread' = [thread EXCEPT ![on'] = "start"]
  /\ needsJoin' = [needsJoin EXCEPT ![on'] = TRUE]
  /\ app' = "awaitUp"
  /\ UNCHANGED <<then, left, last, running, shouldRun, ack, ends, up, buf,
                 hand, pid, kidVars, pipe>>

ThreadIsUp ==
  /\ app = "awaitUp" /\ up[on]
  /\ app' = "spawn"
  /\ UNCHANGED <<then, on, left, last, flagVars, ends, threadVars, pid,
                 kidVars, pipe>>

LaunchReturns ==
  /\ app = "spawn" /\ Streams \ ToJoin = {}
  /\ ack' = TRUE
  /\ app' = "idle" /\ Returns("Launch", on, TRUE)
  /\ UNCHANGED <<then, on, left, running, shouldRun, needsJoin, ends,
                 threadVars, pid, kidVars, pipe>>

-----------------------------------------------------------------------------
(* The other calls of the application. *)

(* One turn of the loop of Wait. With m_pid = -1 the system is asked for any *)
(* child, and whichever it reaps is taken for a timeout.                     *)
Wait ==
  /\ app = "idle" /\ running
  /\ \/ /\ pid \in Kids /\ kid[pid] = "zombie"
        /\ kid' = [kid EXCEPT ![pid] = "reaped"]
        /\ running' = FALSE /\ Returns("Wait", on, TRUE)
     \/ /\ pid = None
        /\ \E n \in Kids : kid[n] = "zombie" /\ kid' = [kid EXCEPT ![n] = "reaped"]
        /\ Returns("Wait", on, FALSE) /\ UNCHANGED running
     \/ /\ IF pid = None THEN \A n \in Kids : kid[n] # "zombie"
                         ELSE kid[pid] # "zombie"
        /\ Returns("Wait", on, FALSE) /\ UNCHANGED <<kid, running>>
  /\ UNCHANGED <<app, then, on, left, shouldRun, ack, needsJoin, ends,
                 threadVars, pid, todo, busy, pipe>>

(* ReadStdOutEx(false), ReadStdErrEx(false) *)
Read(s) ==
  /\ app = "idle"
  /\ buf' = [buf EXCEPT ![s] = 0]
  /\ Returns("Read", s, TRUE)
  /\ UNCHANGED <<app, then, on, left, flagVars, ends, up, thread, hand, pid,
                 kidVars, pipe>>

NeverJoins(s) == FALSE   \* mutant: a final read does not wait
JoinsFirst(s) == needsJoin[s]

(* ReadStdOutEx(true), ReadStdErrEx(true): throws while the process runs.    *)
ReadFinal(s) ==
  /\ app = "idle" /\ ~running
  /\ on' = s
  /\ IF JoinsFirst(s)
     THEN app' = "final" /\ UNCHANGED <<buf, last>>
     ELSE buf' = [buf EXCEPT ![s] = 0] /\ Returns("Final", s, TRUE) /\ UNCHANGED app
  /\ UNCHANGED <<then, left, flagVars, ends, up, thread, hand, pid, kidVars, pipe>>

ReadFinalJoins ==
  /\ app = "final"
  /\ Join(on)
  /\ buf' = [buf EXCEPT ![on] = 0]
  /\ app' = "idle" /\ Returns("Final", on, TRUE)
  /\ UNCHANGED <<then, on, left, running, shouldRun, ack, ends, up, hand, pid,
                 kidVars, pipe>>

(* WriteStdInEx throws when the process is not running or stdin is closed.   *)
WriteStdIn(n) ==
  /\ app = "idle" /\ running /\ W("in") \in ends
  /\ app' = "write" /\ left' = n
  /\ UNCHANGED <<then, on, last, flagVars, ends, threadVars, pid, kidVars, pipe>>

WriteSome ==
  /\ app = "write" /\ Alive
  /\ \E k \in 1 .. Least(left, PipeSize - pipe["in"]) :
       /\ pipe' = [pipe EXCEPT !["in"] = pipe["in"] + k]
       /\ left' = left - k
  /\ IF left' = 0 THEN app' = "idle" /\ Returns("WriteStdIn", on, TRUE)
                  ELSE UNCHANGED <<app, last>>
  /\ UNCHANGED <<then, on, flagVars, ends, threadVars, pid, kidVars>>

WriteFails ==
  /\ app = "write" /\ ~Alive /\ R("in") \notin ends
  /\ ends' = ends \ {W("in")} /\ left' = 0
  /\ app' = "idle" /\ Returns("WriteStdIn", on, FALSE)
  /\ UNCHANGED <<then, on, flagVars, threadVars, pid, kidVars, pipe>>

CloseStdIOThreads ==
  /\ app = "idle"
  /\ shouldRun' = FALSE /\ ends' = StdInClosed
  /\ Returns("CloseStdIOThreads", on, TRUE)
  /\ UNCHANGED <<app, then, on, left, running, ack, needsJoin, threadVars, pid,
                 kidVars, pipe>>

(* A SIGINT may end the child, a SIGKILL does. The signal is sent whatever   *)
(* became of the child; fork's -1 stands for every process there is.         *)
RequestShutdown(nice) ==
  /\ app = "idle"
  /\ Alive \/ ("signal" \in Habits /\ pid # 0)
  /\ \/ /\ Alive /\ Dies(pid)
        /\ Returns("RequestShutdown", on, TRUE)
     \/ /\ ~Alive \/ nice
        /\ Returns("RequestShutdown", on,
                   pid = None \/ (pid \in Kids /\ kid[pid] # "reaped"))
        /\ UNCHANGED <<kid, busy>>
  /\ running' = (running /\ nice)
  /\ UNCHANGED <<app, then, on, left, shouldRun, ack, needsJoin, ends,
                 threadVars, pid, todo, pipe>>

-----------------------------------------------------------------------------
(* StdOutThread, StdErrThread and AddToBuf *)

Goes(s, to) == thread' = [thread EXCEPT ![s] = to]

WaitsFirst(s) ==         \* mutant: the acknowledgement before the flag
  /\ thread[s] = "start" /\ ack /\ Goes(s, "awaitAck")
  /\ up' = [up EXCEPT ![s] = TRUE]
  /\ UNCHANGED <<callVars, flagVars, ends, buf, hand, pid, kidVars, pipe>>
ThreadStarts(s) ==
  /\ thread[s] = "start" /\ Goes(s, "awaitAck")
  /\ up' = [up EXCEPT ![s] = TRUE]
  /\ UNCHANGED <<callVars, flagVars, ends, buf, hand, pid, kidVars, pipe>>

ThreadAcked(s) ==
  /\ thread[s] = "awaitAck" /\ ack /\ Goes(s, "loop")
  /\ UNCHANGED <<callVars, flagVars, ends, up, buf, hand, pid, kidVars, pipe>>

ThreadLoops(s) ==
  /\ thread[s] = "loop" /\ Goes(s, IF shouldRun THEN "read" ELSE "leave")
  /\ UNCHANGED <<callVars, flagVars, ends, up, buf, hand, pid, kidVars, pipe>>

(* The end of the file is seen when nobody can write any more.               *)
EndOfFile(s) == pipe[s] = 0 /\ ~Alive /\ W(s) \notin ends
ReadLimit(s) == Least(Chunk, pipe[s])

ThreadReads(s) ==
  /\ thread[s] = "read"
  /\ \/ \E k \in 1 .. ReadLimit(s) :
          /\ pipe' = [pipe EXCEPT ![s] = pipe[s] - k]
          /\ hand' = [hand EXCEPT ![s] = k]
          /\ Goes(s, "append")
     \/ /\ EndOfFile(s)
        /\ Goes(s, "leave")
        /\ UNCHANGED <<pipe, hand>>
  /\ UNCHANGED <<callVars, flagVars, ends, up, buf, pid, kidVars>>

(* Mutants: the limit is not looked at, or compared the wrong way round.     *)
NeverFull(n) == FALSE
HasRoom(n) == n < MaxBuf
Full(n) == n > MaxBuf

ThreadAppends(s) ==
  /\ thread[s] = "append"
  /\ buf' = [buf EXCEPT ![s] = buf[s] + hand[s]]
  /\ hand' = [hand EXCEPT ![s] = 0]
  /\ Goes(s, IF Full(buf'[s]) THEN "full" ELSE "loop")
  /\ UNCHANGED <<callVars, flagVars, ends, up, pid, kidVars, pipe>>

ThreadHasRoom(s) ==
  /\ thread[s] = "full" /\ (~Full(buf[s]) \/ ~shouldRun) /\ Goes(s, "loop")
  /\ UNCHANGED <<callVars, flagVars, ends, up, buf, hand, pid, kidVars, pipe>>

ThreadLeaves(s) ==
  /\ thread[s] = "leave" /\ Goes(s, "ended")
  /\ up' = [up EXCEPT ![s] = FALSE]
  /\ UNCHANGED <<callVars, flagVars, ends, buf, hand, pid, kidVars, pipe>>

-----------------------------------------------------------------------------
(* The child. *)

StdInEnded == pipe["in"] = 0 /\ W("in") \notin ends

(* It begins to write to a stream or to read its stdin, and does nothing     *)
(* else until that call returns.                                             *)
ChildCalls ==
  /\ Alive /\ busy = "none"
  /\ \/ \E s \in Streams : todo[s] > 0 /\ busy' = s
     \/ StdIn /\ ~StdInEnded /\ busy' = "in"
  /\ UNCHANGED <<callVars, flagVars, ends, threadVars, pid, kid, todo, pipe>>

(* A write may be of any number of bytes, and returns when all of them are   *)
(* in the pipe.                                                              *)
ChildWrites(s) ==
  /\ Alive /\ busy = s /\ todo[s] > 0
  /\ \/ /\ R(s) \in ends /\ pipe[s] < PipeSize
        /\ pipe' = [pipe EXCEPT ![s] = pipe[s] + 1]
        /\ todo' = [todo EXCEPT ![s] = todo[s] - 1]
        /\ busy' \in {"none"} \cup (IF todo'[s] > 0 THEN {s} ELSE {})
        /\ UNCHANGED kid
     \/ /\ R(s) \notin ends
        /\ Dies(pid)
        /\ UNCHANGED <<pipe, todo>>
  /\ UNCHANGED <<callVars, flagVars, ends, threadVars, pid>>

ChildReads ==
  /\ Alive /\ StdIn /\ busy = "in"
  /\ \/ pipe["in"] > 0 /\ pipe' = [pipe EXCEPT !["in"] = pipe["in"] - 1]
     \/ StdInEnded /\ UNCHANGED pipe
  /\ busy' = "none"
  /\ UNCHANGED <<callVars, flagVars, ends, threadVars, pid, kid, todo>>

ChildExits ==
  /\ \/ /\ Alive /\ busy = "none" /\ \A s \in Streams : todo[s] = 0
        /\ StdIn => StdInEnded
        /\ Dies(pid)
     \/ \E n \in Kids \ {pid} : kid[n] = "alive" /\ Dies(n)
  /\ UNCHANGED <<callVars, flagVars, ends, threadVars, pid, todo, pipe>>

-----------------------------------------------------------------------------
InCall == \/ ShutdownJoins \/ ShutdownEnds \/ PipeFails \/ Fork \/ CreateThread
          \/ ThreadIsUp \/ LaunchReturns \/ ReadFinalJoins
          \/ WriteSome \/ WriteFails
Calls == \/ Shutdown("fork") \/ Shutdown("gone") \/ Wait \/ CloseStdIOThreads
         \/ \E s \in Streams : Read(s) \/ ReadFinal(s)
         \/ \E n \in Input : WriteStdIn(n)
         \/ \E nice \in BOOLEAN : RequestShutdown(nice)
Thread(s) == \/ ThreadStarts(s) \/ ThreadAcked(s) \/ ThreadLoops(s)
             \/ ThreadReads(s) \/ ThreadAppends(s) \/ ThreadHasRoom(s)
             \/ ThreadLeaves(s)
Child == ChildCalls \/ (\E s \in Streams : ChildWrites(s)) \/ ChildReads \/ ChildExits

Next == InCall \/ Calls \/ (\E s \in Streams : Thread(s)) \/ Child

Spec == Init /\ [][Next]_vars

(* Threads and processes are scheduled; when the application makes which     *)
(* call is up to it.                                                         *)
FairSpec == /\ Spec /\ WF_vars(InCall) /\ WF_vars(Child)
            /\ \A s \in Streams : WF_vars(Thread(s))

-----------------------------------------------------------------------------
(* Properties. *)

AppStates == {"idle", "shutdown", "fork", "spawn", "awaitUp", "final", "write", "gone"}
ThreadStates == {"none", "start", "awaitAck", "loop", "read", "append", "full",
                 "leave", "ended"}
(* The members of the object, its threads and its pipes have their types. *)
TypeOK ==
  /\ app \in AppStates /\ then \in {"fork", "gone"} /\ on \in {"out", "err"}
  /\ left \in Nat /\ last.res \in BOOLEAN
  /\ running \in BOOLEAN /\ shouldRun \in BOOLEAN /\ ack \in BOOLEAN
  /\ up \in [Streams -> BOOLEAN] /\ needsJoin \in [Streams -> BOOLEAN]
  /\ ends \subseteq Pipes \X {"r", "w"}
  /\ buf \in [Streams -> Nat] /\ hand \in [Streams -> 0 .. Chunk]
  /\ thread \in [Streams -> ThreadStates]
  /\ pid \in Kids \cup {0, None}
  /\ kid \in [Kids -> {"none", "alive", "zombie", "reaped"}]
  /\ todo \in [Streams -> Nat] /\ busy \in Pipes \cup {"none"}
  /\ pipe \in [Pipes -> 0 .. PipeSize]

(* A thread that has been joined has set its flag back (the assertions of    *)
(* Shutdown), and one that is needed is never lost sight of.                 *)
ThreadsAccountedFor ==
  \A s \in Streams : /\ needsJoin[s] <=> thread[s] # "none"
                     /\ ~needsJoin[s] => ~up[s]

(* A reader thread reads a descriptor that is open, never one that Shutdown  *)
(* has closed and the system may have given to another file.                 *)
ReadsOpenEnd == \A s \in Streams : thread[s] = "read" => R(s) \in ends

(* No thread uses an object that is being destroyed.                         *)
ObjectOutlivesThreads == app = "gone" => \A s \in Streams : thread[s] = "none"

(* A thread that Launch has started stays up until Launch has seen it, so    *)
(* that Launch does not wait for ever, and it does not give up before the    *)
(* end of the file unless it was told to.                                    *)
ThreadsWaitForLaunch ==
  /\ app \in {"spawn", "awaitUp"} =>
       \A s \in Streams : thread[s] \in {"none", "start", "awaitAck"}
  /\ \A s \in Streams : thread[s] = "leave" => ~shouldRun \/ EndOfFile(s)

(* The buffers do not grow with what a child writes: the thread that fills   *)
(* one stops at most one read beyond the limit. (What nobody read stays in   *)
(* the buffer when the object launches again, hence the factor.)             *)
BufferBounded == \A s \in Streams : buf[s] + hand[s] <= MaxBuf + Chunk * Launches

(* A final read leaves nothing behind, unless the threads have been told to  *)
(* stop.                                                                     *)
LeftBehind(s) == buf[s] + hand[s] + pipe[s]
FinalReadComplete ==
  app = "idle" /\ last.call = "Final" /\ shouldRun => LeftBehind(last.s) = 0

(* ... and whatever was called before it.                                    *)
FinalReadTakesAll == app = "idle" /\ last.call = "Final" => LeftBehind(last.s) = 0

(* Every child is waited for before the object forgets its process id.       *)
NoChildForgotten == \A n \in Kids : kid[n] \in {"alive", "zombie"} => n = pid

(* When Launch makes its pipes no descriptor of an earlier launch is open.   *)
DescriptorsClosed == app = "fork" => ends = {}

(* ... and no output of an earlier child is left in the buffers.             *)
BuffersEmptied == app = "fork" => \A s \in Streams : buf[s] = 0

(* RequestShutdown succeeds only if there is a child to receive the signal.  *)
SignalReachesChild ==
  last.call = "RequestShutdown" /\ last.res => pid \in Kids

(* Launch, Shutdown and the destructor return.                               *)
LaunchComesUp == app = "spawn" ~> app = "idle"
ShutdownReturns == app = "shutdown" ~> app # "shutdown"

(* A final read returns: the thread it waits for ends soon after the child.  *)
FinalReadReturns == app = "final" ~> app = "idle"

(* WriteStdInEx, which waits while the child does not read, returns although *)
(* the child may be waiting itself, in the middle of writing to a pipe that  *)
(* is full: the reader thread empties it. Needs a buffer that takes the      *)
(* output, since the application that could empty it is the one that waits.  *)
WriteReturns == app = "write" ~> app # "write"

=============================================================================
