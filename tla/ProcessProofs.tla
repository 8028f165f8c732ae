--------------------------- MODULE ProcessProofs ---------------------------
(***************************************************************************)
(* Proofs about Process, for any captured streams, sizes, numbers of       *)
(* launches, and whatever system and application do (Habits).              *)
(***************************************************************************)
EXTENDS Process, FiniteSetTheorems, TLAPS

CallNames == {"GetInstance", "Launch", "Wait", "Read", "Final", "WriteStdIn",
              "CloseStdIOThreads", "RequestShutdown"}
CallType == [call : CallNames, s : {"out", "err"}, res : BOOLEAN]

(* The types, and what makes the steps stay in them: WriteStdInEx is only    *)
(* called for a captured stdin.                                              *)
TypeInv ==
  /\ TypeOK /\ last \in CallType
  /\ app = "write" => StdIn
  /\ app \in {"awaitUp", "final"} => on \in Streams
  /\ last.call = "Final" => last.s \in Streams

(* Children are numbered in the order of their launches.                     *)
Launched == {n \in Kids : kid[n] # "none"}
KidsInv ==
  /\ Launched = 1 .. Launches /\ Launches \in Nat
  /\ pid \in Kids => kid[pid] # "none"
  /\ app \in {"fork", "shutdown"} /\ then = "fork" => Launches < MaxLaunches
  /\ app = "fork" => then = "fork"

(* A thread is up between two of its steps; there is none when the object    *)
(* forks or is gone.                                                         *)
UpStates == {"awaitAck", "loop", "read", "append", "full", "leave"}
ThreadInv ==
  /\ \A s \in Streams : /\ needsJoin[s] <=> thread[s] # "none"
                        /\ up[s] <=> thread[s] \in UpStates
                        /\ hand[s] > 0 => thread[s] = "append"
  /\ app \in {"fork", "gone"} => \A s \in Streams : thread[s] = "none"
  /\ app \in {"shutdown", "fork"} => ~shouldRun

(* The read ends are open from fork until the threads are joined.            *)
EndsInv ==
  \A s \in Streams : app \in {"spawn", "awaitUp"} \/ thread[s] # "none" => R(s) \in ends

(* Without a child nothing comes out of a pipe; a thread that will read has  *)
(* a buffer that is at most one read over the limit for each earlier launch. *)
WillRead(s) == \/ thread[s] = "read"
               \/ thread[s] \in {"none", "start", "awaitAck", "loop"} /\ shouldRun
BoundInv ==
  \A s \in Streams :
    /\ buf[s] + hand[s] <= MaxBuf + Chunk * Launches
    /\ pid \notin Kids => pipe[s] = 0
    /\ pid \in Kids /\ WillRead(s) => buf[s] + Chunk <= MaxBuf + Chunk * Launches

(* A thread that ended of its own accord, joined or not, has left nothing in *)
(* the pipe, and no more will come.                                          *)
Drained(s) == pipe[s] = 0 /\ ~Alive
FinalInv ==
  /\ \A s \in Streams : shouldRun /\ thread[s] \in {"leave", "ended"} => Drained(s)
  /\ \A s \in Streams :
       shouldRun /\ app \in {"idle", "final", "write"} /\ thread[s] = "none" => Drained(s)
  /\ app = "idle" /\ last.call = "Final" /\ shouldRun =>
       thread[last.s] = "none" /\ buf[last.s] = 0

IInv == TypeInv /\ KidsInv /\ ThreadInv /\ EndsInv /\ BoundInv /\ FinalInv

-----------------------------------------------------------------------------

LEMMA FirstMeans ==
  ASSUME NEW S \in SUBSET Streams, S # {} PROVE First(S) \in S
  BY ProcessAssumption DEF First

LEMMA StreamsArePipes ==
  /\ Streams \subseteq {"out", "err"} /\ Streams \subseteq Pipes /\ "in" \notin Streams
  /\ "in" \in Pipes <=> StdIn
  BY ProcessAssumption DEF Pipes

(* What a join does to the two variables of the threads.                     *)
LEMMA JoinTypes ==
  ASSUME TypeInv, NEW s, Join(s)
  PROVE  thread' \in [Streams -> ThreadStates] /\ needsJoin' \in [Streams -> BOOLEAN]
  <1>1. thread' \in [Streams -> ThreadStates]
    BY DEF TypeInv, TypeOK, ThreadStates, Join
  <1>2. needsJoin' \in [Streams -> BOOLEAN]
    BY DEF TypeInv, TypeOK, Join
  <1> QED BY <1>1, <1>2

(* Every step keeps the types.                                               *)
LEMMA TypeStep == IInv /\ [Next]_vars => TypeInv'
<1> SUFFICES ASSUME IInv, [Next]_vars PROVE TypeInv'
  OBVIOUS
<1>a. TypeInv
  BY DEF IInv
<1> USE <1>a DEF TypeInv, TypeOK, AppStates, ThreadStates
<1>0. /\ Streams \subseteq {"out", "err"} /\ Streams \subseteq Pipes /\ "in" \notin Streams
      /\ "in" \in Pipes <=> StdIn
      /\ Chunk \in Nat \ {0} /\ PipeSize \in Nat \ {0} /\ MaxBuf \in Nat
      /\ Output \subseteq Nat /\ Input \subseteq Nat \ {0}
  BY StreamsArePipes, ProcessAssumption
<1>1. CASE ShutdownJoins
  <2>1. thread' \in [Streams -> ThreadStates] /\ needsJoin' \in [Streams -> BOOLEAN]
    BY <1>1, JoinTypes DEF ShutdownJoins
  <2> QED BY <1>1, <2>1 DEF ShutdownJoins, callVars, kidVars
<1>2. CASE ShutdownEnds
  BY <1>0, <1>2 DEF ShutdownEnds, flagVars, threadVars, kidVars
<1>3. CASE PipeFails
  <2>1. last' \in CallType /\ last'.res \in BOOLEAN /\ last'.call # "Final"
    BY <1>3 DEF Returns, CallType, CallNames, PipeFails
  <2>2. ends' \subseteq Pipes \X {"r", "w"}
    <3>1. PICK made \in SUBSET Pipes : ends' = ends \cup {<<s, e>> : s \in made, e \in {"r", "w"}}
      BY <1>3 DEF PipeFails
    <3> QED BY <3>1
  <2>3. app' = "idle" /\ UNCHANGED <<then, on, left, flagVars, threadVars, pid, kidVars, pipe>>
    BY <1>3 DEF PipeFails
  <2> QED BY <2>1, <2>2, <2>3 DEF flagVars, threadVars, kidVars
<1>4. CASE Fork
  <2>1. ends' \subseteq Pipes \X {"r", "w"}
    BY <1>0, <1>4 DEF Fork, ParentEnds, R, W
  <2>2. pipe' \in [Pipes -> 0 .. PipeSize]
    BY <1>0, <1>4 DEF Fork
  <2>3. /\ pid' \in Kids \cup {0, None}
        /\ kid' \in [Kids -> {"none", "alive", "zombie", "reaped"}]
        /\ todo' \in [Streams -> Nat] /\ busy' \in Pipes \cup {"none"}
    <3>1. Launches + 1 \in Kids
      BY <1>4, ProcessAssumption DEF Fork, IInv, KidsInv, Kids
    <3>2. CASE pid' = Launches + 1 /\ kid' = [kid EXCEPT ![pid'] = "alive"]
               /\ todo' \in [Streams -> Output] /\ busy' = "none"
      BY <1>0, <3>1, <3>2
    <3>3. CASE pid' = None /\ UNCHANGED kidVars
      BY <3>3 DEF kidVars
    <3> QED BY <1>4, <3>2, <3>3 DEF Fork
  <2>4. /\ app' = "spawn" /\ running' = TRUE /\ shouldRun' = TRUE /\ ack' = FALSE
        /\ UNCHANGED <<then, on, left, last, needsJoin, up, buf, thread, hand>>
    BY <1>4 DEF Fork, NoAck, threadVars
  <2> QED BY <2>1, <2>2, <2>3, <2>4
<1>5. CASE CreateThread
  <2>1. on' \in Streams
    <3>1. Streams \ ToJoin \in SUBSET Streams
      OBVIOUS
    <3> QED BY <1>5, <3>1, FirstMeans DEF CreateThread
  <2> QED BY <1>0, <1>5, <2>1 DEF CreateThread, kidVars
<1>6. CASE ThreadIsUp
  BY <1>6 DEF ThreadIsUp, flagVars, threadVars, kidVars
<1>7. CASE LaunchReturns
  <2>1. last' \in CallType /\ last'.res \in BOOLEAN /\ last'.call # "Final"
    BY <1>7 DEF Returns, CallType, CallNames, LaunchReturns
  <2> QED BY <1>7, <2>1 DEF LaunchReturns, threadVars, kidVars
<1>8. CASE ReadFinalJoins
  <2>1. /\ on \in Streams /\ last' \in CallType
        /\ last'.res \in BOOLEAN /\ last'.s \in Streams
    BY <1>8 DEF Returns, CallType, CallNames, ReadFinalJoins
  <2> QED BY <1>8, <2>1, JoinTypes DEF ReadFinalJoins, kidVars
<1>9. CASE WriteSome
  <2>1. last' \in CallType /\ last'.res \in BOOLEAN /\ (last'.call = "Final" => last'.s \in Streams)
    <3>1. Returns("WriteStdIn", on, TRUE) \/ UNCHANGED last
      BY <1>9 DEF WriteSome
    <3>2. CASE Returns("WriteStdIn", on, TRUE)
      BY <3>2 DEF Returns, CallType, CallNames
    <3> QED BY <3>1, <3>2
  <2>2. StdIn /\ pipe["in"] \in 0 .. PipeSize
    BY <1>0, <1>9 DEF WriteSome
  <2>3. PICK k \in 1 .. Least(left, PipeSize - pipe["in"]) :
          pipe' = [pipe EXCEPT !["in"] = pipe["in"] + k] /\ left' = left - k
    BY <1>9 DEF WriteSome
  <2>4. k \in Nat /\ k <= left /\ pipe["in"] + k <= PipeSize
    BY <1>0, <2>2 DEF Least
  <2>5. left' \in Nat /\ pipe' \in [Pipes -> 0 .. PipeSize]
    BY <1>0, <2>2, <2>3, <2>4
  <2> QED BY <1>9, <2>1, <2>2, <2>5 DEF WriteSome, flagVars, threadVars, kidVars
<1>10. CASE WriteFails
  <2>1. last' \in CallType /\ last'.res \in BOOLEAN /\ last'.call # "Final"
    BY <1>10 DEF Returns, CallType, CallNames, WriteFails
  <2> QED BY <1>10, <2>1 DEF WriteFails, flagVars, threadVars, kidVars
<1>11. CASE Wait
  <2>1. last' \in CallType /\ last'.res \in BOOLEAN /\ last'.call # "Final"
    <3>1. PICK res \in BOOLEAN : Returns("Wait", on, res)
      BY <1>11 DEF Wait
    <3> QED BY <3>1 DEF Returns, CallType, CallNames
  <2> QED BY <1>11, <2>1 DEF Wait, threadVars
<1>12. CASE CloseStdIOThreads
  <2>1. last' \in CallType /\ last'.res \in BOOLEAN /\ last'.call # "Final"
    BY <1>12 DEF Returns, CallType, CallNames, CloseStdIOThreads
  <2> QED BY <1>12, <2>1 DEF CloseStdIOThreads, StdInClosed, threadVars, kidVars
<1>13. ASSUME NEW next \in {"fork", "gone"}, Shutdown(next) PROVE TypeInv'
  BY <1>13 DEF Shutdown, StdInClosed, threadVars, kidVars
<1>14. ASSUME NEW s \in Streams, Read(s) PROVE TypeInv'
  <2>1. last' \in CallType /\ last'.res \in BOOLEAN /\ last'.call # "Final"
    BY <1>0, <1>14 DEF Returns, CallType, CallNames, Read
  <2> QED BY <1>14, <2>1 DEF Read, flagVars, kidVars
<1>15. ASSUME NEW s \in Streams, ReadFinal(s) PROVE TypeInv'
  <2>1. CASE JoinsFirst(s)
    BY <1>0, <1>15, <2>1 DEF ReadFinal, flagVars, kidVars
  <2>2. CASE ~JoinsFirst(s)
    <3>1. last' \in CallType /\ last'.res \in BOOLEAN /\ last'.s = s
      <4>1. Returns("Final", s, TRUE)
        BY <1>15, <2>2 DEF ReadFinal
      <4> QED BY <1>0, <4>1 DEF Returns, CallType, CallNames
    <3> QED BY <1>0, <1>15, <2>2, <3>1 DEF ReadFinal, flagVars, kidVars
  <2> QED BY <2>1, <2>2
<1>16. ASSUME NEW n \in Input, WriteStdIn(n) PROVE TypeInv'
  <2>1. StdIn
    BY <1>0, <1>16 DEF WriteStdIn, W
  <2> QED BY <1>0, <1>16, <2>1 DEF WriteStdIn, flagVars, threadVars, kidVars
<1>17. ASSUME NEW nice \in BOOLEAN, RequestShutdown(nice) PROVE TypeInv'
  <2>1. last' \in CallType /\ last'.res \in BOOLEAN /\ last'.call # "Final"
    <3>1. PICK res \in BOOLEAN : Returns("RequestShutdown", on, res)
      BY <1>17 DEF RequestShutdown
    <3> QED BY <3>1 DEF Returns, CallType, CallNames
  <2>2. /\ kid' \in [Kids -> {"none", "alive", "zombie", "reaped"}]
        /\ busy' \in Pipes \cup {"none"}
    BY <1>17 DEF RequestShutdown, Alive, Dies
  <2>3. running' \in BOOLEAN /\ UNCHANGED <<app, then, on, left, shouldRun, ack, needsJoin, ends,
                                           threadVars, pid, todo, pipe>>
    BY <1>17 DEF RequestShutdown
  <2> QED BY <2>1, <2>2, <2>3 DEF threadVars
<1>18. ASSUME NEW s \in Streams, ThreadStarts(s) \/ ThreadAcked(s) \/ ThreadLoops(s)
                                 \/ ThreadHasRoom(s) \/ ThreadLeaves(s)
       PROVE  TypeInv'
  <2>1. thread' \in [Streams -> ThreadStates]
    BY <1>18 DEF ThreadStarts, ThreadAcked, ThreadLoops, ThreadHasRoom, ThreadLeaves, Goes
  <2>2. up' \in [Streams -> BOOLEAN]
    BY <1>18 DEF ThreadStarts, ThreadAcked, ThreadLoops, ThreadHasRoom, ThreadLeaves
  <2>3. UNCHANGED <<callVars, flagVars, ends, buf, hand, pid, kidVars, pipe>>
    BY <1>18 DEF ThreadStarts, ThreadAcked, ThreadLoops, ThreadHasRoom, ThreadLeaves
  <2> QED BY <2>1, <2>2, <2>3 DEF callVars, flagVars, kidVars
<1>19. ASSUME NEW s \in Streams, ThreadReads(s) PROVE TypeInv'
  <2>1. pipe' \in [Pipes -> 0 .. PipeSize] /\ hand' \in [Streams -> 0 .. Chunk]
    <3>1. CASE UNCHANGED <<pipe, hand>>
      BY <3>1
    <3>2. ASSUME NEW k \in 1 .. ReadLimit(s), pipe' = [pipe EXCEPT ![s] = pipe[s] - k],
                 hand' = [hand EXCEPT ![s] = k]
          PROVE  pipe' \in [Pipes -> 0 .. PipeSize] /\ hand' \in [Streams -> 0 .. Chunk]
      <4>1. pipe[s] \in 0 .. PipeSize
        BY <1>0
      <4>2. k \in Nat /\ k <= Chunk /\ k <= pipe[s]
        BY <1>0, <4>1 DEF ReadLimit, Least
      <4> QED BY <1>0, <3>2, <4>1, <4>2
    <3> QED BY <1>19, <3>1, <3>2 DEF ThreadReads
  <2> QED BY <1>19, <2>1 DEF ThreadReads, Goes, callVars, flagVars, kidVars
<1>20. ASSUME NEW s \in Streams, ThreadAppends(s) PROVE TypeInv'
  BY <1>0, <1>20 DEF ThreadAppends, Goes, callVars, flagVars, kidVars
<1>21. ASSUME NEW s \in Streams, ChildWrites(s) PROVE TypeInv'
  BY <1>0, <1>21 DEF ChildWrites, Dies, Alive, callVars, flagVars, threadVars
<1>22. CASE ChildReads
  BY <1>0, <1>22 DEF ChildReads, callVars, flagVars, threadVars, kidVars
<1>23. CASE ChildExits
  BY <1>23 DEF ChildExits, Dies, Alive, callVars, flagVars, threadVars
<1>25. CASE ChildCalls
  BY <1>0, <1>25 DEF ChildCalls, callVars, flagVars, threadVars
<1>24. CASE UNCHANGED vars
  BY <1>24 DEF vars, callVars, flagVars, threadVars, kidVars
<1> QED BY <1>1, <1>2, <1>3, <1>4, <1>5, <1>6, <1>7, <1>8, <1>9, <1>10, <1>11, <1>12, <1>13,
           <1>14, <1>15, <1>16, <1>17, <1>18, <1>19, <1>20, <1>21, <1>22, <1>23, <1>24, <1>25
        DEF Next, InCall, Calls, Thread, Child

-----------------------------------------------------------------------------
(* Only Fork has a new child to number; every other step leaves the numbers  *)
(* as they are, and a child that is not alive stays so.                      *)
LEMMA KidKept ==
  ASSUME IInv, [Next]_vars, ~Fork
  PROVE  /\ pid' = pid /\ Launched' = Launched /\ Launches' = Launches
         /\ \A n \in Kids : kid'[n] = "none" <=> kid[n] = "none"
         /\ Alive' => Alive
<1>1. kid \in [Kids -> {"none", "alive", "zombie", "reaped"}]
  BY DEF IInv, TypeInv, TypeOK
<1>2. pid' = pid
  <2>1. CASE PipeFails
    BY <2>1 DEF PipeFails
  <2> QED BY <2>1
     DEF Next, InCall, Calls, Thread, Child, ShutdownJoins, ShutdownEnds, CreateThread, ThreadIsUp, LaunchReturns, ReadFinalJoins, WriteSome, WriteFails,
         Shutdown, Wait, CloseStdIOThreads, Read, ReadFinal, WriteStdIn, RequestShutdown,
         ThreadStarts, ThreadAcked, ThreadLoops, ThreadReads, ThreadAppends, ThreadHasRoom,
         ThreadLeaves, ChildWrites, ChildCalls, ChildReads, ChildExits, vars
<1>3. \/ UNCHANGED kid
      \/ \E n \in Kids : kid[n] # "none" /\ kid' = [kid EXCEPT ![n] = "zombie"]
      \/ \E n \in Kids : kid[n] = "zombie" /\ kid' = [kid EXCEPT ![n] = "reaped"]
  <2>1. CASE Wait
    BY <2>1 DEF Wait
  <2>2. ASSUME NEW nice \in BOOLEAN, RequestShutdown(nice)
        PROVE  UNCHANGED kid \/ \E n \in Kids : kid[n] # "none" /\ kid' = [kid EXCEPT ![n] = "zombie"]
    BY <2>2 DEF RequestShutdown, Alive, Dies
  <2>3. ASSUME NEW s \in Streams, ChildWrites(s)
        PROVE  UNCHANGED kid \/ \E n \in Kids : kid[n] # "none" /\ kid' = [kid EXCEPT ![n] = "zombie"]
    BY <2>3 DEF ChildWrites, Dies, Alive
  <2>4. CASE ChildExits
    BY <2>4 DEF ChildExits, Dies, Alive
  <2>5. CASE PipeFails
    BY <2>5 DEF PipeFails, kidVars
  <2>6. CASE \/ ShutdownJoins \/ ShutdownEnds \/ CreateThread \/ ThreadIsUp
             \/ LaunchReturns \/ ReadFinalJoins \/ WriteSome \/ WriteFails
             \/ Shutdown("fork") \/ Shutdown("gone") \/ CloseStdIOThreads
             \/ (\E s \in Streams : Read(s) \/ ReadFinal(s))
             \/ (\E n \in Input : WriteStdIn(n))
             \/ (\E s \in Streams : Thread(s)) \/ ChildCalls \/ ChildReads \/ UNCHANGED vars
    BY <2>6 DEF Thread, ShutdownJoins, ShutdownEnds, CreateThread, ThreadIsUp, LaunchReturns, ReadFinalJoins, WriteSome, WriteFails,
         Shutdown, CloseStdIOThreads, Read, ReadFinal, WriteStdIn,
         ThreadStarts, ThreadAcked, ThreadLoops, ThreadReads, ThreadAppends, ThreadHasRoom,
         ThreadLeaves, ChildCalls, ChildReads, vars, kidVars
  <2> QED BY <2>1, <2>2, <2>3, <2>4, <2>5, <2>6 DEF Next, InCall, Calls, Child
<1>4. /\ kid' \in [Kids -> {"none", "alive", "zombie", "reaped"}]
      /\ \A n \in Kids : kid'[n] = "none" <=> kid[n] = "none"
      /\ \A n \in Kids : kid'[n] = "alive" => kid[n] = "alive"
  BY <1>1, <1>3
<1>5. Launched' = Launched
  BY <1>4 DEF Launched
<1>6. Launches' = Launches
  BY <1>5 DEF Launches, Launched
<1> QED BY <1>2, <1>4, <1>5, <1>6 DEF Alive

(* A fork that succeeds numbers the next child, one that fails none.         *)
LEMMA ForkCounts ==
  ASSUME IInv, Fork
  PROVE  \/ /\ pid' = Launches + 1 /\ pid' \in Kids
            /\ kid' = [kid EXCEPT ![pid'] = "alive"]
            /\ Launched' = 1 .. (Launches + 1) /\ Launches' = Launches + 1
         \/ /\ pid' = None /\ pid' \notin Kids /\ UNCHANGED kidVars
            /\ Launched' = Launched /\ Launches' = Launches
<1>1. /\ kid \in [Kids -> {"none", "alive", "zombie", "reaped"}]
      /\ Launches \in Nat /\ Launches < MaxLaunches /\ Launched = 1 .. Launches
  BY DEF IInv, TypeInv, TypeOK, KidsInv, Fork
<1>2. CASE pid' = Launches + 1 /\ kid' = [kid EXCEPT ![pid'] = "alive"]
  <2>1. Launches + 1 \in Kids
    BY <1>1, ProcessAssumption DEF Kids
  <2>2. \A n \in Kids : kid'[n] # "none" <=> kid[n] # "none" \/ n = Launches + 1
    BY <1>1, <1>2, <2>1
  <2>3. \A n \in Kids : kid[n] # "none" <=> n \in 1 .. Launches
    BY <1>1 DEF Launched
  <2>4. Launched' = 1 .. (Launches + 1)
    BY <1>1, <2>1, <2>2, <2>3, ProcessAssumption DEF Launched, Kids
  <2>5. Launches' = Launches + 1
    <3>1. Cardinality(1 .. (Launches + 1)) = Launches + 1
      BY <1>1, FS_Interval
    <3>2. Launches' = Cardinality(Launched')
      BY DEF Launches, Launched
    <3> QED BY <2>4, <3>1, <3>2
  <2> QED BY <1>2, <2>1, <2>4, <2>5
<1>3. CASE pid' = None /\ UNCHANGED kidVars
  BY <1>3, ProcessAssumption DEF kidVars, Launched, Launches, Kids
<1> QED BY <1>2, <1>3 DEF Fork

(* The numbering of the children is kept.                                    *)
LEMMA KidsStep == IInv /\ [Next]_vars => KidsInv'
<1> SUFFICES ASSUME IInv, [Next]_vars PROVE KidsInv'
  OBVIOUS
<1>0. KidsInv
  BY DEF IInv
<1>1. CASE Fork
  <2>1. app' = "spawn"
    BY <1>1 DEF Fork
  <2>2. Launched' = 1 .. Launches' /\ Launches' \in Nat
    BY <1>0, <1>1, ForkCounts DEF KidsInv
  <2>3. pid' \in Kids => kid'[pid'] # "none"
    BY <1>1, ForkCounts DEF IInv, TypeInv, TypeOK
  <2> QED BY <2>1, <2>2, <2>3 DEF KidsInv, Kids
<1>2. CASE ~Fork
  <2>1. /\ Launched' = 1 .. Launches' /\ Launches' \in Nat
        /\ pid' \in Kids => kid'[pid'] # "none"
    BY <1>0, <1>2, KidKept DEF KidsInv
  <2>2. app' \in {"fork", "shutdown"} /\ then' = "fork" => Launches < MaxLaunches
    <3>1. ASSUME NEW next, Shutdown(next)
          PROVE  then' = "fork" => Launches < MaxLaunches
      BY <3>1 DEF Shutdown
    <3>2. CASE ShutdownEnds
      BY <1>0, <3>2 DEF ShutdownEnds, KidsInv
    <3>3. CASE UNCHANGED <<app, then>>
      BY <1>0, <3>3 DEF KidsInv
    <3>4. CASE app' \notin {"fork", "shutdown"}
      BY <3>4
    <3>5. CASE PipeFails
      BY <3>5 DEF PipeFails
    <3> QED BY <1>2, <3>1, <3>2, <3>3, <3>4, <3>5
        DEF Next, InCall, Calls, Thread, Child, ShutdownJoins,
            CreateThread, ThreadIsUp, LaunchReturns, ReadFinalJoins, WriteSome, WriteFails,
            Wait, CloseStdIOThreads, Read, ReadFinal, WriteStdIn, RequestShutdown,
            ThreadStarts, ThreadAcked, ThreadLoops, ThreadReads, ThreadAppends, ThreadHasRoom,
            ThreadLeaves, ChildWrites, ChildCalls, ChildReads, ChildExits, vars, callVars
  <2>3. app' = "fork" => then' = "fork"
    <3>1. CASE PipeFails
      BY <3>1 DEF PipeFails
    <3> QED BY <1>0, <1>2, <3>1
        DEF KidsInv, Next, InCall, Calls, Thread, Child, ShutdownJoins, ShutdownEnds,
            CreateThread, ThreadIsUp, LaunchReturns, ReadFinalJoins, WriteSome, WriteFails,
            Shutdown, Wait, CloseStdIOThreads, Read, ReadFinal, WriteStdIn, RequestShutdown,
            ThreadStarts, ThreadAcked, ThreadLoops, ThreadReads, ThreadAppends, ThreadHasRoom,
            ThreadLeaves, ChildWrites, ChildCalls, ChildReads, ChildExits, vars, callVars
  <2> QED BY <1>2, <2>1, <2>2, <2>3, KidKept DEF KidsInv
<1> QED BY <1>1, <1>2

(* The threads stay accounted for.                                           *)
LEMMA ThreadStep == IInv /\ [Next]_vars => ThreadInv'
<1> SUFFICES ASSUME IInv, [Next]_vars PROVE ThreadInv'
  OBVIOUS
<1>0. /\ ThreadInv /\ up \in [Streams -> BOOLEAN] /\ needsJoin \in [Streams -> BOOLEAN]
      /\ hand \in [Streams -> 0 .. Chunk] /\ thread \in [Streams -> ThreadStates]
      /\ Streams \subseteq {"out", "err"} /\ Chunk \in Nat
  BY ProcessAssumption DEF IInv, TypeInv, TypeOK
<1> DEFINE Counted(s) == /\ needsJoin[s] <=> thread[s] # "none"
                         /\ up[s] <=> thread[s] \in UpStates
                         /\ hand[s] > 0 => thread[s] = "append"
           Gone == app \in {"fork", "gone"} => \A s \in Streams : thread[s] = "none"
           Told == app \in {"shutdown", "fork"} => ~shouldRun
<1>1. \A s \in Streams : Counted(s)'
  <2>1. ASSUME NEW s \in Streams, Join(s), UNCHANGED <<up, hand>>
        PROVE  \A t \in Streams : Counted(t)'
    BY <1>0, <2>1 DEF ThreadInv, Join, UpStates
  <2>2. CASE ShutdownJoins
    <3>1. First(ToJoin) \in Streams
      <4>1. ToJoin \in SUBSET Streams
        BY DEF ToJoin
      <4> QED BY <2>2, <4>1, FirstMeans DEF ShutdownJoins
    <3> QED BY <2>1, <2>2, <3>1 DEF ShutdownJoins
  <2>3. CASE ReadFinalJoins
    <3>1. on \in Streams
      BY <2>3 DEF ReadFinalJoins, IInv, TypeInv
    <3> QED BY <2>1, <2>3, <3>1 DEF ReadFinalJoins
  <2>4. CASE CreateThread
    <3>1. on' \in Streams \ ToJoin
      <4>1. Streams \ ToJoin \in SUBSET Streams
        OBVIOUS
      <4> QED BY <2>4, <4>1, FirstMeans DEF CreateThread
    <3>2. thread[on'] = "none" /\ ~up[on'] /\ ~(hand[on'] > 0)
      BY <1>0, <3>1 DEF ThreadInv, ToJoin, UpStates
    <3>3. /\ thread' = [thread EXCEPT ![on'] = "start"]
          /\ needsJoin' = [needsJoin EXCEPT ![on'] = TRUE] /\ UNCHANGED <<up, hand>>
      BY <2>4 DEF CreateThread
    <3> QED BY <1>0, <3>1, <3>2, <3>3 DEF ThreadInv, UpStates
  <2>5. ASSUME NEW s \in Streams, Thread(s)
        PROVE  \A t \in Streams : Counted(t)'
    <3>1. CASE ThreadStarts(s)
      BY <1>0, <3>1 DEF ThreadInv, ThreadStarts, Goes, UpStates, flagVars
    <3>2. CASE ThreadAcked(s) \/ ThreadLoops(s) \/ ThreadHasRoom(s)
      BY <1>0, <3>2 DEF ThreadInv, ThreadAcked, ThreadLoops, ThreadHasRoom, Goes, UpStates, flagVars
    <3>3. CASE ThreadReads(s)
      BY <1>0, <3>3 DEF ThreadInv, ThreadReads, Goes, UpStates, flagVars
    <3>4. CASE ThreadAppends(s)
      BY <1>0, <3>4 DEF ThreadInv, ThreadAppends, Goes, UpStates, flagVars
    <3>5. CASE ThreadLeaves(s)
      BY <1>0, <3>5 DEF ThreadInv, ThreadLeaves, Goes, UpStates, flagVars
    <3> QED BY <2>5, <3>1, <3>2, <3>3, <3>4, <3>5 DEF Thread
  <2>6. CASE UNCHANGED <<up, needsJoin, thread, hand>>
    BY <1>0, <2>6 DEF ThreadInv
  <2>7. CASE PipeFails
    BY <2>6, <2>7 DEF PipeFails, flagVars, threadVars
  <2> QED BY <2>2, <2>3, <2>4, <2>5, <2>6, <2>7
      DEF Next, InCall, Calls, Child, ShutdownEnds, Fork, ThreadIsUp, LaunchReturns,
          WriteSome, WriteFails, Shutdown, Wait, CloseStdIOThreads, Read, ReadFinal, WriteStdIn,
          RequestShutdown, ChildWrites, ChildCalls, ChildReads, ChildExits, vars, flagVars, threadVars
<1>2. Gone'
  <2>1. CASE ShutdownEnds
    <3>1. \A s \in Streams : ~needsJoin[s]
      BY <2>1 DEF ShutdownEnds, ToJoin
    <3> QED BY <1>0, <2>1, <3>1 DEF ShutdownEnds, ThreadInv, threadVars
  <2>2. ASSUME NEW s \in Streams, Thread(s) PROVE Gone'
    <3>1. thread[s] # "none" /\ UNCHANGED app
      BY <2>2 DEF Thread, ThreadStarts, ThreadAcked, ThreadLoops, ThreadReads, ThreadAppends,
                  ThreadHasRoom, ThreadLeaves, callVars
    <3> QED BY <1>0, <3>1 DEF ThreadInv
  <2>3. CASE UNCHANGED <<app, thread>>
    BY <1>0, <2>3 DEF ThreadInv
  <2>4. CASE app' \notin {"fork", "gone"}
    BY <2>4
  <2>5. CASE PipeFails
    BY <2>5 DEF PipeFails
  <2> QED BY <2>1, <2>2, <2>3, <2>4, <2>5
      DEF Next, InCall, Calls, Child, Fork, ThreadIsUp, LaunchReturns, ShutdownJoins,
          CreateThread, ReadFinalJoins,
          WriteSome, WriteFails, Shutdown, Wait, CloseStdIOThreads, Read, ReadFinal, WriteStdIn,
          RequestShutdown, ChildWrites, ChildCalls, ChildReads, ChildExits, vars, callVars, threadVars
<1>3. Told'
  <2>1. CASE UNCHANGED <<app, shouldRun>>
    BY <1>0, <2>1 DEF ThreadInv
  <2>2. CASE ShutdownEnds
    BY <1>0, <2>2 DEF ThreadInv, ShutdownEnds, flagVars
  <2>3. CASE app' \notin {"shutdown", "fork"} \/ ~shouldRun'
    BY <2>3
  <2>4. CASE PipeFails
    BY <2>4 DEF PipeFails
  <2> QED BY <2>1, <2>2, <2>3, <2>4
      DEF Next, InCall, Calls, Child, Thread, ShutdownJoins, Fork, CreateThread,
          ThreadIsUp, LaunchReturns, ReadFinalJoins, WriteSome, WriteFails, Shutdown, Wait,
          CloseStdIOThreads, Read, ReadFinal, WriteStdIn, RequestShutdown, ThreadStarts,
          ThreadAcked, ThreadLoops, ThreadReads, ThreadAppends, ThreadHasRoom, ThreadLeaves,
          ChildWrites, ChildCalls, ChildReads, ChildExits, vars, callVars, flagVars
<1> QED BY <1>1, <1>2, <1>3 DEF ThreadInv

(* The read ends stay open as long as a thread may read from them.           *)
LEMMA EndsStep == IInv /\ [Next]_vars => EndsInv'
<1> SUFFICES ASSUME IInv, [Next]_vars, NEW s \in Streams,
                    app' \in {"spawn", "awaitUp"} \/ thread'[s] # "none"
             PROVE  (R(s) \in ends)'
  BY DEF EndsInv
<1>0. /\ EndsInv /\ ThreadInv /\ Streams \subseteq {"out", "err"}
      /\ thread \in [Streams -> ThreadStates]
  BY ProcessAssumption DEF IInv, TypeInv, TypeOK
<1>1. CASE Fork
  BY <1>0, <1>1 DEF Fork, ParentEnds, R
<1>2. CASE ShutdownEnds
  <2>1. thread'[s] = "none" /\ app' \in {"fork", "gone"}
    BY <1>0, <1>2 DEF ShutdownEnds, ThreadInv, ToJoin, threadVars, IInv, TypeInv, TypeOK
  <2> QED BY <2>1
<1>3. CASE ~Fork /\ ~ShutdownEnds
  <2>1. ends \ {W("in")} \subseteq ends'
    <3>1. CASE PipeFails
      BY <3>1 DEF PipeFails
    <3> QED BY <1>3, <3>1 DEF Next, InCall, Calls, Child, Thread, ShutdownJoins, CreateThread,
          ThreadIsUp, LaunchReturns, ReadFinalJoins, WriteSome, WriteFails, Shutdown, Wait,
          CloseStdIOThreads, Read, ReadFinal, WriteStdIn, RequestShutdown, ThreadStarts,
          ThreadAcked, ThreadLoops, ThreadReads, ThreadAppends, ThreadHasRoom, ThreadLeaves,
          ChildWrites, ChildCalls, ChildReads, ChildExits, vars, StdInClosed
  <2>2. app \in {"spawn", "awaitUp"} \/ thread[s] # "none"
    <3>1. ASSUME NEW t, Join(t), app' \notin {"spawn", "awaitUp"} PROVE thread[s] # "none"
      BY <1>0, <3>1 DEF Join
    <3>2. CASE ShutdownJoins \/ ReadFinalJoins
      BY <3>1, <3>2 DEF ShutdownJoins, ReadFinalJoins, callVars
    <3>3. CASE CreateThread
      BY <3>3 DEF CreateThread
    <3>4. ASSUME NEW t \in Streams, Thread(t) PROVE app \in {"spawn", "awaitUp"} \/ thread[s] # "none"
      <4>1. /\ thread[t] # "none" /\ UNCHANGED app
            /\ \E to : thread' = [thread EXCEPT ![t] = to]
        BY <3>4 DEF Thread, ThreadStarts, ThreadAcked, ThreadLoops, ThreadReads, ThreadAppends,
                  ThreadHasRoom, ThreadLeaves, callVars, Goes
      <4> QED BY <1>0, <4>1
    <3>5. CASE UNCHANGED thread /\ (UNCHANGED app \/ app' \notin {"spawn", "awaitUp"}
                                    \/ app = "awaitUp" \/ app = "spawn")
      BY <3>5
    <3>6. CASE PipeFails
      BY <3>5, <3>6 DEF PipeFails, threadVars
    <3> QED BY <1>3, <3>2, <3>3, <3>4, <3>5, <3>6
      DEF Next, InCall, Calls, Child, ThreadIsUp, LaunchReturns,
          WriteSome, WriteFails, Shutdown, Wait, CloseStdIOThreads, Read, ReadFinal, WriteStdIn,
          RequestShutdown, ChildWrites, ChildCalls, ChildReads, ChildExits, vars, callVars, threadVars
  <2>3. R(s) \in ends /\ R(s) # W("in")
    BY <1>0, <2>2 DEF EndsInv, R, W
  <2> QED BY <2>1, <2>3 DEF R
<1> QED BY <1>1, <1>2, <1>3

(* The limit of the buffers is a number, at least one read over the limit of *)
(* the code once there is a child, and moves with the launches only.         *)
Limit == MaxBuf + Chunk * Launches
LEMMA LimitMeans ==
  ASSUME IInv
  PROVE  Limit \in Nat /\ (pid \in Kids => MaxBuf + Chunk <= Limit)
<1>1. /\ Chunk \in Nat \ {0} /\ MaxBuf \in Nat /\ Launches \in Nat
      /\ pid \in Kids => pid \in 1 .. Launches
  BY ProcessAssumption DEF IInv, KidsInv, Launched
<1>2. Chunk * Launches \in Nat
  BY <1>1
<1>3. ASSUME pid \in Kids PROVE Chunk <= Chunk * Launches
  <2>1. PICK m \in Nat : Launches = m + 1
    <3>1. Launches - 1 \in Nat /\ Launches = (Launches - 1) + 1
      BY <1>1, <1>3
    <3> QED BY <3>1
  <2>2. Chunk * (m + 1) = Chunk * m + Chunk /\ Chunk * m \in Nat
    BY <1>1, <2>1
  <2> QED BY <1>1, <2>1, <2>2
<1> QED BY <1>1, <1>2, <1>3 DEF Limit

(* The bound of the buffers is kept.                                         *)
LEMMA BoundStep == IInv /\ [Next]_vars => BoundInv'
<1> SUFFICES ASSUME IInv, [Next]_vars PROVE BoundInv'
  OBVIOUS
<1> DEFINE Bounded(s) ==
      /\ buf[s] + hand[s] <= Limit
      /\ pid \notin Kids => pipe[s] = 0
      /\ pid \in Kids /\ WillRead(s) => buf[s] + Chunk <= Limit
<1>0. /\ buf \in [Streams -> Nat] /\ hand \in [Streams -> 0 .. Chunk]
      /\ pipe \in [Pipes -> 0 .. PipeSize] /\ PipeSize \in Nat
      /\ thread \in [Streams -> ThreadStates] /\ shouldRun \in BOOLEAN
      /\ Chunk \in Nat \ {0} /\ MaxBuf \in Nat /\ Limit \in Nat
      /\ Streams \subseteq Pipes /\ "in" \notin Streams
      /\ pid \in Kids => MaxBuf + Chunk <= Limit
  BY ProcessAssumption, StreamsArePipes, LimitMeans DEF IInv, TypeInv, TypeOK
<1>1. /\ \A s \in Streams : Bounded(s) /\ (hand[s] > 0 => thread[s] = "append")
      /\ app \in {"shutdown", "fork"} => ~shouldRun
      /\ app = "fork" => \A s \in Streams : thread[s] = "none"
  BY DEF IInv, BoundInv, ThreadInv, Limit
<1>2. SUFFICES \A s \in Streams : Bounded(s)'
  BY DEF BoundInv, Limit
<1>3. CASE Fork
  <2>1. /\ pipe' = [s \in Pipes |-> 0] /\ UNCHANGED <<buf, hand, thread>>
        /\ \A s \in Streams : thread[s] = "none" /\ hand[s] = 0
    BY <1>0, <1>1, <1>3 DEF Fork, threadVars
  <2>2. Limit' = Limit + Chunk \/ (pid' \notin Kids /\ Limit' = Limit)
    <3>1. Launches \in Nat /\ (Launches' = Launches + 1 \/ (pid' \notin Kids /\ Launches' = Launches))
      BY <1>3, ForkCounts DEF IInv, KidsInv
    <3>2. Chunk * (Launches + 1) = Chunk * Launches + Chunk
      BY <1>0, <3>1
    <3>3. Chunk * Launches \in Nat
      BY <1>0, <3>1
    <3> QED BY <1>0, <3>1, <3>2, <3>3 DEF Limit
  <2> QED BY <1>0, <1>1, <2>1, <2>2 DEF Limit
<1>4. CASE ~Fork
  <2>1. Limit' = Limit /\ pid' = pid
    BY <1>4, KidKept DEF Limit
  <2>2. ASSUME NEW s \in Streams, ThreadReads(s) PROVE \A t \in Streams : Bounded(t)'
    <3>1. UNCHANGED <<buf, shouldRun>> /\ thread[s] = "read" /\ hand[s] = 0
      BY <1>0, <1>1, <2>2 DEF ThreadReads, flagVars
    <3>2. CASE /\ EndOfFile(s) /\ thread' = [thread EXCEPT ![s] = "leave"] /\ UNCHANGED <<pipe, hand>>
      BY <1>0, <1>1, <2>1, <3>1, <3>2 DEF WillRead
    <3>3. ASSUME NEW k \in 1 .. ReadLimit(s), pipe' = [pipe EXCEPT ![s] = pipe[s] - k],
                 hand' = [hand EXCEPT ![s] = k], thread' = [thread EXCEPT ![s] = "append"]
          PROVE  \A t \in Streams : Bounded(t)'
      <4>1. pipe[s] \in 0 .. PipeSize
        BY <1>0
      <4>2. k \in Nat /\ k <= Chunk /\ 1 <= k /\ k <= pipe[s]
        BY <1>0, <4>1 DEF ReadLimit, Least
      <4>3. pid \in Kids
        BY <1>1, <4>1, <4>2
      <4>4. buf[s] + k <= Limit
        BY <1>0, <1>1, <3>1, <4>2, <4>3 DEF WillRead
      <4> QED BY <1>0, <1>1, <2>1, <3>1, <3>3, <4>3, <4>4 DEF WillRead
    <3> QED BY <2>2, <3>2, <3>3 DEF ThreadReads, Goes
  <2>3. ASSUME NEW s \in Streams, ThreadAppends(s) PROVE \A t \in Streams : Bounded(t)'
    <3>1. /\ buf' = [buf EXCEPT ![s] = buf[s] + hand[s]] /\ hand' = [hand EXCEPT ![s] = 0]
          /\ thread' = [thread EXCEPT ![s] = IF Full(buf'[s]) THEN "full" ELSE "loop"]
          /\ UNCHANGED <<shouldRun, pipe>>
      BY <2>3 DEF ThreadAppends, Goes, flagVars
    <3>2. Bounded(s)'
      BY <1>0, <1>1, <2>1, <3>1 DEF WillRead, Full
    <3>3. ASSUME NEW t \in Streams \ {s} PROVE Bounded(t)'
      BY <1>0, <1>1, <2>1, <3>1 DEF WillRead
    <3> QED BY <3>2, <3>3
  <2>4. ASSUME NEW s \in Streams, ThreadHasRoom(s) PROVE \A t \in Streams : Bounded(t)'
    BY <1>0, <1>1, <2>1, <2>4 DEF WillRead, ThreadHasRoom, Goes, Full, flagVars
  <2>5. ASSUME NEW s \in Streams,
               ThreadStarts(s) \/ ThreadAcked(s) \/ ThreadLoops(s) \/ ThreadLeaves(s)
        PROVE  \A t \in Streams : Bounded(t)'
    BY <1>0, <1>1, <2>1, <2>5 DEF WillRead, ThreadStarts, ThreadAcked, ThreadLoops, ThreadLeaves,
                                  Goes, flagVars
  <2>6. ASSUME NEW s \in Streams, ChildWrites(s) PROVE \A t \in Streams : Bounded(t)'
    BY <1>0, <1>1, <2>1, <2>6 DEF WillRead, ChildWrites, Alive, threadVars, flagVars
  <2>7. ASSUME UNCHANGED <<buf, hand, thread>>, shouldRun' => shouldRun,
               \A t \in Streams : pipe'[t] = pipe[t] \/ pipe'[t] = 0
        PROVE  \A t \in Streams : Bounded(t)'
    BY <1>0, <1>1, <2>1, <2>7 DEF WillRead
  <2>8. ASSUME NEW s \in Streams, Read(s) \/ ReadFinal(s) PROVE \A t \in Streams : Bounded(t)'
    <3>1. /\ buf' = [buf EXCEPT ![s] = 0] \/ UNCHANGED buf
          /\ UNCHANGED <<hand, thread, shouldRun, pipe>>
      BY <2>8 DEF Read, ReadFinal, flagVars
    <3> QED BY <1>0, <1>1, <2>1, <3>1 DEF WillRead
  <2>9. CASE ReadFinalJoins
    BY <1>0, <1>1, <2>1, <2>9 DEF WillRead, ReadFinalJoins, Join
  <2>10. CASE ShutdownJoins
    <3>1. ~shouldRun' /\ UNCHANGED <<buf, hand, pipe>>
      BY <1>1, <2>10 DEF ShutdownJoins
    <3>2. \A t \in Streams : thread'[t] = thread[t] \/ thread'[t] = "none"
      BY <1>0, <2>10 DEF ShutdownJoins, Join
    <3> QED BY <1>0, <1>1, <2>1, <3>1, <3>2 DEF WillRead
  <2>11. CASE CreateThread
    <3>1. /\ UNCHANGED <<buf, hand, pipe, shouldRun>>
          /\ \A t \in Streams : thread'[t] = thread[t] \/ (thread'[t] = "start" /\ thread[t] = "none")
      <4>1. on' \in Streams \ ToJoin
        <5>1. Streams \ ToJoin \in SUBSET Streams
          OBVIOUS
        <5> QED BY <2>11, <5>1, FirstMeans DEF CreateThread
      <4>2. thread[on'] = "none"
        BY <4>1 DEF ToJoin, IInv, ThreadInv
      <4> QED BY <1>0, <2>11, <4>1, <4>2 DEF CreateThread
    <3> QED BY <1>0, <1>1, <2>1, <3>1 DEF WillRead
  <2>12. CASE WriteSome \/ ChildReads
    BY <1>0, <2>7, <2>12 DEF WriteSome, ChildReads, kidVars, flagVars, threadVars
  <2>13. CASE ShutdownEnds
    BY <1>0, <2>7, <2>13 DEF ShutdownEnds, flagVars, threadVars
  <2>14. CASE PipeFails
    BY <2>7, <2>14 DEF PipeFails, flagVars, threadVars
  <2>15. CASE \/ ThreadIsUp \/ LaunchReturns \/ WriteFails \/ Shutdown("fork") \/ Shutdown("gone")
              \/ Wait \/ CloseStdIOThreads \/ (\E n \in Input : WriteStdIn(n))
              \/ ChildCalls \/ ChildExits \/ UNCHANGED vars
    <3>1. UNCHANGED <<buf, hand, thread, pipe>>
      BY <2>15 DEF ThreadIsUp, LaunchReturns, WriteFails, Shutdown, Wait, CloseStdIOThreads,
                   WriteStdIn, ChildCalls, ChildExits, vars, threadVars
    <3>2. shouldRun' => shouldRun
      BY <2>15 DEF ThreadIsUp, LaunchReturns, WriteFails, Shutdown, Wait, CloseStdIOThreads,
                   WriteStdIn, ChildCalls, ChildExits, vars, flagVars
    <3> QED BY <2>7, <3>1, <3>2
  <2>16. ASSUME NEW nice \in BOOLEAN, RequestShutdown(nice) PROVE \A t \in Streams : Bounded(t)'
    BY <2>7, <2>16 DEF RequestShutdown, threadVars
  <2> QED BY <1>4, <2>2, <2>3, <2>4, <2>5, <2>6, <2>8, <2>9, <2>10, <2>11, <2>12, <2>13, <2>14, <2>15,
          <2>16 DEF Next, InCall, Calls, Thread, Child
<1> QED BY <1>3, <1>4

(* What a final read returns is complete.                                    *)
LEMMA FinalStep == IInv /\ [Next]_vars => FinalInv'
<1> SUFFICES ASSUME IInv, [Next]_vars PROVE FinalInv'
  OBVIOUS
<1> DEFINE Left(s) == shouldRun /\ thread[s] \in {"leave", "ended"} => Drained(s)
           Joined(s) == shouldRun /\ app \in {"idle", "final", "write"} /\ thread[s] = "none"
                          => Drained(s)
           Taken == app = "idle" /\ last.call = "Final" /\ shouldRun
                      => thread[last.s] = "none" /\ buf[last.s] = 0
<1>0. /\ buf \in [Streams -> Nat] /\ hand \in [Streams -> 0 .. Chunk]
      /\ pipe \in [Pipes -> 0 .. PipeSize] /\ PipeSize \in Nat
      /\ thread \in [Streams -> ThreadStates] /\ shouldRun \in BOOLEAN
      /\ needsJoin \in [Streams -> BOOLEAN]
      /\ Chunk \in Nat \ {0} /\ Streams \subseteq Pipes /\ "in" \notin Streams
      /\ app = "final" => on \in Streams
      /\ last.call = "Final" => last.s \in Streams
  BY ProcessAssumption, StreamsArePipes DEF IInv, TypeInv, TypeOK
<1>1. /\ \A s \in Streams : Left(s) /\ Joined(s) /\ (needsJoin[s] <=> thread[s] # "none")
      /\ Taken
      /\ app \in {"shutdown", "fork"} => ~shouldRun
      /\ app = "fork" => \A s \in Streams : thread[s] = "none"
  BY DEF IInv, FinalInv, ThreadInv
<1>2. SUFFICES (\A s \in Streams : Left(s)' /\ Joined(s)') /\ Taken'
  BY DEF FinalInv
<1>3. CASE Fork
  BY <1>0, <1>1, <1>3 DEF Fork, threadVars
<1>4. CASE ~Fork
  <2>1. Alive' => Alive
    BY <1>4, KidKept
  <2>2. CASE ~shouldRun'
    BY <2>2
  <2>3. ASSUME NEW s \in Streams, Thread(s)
        PROVE  (\A t \in Streams : Left(t)' /\ Joined(t)') /\ Taken'
    <3>1. UNCHANGED <<app, last, shouldRun>> /\ thread[s] # "none"
      BY <2>3 DEF Thread, ThreadStarts, ThreadAcked, ThreadLoops, ThreadReads, ThreadAppends,
                  ThreadHasRoom, ThreadLeaves, callVars, flagVars
    <3>2. PICK to : thread' = [thread EXCEPT ![s] = to] /\ to # "none"
      BY <2>3 DEF Thread, ThreadStarts, ThreadAcked, ThreadLoops, ThreadReads, ThreadAppends,
                  ThreadHasRoom, ThreadLeaves, Goes
    <3>3. shouldRun /\ to \in {"leave", "ended"} => Drained(s)' /\ UNCHANGED pipe
      BY <1>0, <1>1, <2>1, <2>3, <3>2
         DEF Thread, ThreadStarts, ThreadAcked, ThreadLoops, ThreadReads, ThreadAppends,
             ThreadHasRoom, ThreadLeaves, Goes, Drained, EndOfFile
    <3>4. \A t \in Streams : Drained(t) => Drained(t)'
      <4>1. CASE UNCHANGED pipe
        BY <2>1, <4>1 DEF Drained
      <4>2. CASE ThreadReads(s)
        <5>1. ASSUME NEW k \in 1 .. ReadLimit(s), pipe' = [pipe EXCEPT ![s] = pipe[s] - k]
              PROVE  pipe[s] # 0
          BY <1>0, <5>1 DEF ReadLimit, Least
        <5>2. \A t \in Streams : pipe[t] = 0 => pipe'[t] = 0
          BY <1>0, <4>2, <5>1 DEF ThreadReads
        <5> QED BY <2>1, <5>2 DEF Drained
      <4> QED BY <2>3, <4>1, <4>2 DEF Thread, ThreadStarts, ThreadAcked, ThreadLoops,
                  ThreadAppends, ThreadHasRoom, ThreadLeaves
    <3>5. \A t \in Streams \ {s} : buf'[t] = buf[t]
      BY <1>0, <2>3 DEF Thread, ThreadStarts, ThreadAcked, ThreadLoops, ThreadReads,
                        ThreadAppends, ThreadHasRoom, ThreadLeaves
    <3>6. Taken'
      BY <1>0, <1>1, <3>1, <3>2, <3>5
    <3> QED BY <1>0, <1>1, <3>1, <3>2, <3>3, <3>4, <3>6
  <2>4. ASSUME NEW s \in Streams, ChildWrites(s)
        PROVE  (\A t \in Streams : Left(t)' /\ Joined(t)') /\ Taken'
    <3>1. Alive /\ UNCHANGED <<app, last, shouldRun, thread, buf>>
      BY <2>4 DEF ChildWrites, callVars, flagVars, threadVars
    <3> QED BY <1>1, <3>1 DEF Drained
  <2>5. ASSUME \A s \in Streams : pipe'[s] = pipe[s], UNCHANGED <<shouldRun, thread>>,
               app' \in {"idle", "final", "write"} => app \in {"idle", "final", "write"}
        PROVE  \A t \in Streams : Left(t)' /\ Joined(t)'
    BY <1>1, <2>1, <2>5 DEF Drained
  <2>6. ASSUME NEW s \in Streams, Read(s)
        PROVE  (\A t \in Streams : Left(t)' /\ Joined(t)') /\ Taken'
    <3>1. last'.call # "Final" /\ UNCHANGED <<pipe, shouldRun, thread, app>>
      BY <2>6 DEF Read, Returns, flagVars
    <3> QED BY <2>5, <3>1
  <2>7. ASSUME NEW s \in Streams, ReadFinal(s)
        PROVE  (\A t \in Streams : Left(t)' /\ Joined(t)') /\ Taken'
    <3>1. UNCHANGED <<pipe, shouldRun, thread>> /\ app = "idle"
      BY <2>7 DEF ReadFinal, flagVars
    <3>2. Taken'
      <4>1. CASE JoinsFirst(s)
        BY <2>7, <4>1 DEF ReadFinal
      <4>2. CASE ~JoinsFirst(s)
        <5>1. buf' = [buf EXCEPT ![s] = 0] /\ Returns("Final", s, TRUE)
          BY <2>7, <4>2 DEF ReadFinal
        <5>2. last'.s = s /\ buf'[s] = 0 /\ thread[s] = "none"
          BY <1>0, <1>1, <4>2, <5>1 DEF JoinsFirst, Returns
        <5> QED BY <3>1, <5>2
      <4> QED BY <4>1, <4>2
    <3> QED BY <2>5, <3>1, <3>2
  <2>8. CASE ReadFinalJoins
    <3>1. /\ UNCHANGED <<pipe, shouldRun>> /\ app = "final" /\ app' = "idle"
          /\ thread[on] = "ended" /\ thread' = [thread EXCEPT ![on] = "none"]
          /\ buf' = [buf EXCEPT ![on] = 0] /\ Returns("Final", on, TRUE)
      BY <2>8 DEF ReadFinalJoins, Join
    <3>2. last'.s = on /\ buf'[on] = 0 /\ thread'[on] = "none"
      BY <1>0, <3>1 DEF Returns
    <3>3. \A t \in Streams : Drained(t) => Drained(t)'
      BY <2>1, <3>1 DEF Drained
    <3> QED BY <1>0, <1>1, <3>1, <3>2, <3>3
  <2>9. CASE ShutdownJoins
    BY <1>1, <2>2, <2>9 DEF ShutdownJoins
  <2>10. CASE ShutdownEnds
    BY <1>1, <2>2, <2>10 DEF ShutdownEnds, flagVars
  <2>11. CASE PipeFails
    BY <1>1, <2>2, <2>11 DEF PipeFails, flagVars
  <2>12. CASE CreateThread
    <3>1. app' = "awaitUp" /\ UNCHANGED <<pipe, shouldRun>>
          /\ \A t \in Streams : thread'[t] = thread[t] \/ thread'[t] = "start"
      BY <1>0, <2>12 DEF CreateThread
    <3>2. \A t \in Streams : Drained(t) => Drained(t)'
      BY <2>1, <3>1 DEF Drained
    <3> QED BY <1>1, <3>1, <3>2
  <2>13. CASE LaunchReturns
    <3>1. /\ app' = "idle" /\ UNCHANGED <<pipe, shouldRun, thread>> /\ last'.call # "Final"
          /\ \A t \in Streams : thread[t] # "none"
      BY <1>1, <2>13 DEF LaunchReturns, ToJoin, Returns, threadVars
    <3>2. \A t \in Streams : Drained(t) => Drained(t)'
      BY <2>1, <3>1 DEF Drained
    <3> QED BY <1>1, <3>1, <3>2
  <2>14. CASE ThreadIsUp
    BY <1>1, <2>5, <2>14 DEF ThreadIsUp, flagVars, threadVars
  <2>15. CASE WriteSome
    <3>1. /\ app = "write" /\ UNCHANGED <<shouldRun, thread>>
          /\ \A t \in Streams : pipe'[t] = pipe[t]
      BY <1>0, <2>15 DEF WriteSome, flagVars, threadVars
    <3>2. app' = "idle" => last'.call # "Final"
      BY <2>15 DEF WriteSome, Returns
    <3> QED BY <2>5, <3>1, <3>2
  <2>16. CASE WriteFails
    BY <2>5, <2>16 DEF WriteFails, Returns, flagVars, threadVars
  <2>17. CASE Shutdown("fork") \/ Shutdown("gone") \/ CloseStdIOThreads
    BY <2>2, <2>17 DEF Shutdown, CloseStdIOThreads
  <2>18. CASE Wait
    <3>1. UNCHANGED <<app, pipe, shouldRun, thread>>
      BY <2>18 DEF Wait, threadVars
    <3>2. PICK res \in BOOLEAN : Returns("Wait", on, res)
      BY <2>18 DEF Wait
    <3>3. last'.call = "Wait"
      BY <3>2 DEF Returns
    <3> QED BY <2>5, <3>1, <3>3
  <2>19. ASSUME NEW n \in Input, WriteStdIn(n)
         PROVE  (\A t \in Streams : Left(t)' /\ Joined(t)') /\ Taken'
    BY <2>5, <2>19 DEF WriteStdIn, flagVars, threadVars
  <2>20. ASSUME NEW nice \in BOOLEAN, RequestShutdown(nice)
         PROVE  (\A t \in Streams : Left(t)' /\ Joined(t)') /\ Taken'
    <3>1. UNCHANGED <<app, pipe, shouldRun, thread>> /\ last'.call # "Final"
      BY <2>20 DEF RequestShutdown, Returns, threadVars
    <3> QED BY <2>5, <3>1
  <2>21. CASE ChildReads
    <3>1. /\ UNCHANGED <<app, last, buf, shouldRun, thread>>
          /\ \A t \in Streams : pipe'[t] = pipe[t]
      BY <1>0, <2>21 DEF ChildReads, callVars, flagVars, threadVars
    <3> QED BY <1>1, <2>5, <3>1
  <2>22. CASE ChildCalls \/ ChildExits \/ UNCHANGED vars
    <3>1. UNCHANGED <<app, last, buf, shouldRun, thread, pipe>>
      BY <2>22 DEF ChildCalls, ChildExits, vars, callVars, flagVars, threadVars
    <3> QED BY <1>1, <2>5, <3>1
  <2> QED BY <1>4, <2>3, <2>4, <2>6, <2>7, <2>8, <2>9, <2>10, <2>11, <2>12, <2>13, <2>14, <2>15,
             <2>16, <2>17, <2>18, <2>19, <2>20, <2>21, <2>22 DEF Next, InCall, Calls, Child
<1> QED BY <1>3, <1>4

(* The invariant holds of a new object.                                      *)
LEMMA InitInv == Init => IInv
<1> SUFFICES ASSUME Init PROVE IInv
  OBVIOUS
<1>0. /\ Streams \subseteq {"out", "err"} /\ Streams \subseteq Pipes /\ "in" \notin Streams
      /\ Chunk \in Nat \ {0} /\ PipeSize \in Nat \ {0} /\ MaxBuf \in Nat /\ MaxLaunches \in Nat
  BY StreamsArePipes, ProcessAssumption
<1>1. Launched = {} /\ Launches = 0
  <2>1. Launched = {}
    BY DEF Init, Launched
  <2> QED BY <2>1, FS_EmptySet DEF Launched, Launches
<1>2. TypeInv
  <2>1. /\ last \in CallType /\ last.res \in BOOLEAN /\ last.call = "GetInstance"
        /\ app = "idle"
    BY DEF Init, CallType, CallNames
  <2>2. /\ kid \in [Kids -> {"none", "alive", "zombie", "reaped"}] /\ pid \in Kids \cup {0, None}
        /\ todo \in [Streams -> Nat] /\ pipe \in [Pipes -> 0 .. PipeSize]
        /\ busy \in Pipes \cup {"none"}
        /\ ends \subseteq Pipes \X {"r", "w"} /\ buf \in [Streams -> Nat]
        /\ hand \in [Streams -> 0 .. Chunk]
    BY <1>0 DEF Init
  <2>3. /\ up \in [Streams -> BOOLEAN] /\ needsJoin \in [Streams -> BOOLEAN]
        /\ thread \in [Streams -> ThreadStates]
    BY DEF Init, ThreadStates
  <2>4. /\ then \in {"fork", "gone"} /\ on \in {"out", "err"} /\ left \in Nat
        /\ running \in BOOLEAN /\ shouldRun \in BOOLEAN /\ ack \in BOOLEAN
    BY DEF Init
  <2> QED BY <2>1, <2>2, <2>3, <2>4 DEF TypeInv, TypeOK, AppStates
<1>3. KidsInv
  BY <1>0, <1>1 DEF Init, KidsInv, Kids
<1>4. ThreadInv /\ EndsInv
  BY <1>0 DEF Init, ThreadInv, EndsInv, UpStates
<1>5. BoundInv
  BY <1>0, <1>1 DEF Init, BoundInv, WillRead, Kids
<1>6. FinalInv
  BY <1>0 DEF Init, FinalInv
<1> QED BY <1>2, <1>3, <1>4, <1>5, <1>6 DEF IInv

(* ... and of every state.                                                   *)
LEMMA Invariance == Spec => []IInv
<1>1. IInv /\ [Next]_vars => IInv'
  BY TypeStep, KidsStep, ThreadStep, EndsStep, BoundStep, FinalStep DEF IInv
<1> QED BY <1>1, InitInv, PTL DEF Spec

-----------------------------------------------------------------------------
(* The state of the object, its threads and its pipes keeps its types.       *)
THEOREM TypeCorrect == Spec => []TypeOK
<1>1. IInv => TypeOK
  BY DEF IInv, TypeInv
<1> QED BY <1>1, Invariance, PTL

(* The reader threads are never lost sight of: the flags by which Shutdown   *)
(* and a final read decide whom to join tell the truth in every state.       *)
THEOREM ThreadsAreAccountedFor == Spec => []ThreadsAccountedFor
<1>1. IInv => ThreadsAccountedFor
  BY DEF IInv, TypeInv, TypeOK, ThreadInv, ThreadsAccountedFor, UpStates
<1> QED BY <1>1, Invariance, PTL

(* A reader thread reads an open descriptor, whatever is launched, shut down *)
(* or fails around it.                                                       *)
THEOREM ThreadsReadOpenEnds == Spec => []ReadsOpenEnd
<1>1. IInv => ReadsOpenEnd
  BY DEF IInv, EndsInv, ReadsOpenEnd
<1> QED BY <1>1, Invariance, PTL

(* The destructor leaves no thread that uses the object.                     *)
THEOREM ObjectOutlivesItsThreads == Spec => []ObjectOutlivesThreads
<1>1. IInv => ObjectOutlivesThreads
  BY DEF IInv, ThreadInv, ObjectOutlivesThreads
<1> QED BY <1>1, Invariance, PTL

(* The buffers stay within one read of the limit for each launch.            *)
THEOREM BuffersAreBounded == Spec => []BufferBounded
<1>1. IInv => BufferBounded
  BY DEF IInv, BoundInv, BufferBounded
<1> QED BY <1>1, Invariance, PTL

(* A final read returns all the child wrote, unless the threads were told to *)
(* stop.                                                                     *)
THEOREM FinalReadsAreComplete == Spec => []FinalReadComplete
<1>1. ASSUME IInv PROVE FinalReadComplete
  <2> SUFFICES ASSUME app = "idle", last.call = "Final", shouldRun
               PROVE  LeftBehind(last.s) = 0
    BY DEF FinalReadComplete
  <2>1. last.s \in Streams /\ hand[last.s] \in 0 .. Chunk
    BY <1>1 DEF IInv, TypeInv, TypeOK
  <2>2. thread[last.s] = "none" /\ buf[last.s] = 0 /\ pipe[last.s] = 0
    BY <1>1, <2>1 DEF IInv, FinalInv, Drained
  <2>3. hand[last.s] = 0
    <3>1. ~(hand[last.s] > 0)
      BY <1>1, <2>1, <2>2 DEF IInv, ThreadInv
    <3> QED BY <2>1, <3>1, ProcessAssumption
  <2> QED BY <2>2, <2>3 DEF LeftBehind
<1> QED BY <1>1, Invariance, PTL
=============================================================================
