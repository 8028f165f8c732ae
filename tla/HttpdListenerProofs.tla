------------------------- MODULE HttpdListenerProofs -------------------------
(***************************************************************************)
(* Proofs about HttpdListener, for any number of connections and any set   *)
(* of thread ids.                                                          *)
(***************************************************************************)
EXTENDS HttpdListener, TLAPS

(* The local variables of ListenerThread are in use between the step that    *)
(* fills them and the step that hands their contents on.                     *)
LocalsInv ==
  /\ conn # None <=> pc \in {"create", "insert"}
  /\ newTid # None <=> pc \in {"insert", "reap", "awaitJoin"}

(* No two entries of mapThreads, nor an entry and the local storage, hold    *)
(* the same connection.                                                      *)
DistinctInv ==
  /\ \A s, t \in Tids : map[s] # None /\ map[s] = map[t] => s = t
  /\ \A t \in Tids : conn # None => map[t] # conn

(* A thread works for the connection under its id in the map, or, until      *)
(* Insert, for the one in the local variable.                                *)
OwnedInv ==
  \A t \in Tids : thread[t] # "free" =>
    /\ job[t] # None
    /\ IF pc = "insert" /\ newTid = t THEN job[t] = conn /\ map[t] = None
                                      ELSE job[t] = map[t]

(* A storage object is alive exactly while the listener thread holds it.     *)
HeldInv ==
  \A c \in Conns :
    comm[c].memory = "live" <=> (c = conn \/ \E t \in Tids : map[t] = c)

(* Until the final loop joins them, all entries have a thread.               *)
EntriesInv ==
  /\ pc \notin {"await", "awaitJoin", "returning", "returned"} =>
       \A t \in Tids : map[t] # None => thread[t] # "free"
  /\ pc = "insert" => thread[newTid] # "free"

ScanInv ==
  /\ pc \in {"scan", "signal"} => scan \subseteq Entries
  /\ pc \in {"await", "awaitJoin"} =>
       \A t \in Tids : t \in scan <=> thread[t] # "free"
  /\ pc = "reap" => newTid \in Entries
  /\ pc = "awaitJoin" => newTid \in scan

QuitInv ==
  /\ listenQuit <=> pc \in {"returning", "returned"}
  /\ listenQuit => \A t \in Tids : thread[t] = "free"
  /\ pc = "returned" => \A t \in Tids : map[t] = None
  /\ owner \in {"joining", "gone"} => listenQuit
  /\ owner = "gone" => pc = "returned"

IInv == /\ TypeOK /\ LocalsInv /\ DistinctInv /\ OwnedInv /\ HeldInv
        /\ EntriesInv /\ ScanInv /\ QuitInv

-----------------------------------------------------------------------------

(* Setting a flag of a comm block leaves it a storage object.                *)
LEMMA FlagsKeepType ==
  ASSUME NEW s \in Storage
  PROVE  /\ [s EXCEPT !.parentQuit = TRUE] \in Storage
         /\ [s EXCEPT !.childQuit = TRUE] \in Storage
  BY DEF Storage

(* The empty server satisfies the inductive invariant.                       *)
LEMMA InitIInv == Init => IInv
<1> SUFFICES ASSUME Init PROVE IInv
  OBVIOUS
<1> USE ListenerAssumption DEF Init, Entries, ThreadStates, Storage, Pcs
<1>1. TypeOK
  BY DEF TypeOK
<1>2. LocalsInv /\ DistinctInv /\ OwnedInv
  BY DEF LocalsInv, DistinctInv, OwnedInv
<1>3. HeldInv
  BY DEF HeldInv
<1>4. EntriesInv /\ ScanInv /\ QuitInv
  BY DEF EntriesInv, ScanInv, QuitInv
<1>5. QED
  BY <1>1, <1>2, <1>3, <1>4 DEF IInv

(* Every step of the owner, of the listener thread and of a child keeps it.  *)
LEMMA NextIInv == IInv /\ [Next]_vars => IInv'
<1> SUFFICES ASSUME IInv, [Next]_vars PROVE IInv'
  OBVIOUS
<1> USE ListenerAssumption DEF IInv, TypeOK, LocalsInv, DistinctInv, OwnedInv, HeldInv,
         EntriesInv, ScanInv, QuitInv, Entries, ThreadStates, Storage, Pcs
<1>1. CASE OwnerQuits
  BY <1>1 DEF OwnerQuits, listenerVars
<1>2. CASE OwnerSeesQuit
  BY <1>2 DEF OwnerSeesQuit, listenerVars
<1>3. CASE OwnerJoins
  BY <1>3 DEF OwnerJoins, listenerVars
<1>4. CASE CheckQuit
  BY <1>4 DEF CheckQuit, listenerVars
<1>5. CASE Accept
  BY <1>5 DEF Accept, listenerVars
<1>6. CASE CreateThread
  BY <1>6 DEF CreateThread, listenerVars
<1>7. CASE CreateFails
  BY <1>7 DEF CreateFails, listenerVars, Free
<1>8. CASE Insert
  BY <1>8 DEF Insert, listenerVars
<1>9. CASE ScanEnds
  BY <1>9 DEF ScanEnds, listenerVars
<1>10. CASE Reap
  BY <1>10 DEF Reap, Erased, listenerVars, Join, Free
<1>11. CASE SignalEnds
  BY <1>11 DEF SignalEnds, ToAwait, listenerVars
<1>12. CASE AwaitJoin
  BY <1>12 DEF AwaitJoin, listenerVars, Join
<1>13. CASE TellOwner
  BY <1>13 DEF TellOwner, listenerVars
<1>14. CASE Return
  BY <1>14 DEF Return, listenerVars
<1>15. ASSUME NEW t \in Tids, Scan(t) PROVE IInv'
  BY <1>15 DEF Scan, listenerVars
<1>16. ASSUME NEW t \in Tids, Signal(t) PROVE IInv'
  <2>1. map[t] \in Conns
    BY <1>16 DEF Signal, Asked
  <2>2. comm' \in [Conns -> Storage]
    <3>1. comm[map[t]] \in Storage
      BY <2>1
    <3>2. [comm[map[t]] EXCEPT !.parentQuit = TRUE] \in Storage
      BY <3>1, FlagsKeepType, Zenon
    <3>3. QED
      BY <1>16, <2>1, <3>2, Zenon DEF Signal, Asked
  <2>3. \A c \in Conns : comm'[c].memory = comm[c].memory
    BY <1>16, <2>1 DEF Signal, Asked
  <2>4. QED
    BY <1>16, <2>1, <2>2, <2>3 DEF Signal, Asked, listenerVars
<1>17. ASSUME NEW t \in Tids, AwaitFlag(t) PROVE IInv'
  BY <1>17 DEF AwaitFlag, listenerVars
<1>18. ASSUME NEW t \in Tids, CallbackReturns(t) PROVE IInv'
  BY <1>18 DEF CallbackReturns, listenerVars
<1>19. ASSUME NEW t \in Tids, SetFlag(t) PROVE IInv'
  <2>1. job[t] \in Conns
    BY <1>19 DEF SetFlag
  <2>2. comm' \in [Conns -> Storage]
    <3>1. comm[job[t]] \in Storage
      BY <2>1
    <3>2. [comm[job[t]] EXCEPT !.childQuit = TRUE] \in Storage
      BY <3>1, FlagsKeepType, Zenon
    <3>3. QED
      BY <1>19, <2>1, <3>2, Zenon DEF SetFlag
  <2>3. \A c \in Conns : comm'[c].memory = comm[c].memory
    BY <1>19, <2>1 DEF SetFlag
  <2>4. QED
    BY <1>19, <2>1, <2>2, <2>3 DEF SetFlag, listenerVars
<1>20. ASSUME NEW t \in Tids, ThreadEnds(t) PROVE IInv'
  BY <1>20 DEF ThreadEnds, listenerVars
<1>21. CASE UNCHANGED vars
  BY <1>21 DEF vars, listenerVars
<1>22. QED
  BY <1>1, <1>2, <1>3, <1>4, <1>5, <1>6, <1>7, <1>8, <1>9, <1>10, <1>11, <1>12, <1>13, <1>14, <1>15, <1>16, <1>17, <1>18, <1>19, <1>20, <1>21 DEF Next, Owner, Listener, Child

(* The inductive invariant holds in every state.                             *)
THEOREM Invariance == Spec => []IInv
<1>1. IInv /\ [Next]_vars => IInv'
  BY NextIInv
<1>2. QED
  BY InitIInv, <1>1, PTL DEF Spec

(* Every variable keeps its type, for any set of connections and thread ids. *)
THEOREM TypeCorrect == Spec => []TypeOK
<1>1. IInv => TypeOK
  BY DEF IInv
<1>2. QED
  BY Invariance, <1>1, PTL

(* No child thread ever touches storage that has been released: a storage    *)
(* object is held by the map or the local variable while its thread exists,  *)
(* and what is held is alive.                                                *)
THEOREM StorageOutlivesThread == Spec => []NoUseAfterFree
<1>1. IInv => NoUseAfterFree
  <2> SUFFICES ASSUME IInv, NEW t \in Tids, UsesStorage(t)
               PROVE  comm[job[t]].memory = "live"
    BY DEF NoUseAfterFree
  <2>1. thread[t] # "free" /\ job[t] # None /\ job[t] \in Conns
    BY DEF UsesStorage, IInv, TypeOK, OwnedInv
  <2>2. job[t] = conn \/ job[t] = map[t]
    BY <2>1 DEF IInv, OwnedInv
  <2>3. QED
    BY <2>1, <2>2 DEF IInv, HeldInv
<1>2. QED
  BY Invariance, <1>1, PTL

(* mpo_wait_thread is only ever called on a thread that exists and has not   *)
(* been joined, so that the asserts on its result hold.                      *)
THEOREM JoinsAreSound == Spec => []JoinsOnlyItsThread
<1>1. IInv => JoinsOnlyItsThread
  BY DEF IInv, TypeOK, LocalsInv, OwnedInv, EntriesInv, ScanInv, Entries,
         JoinsOnlyItsThread
<1>2. QED
  BY Invariance, <1>1, PTL

(* After the destructor no child thread is left and no storage leaks.        *)
THEOREM DestructorCleansUp == Spec => []NothingOutlivesOwner
<1>1. IInv => NothingOutlivesOwner
  BY ListenerAssumption
  DEF IInv, TypeOK, LocalsInv, HeldInv, QuitInv, NothingOutlivesOwner
<1>2. QED
  BY Invariance, <1>1, PTL

(* mapThreads[id] = storage never replaces an entry, whatever ids the system *)
(* hands out.                                                                *)
THEOREM InsertIsFresh == Spec => []NoEntryOverwritten
<1>1. IInv => NoEntryOverwritten
  BY DEF IInv, TypeOK, LocalsInv, OwnedInv, EntriesInv, NoEntryOverwritten
<1>2. QED
  BY Invariance, <1>1, PTL

(* Whatever releases a storage object, the thread started for it has been    *)
(* joined by then: what is not held by the listener has no thread.           *)
THEOREM JoinBeforeRelease == Spec => ReleasedAfterJoin
<1>1. IInv' => \A c \in Conns : comm'[c].memory = "freed" =>
                 \A t \in Tids : thread'[t] # "free" => job'[t] # c
  <2> SUFFICES ASSUME IInv', NEW c \in Conns, comm'[c].memory = "freed",
                      NEW t \in Tids, thread'[t] # "free"
               PROVE  job'[t] # c
    OBVIOUS
  <2>1. map'[t] # c /\ conn' # c
    BY ListenerAssumption DEF IInv, TypeOK, HeldInv, Storage
  <2>2. QED
    BY <2>1 DEF IInv, OwnedInv
<1>2. IInv' => [\A c \in Conns : comm[c].memory = "live" /\ comm'[c].memory = "freed" =>
                 \A t \in Tids : thread'[t] # "free" => job'[t] # c]_vars
  BY <1>1
<1>3. QED
  BY Invariance, <1>2, PTL DEF ReleasedAfterJoin

=============================================================================
