---------------------------- MODULE HttpdListener ----------------------------
(***************************************************************************)
(* The HTTP server's threads: the owner of an mpo_httpd_listener, its      *)
(* listener thread, and one child thread per accepted connection.          *)
(*                                                                         *)
(* Each connection has a storage object (CHttpdListenerStorage: the comm   *)
(* block, the stream and the mpo_httpd) that its child thread uses through *)
(* raw pointers while the listener thread alone owns it. Thread ids are    *)
(* the keys of mapThreads; the system may hand out an id again as soon as  *)
(* the thread that had it has been joined.                                 *)
(***************************************************************************)
EXTENDS Integers

CONSTANTS
  Conns,    \* the connections that clients open
  Tids,     \* thread ids
  None

ASSUME ListenerAssumption == None \notin Conns /\ None \notin Tids

VARIABLES
  owner,      \* the thread that runs the destructor
  parentQuit, \* m_comm.m_bParentRequestedQuit
  listenQuit, \* m_comm.m_bChildHasQuit
  pc,         \* what the listener thread does next
  conn,       \* the connection held in the local variable storage, or None
  newTid,     \* the local variable id
  map,        \* mapThreads: [Tids -> Conns \cup {None}], None where no entry
  scan,       \* ids the current for-loop over mapThreads has yet to look at
  thread,     \* each thread id: is there a thread, and how far is it
  job,        \* the connection each thread works for
  comm        \* each connection's storage: memory and the two flags

listenerVars == <<pc, conn, newTid, map, scan>>
vars == <<owner, parentQuit, listenQuit, listenerVars, thread, job, comm>>

(* A thread runs its callback, then sets m_bChildHasQuit, then ends; the id  *)
(* is free again when the thread has been joined.                           *)
ThreadStates == {"free", "callback", "flag", "ending", "ended"}
Storage == [memory : {"none", "live", "freed"},
            parentQuit : BOOLEAN, childQuit : BOOLEAN]
Entries == {t \in Tids : map[t] # None}

Init ==
  /\ owner = "using" /\ parentQuit = FALSE /\ listenQuit = FALSE
  /\ pc = "loop" /\ conn = None /\ newTid = None
  /\ map = [t \in Tids |-> None] /\ scan = {}
  /\ thread = [t \in Tids |-> "free"] /\ job = [t \in Tids |-> None]
  /\ comm = [c \in Conns |-> [memory |-> "none", parentQuit |-> FALSE,
                              childQuit |-> FALSE]]

Free(c) == comm' = [comm EXCEPT ![c].memory = "freed"]

-----------------------------------------------------------------------------
(* The owner: ~mpo_httpd_listener. *)

OwnerQuits ==
  /\ owner = "using"
  /\ owner' = "polling" /\ parentQuit' = TRUE
  /\ UNCHANGED <<listenQuit, listenerVars, thread, job, comm>>

OwnerSeesQuit ==
  /\ owner = "polling" /\ listenQuit
  /\ owner' = "joining"
  /\ UNCHANGED <<parentQuit, listenQuit, listenerVars, thread, job, comm>>

(* mpo_wait_thread returns when ListenerThread has returned; then m_comm,    *)
(* m_srv and the listener object itself are gone.                            *)
OwnerJoins ==
  /\ owner = "joining" /\ pc = "returned"
  /\ owner' = "gone"
  /\ UNCHANGED <<parentQuit, listenQuit, listenerVars, thread, job, comm>>

-----------------------------------------------------------------------------
(* The listener thread. *)

CheckQuit ==
  /\ pc = "loop"
  /\ IF parentQuit THEN pc' = "signal" /\ scan' = Entries
                   ELSE pc' = "accept" /\ UNCHANGED scan
  /\ UNCHANGED <<owner, parentQuit, listenQuit, conn, newTid, map, thread, job, comm>>

(* Accept(125): a connection and its storage, or nothing within 125 ms. *)
Accept ==
  /\ pc = "accept"
  /\ \/ \E c \in Conns :
          /\ comm[c].memory = "none"
          /\ conn' = c
          /\ comm' = [comm EXCEPT ![c].memory = "live"]
          /\ pc' = "create"
          /\ UNCHANGED scan
     \/ /\ pc' = "scan" /\ scan' = Entries
        /\ UNCHANGED <<conn, comm>>
  /\ UNCHANGED <<owner, parentQuit, listenQuit, newTid, map, thread, job>>

(* The child may run, and end, before its storage is in the map. *)
CreateThread ==
  /\ pc = "create"
  /\ \E t \in Tids :
       /\ thread[t] = "free"
       /\ thread' = [thread EXCEPT ![t] = "callback"]
       /\ job' = [job EXCEPT ![t] = conn]
       /\ newTid' = t
  /\ pc' = "insert"
  /\ UNCHANGED <<owner, parentQuit, listenQuit, conn, map, scan, comm>>

(* No stream, no httpd or no thread: the local storage goes out of scope. *)
CreateFails ==
  /\ pc = "create"
  /\ Free(conn)
  /\ conn' = None
  /\ pc' = "scan" /\ scan' = Entries
  /\ UNCHANGED <<owner, parentQuit, listenQuit, newTid, map, thread, job>>

(* mapThreads[id] = storage: an entry that was there would be dropped. *)
Insert ==
  /\ pc = "insert"
  /\ map' = [map EXCEPT ![newTid] = conn]
  /\ comm' = [c \in Conns |-> IF c = map[newTid] /\ c # conn
                              THEN [comm[c] EXCEPT !.memory = "freed"]
                              ELSE comm[c]]
  /\ conn' = None /\ newTid' = None
  /\ pc' = "scan" /\ scan' = {t \in Tids : map'[t] # None}
  /\ UNCHANGED <<owner, parentQuit, listenQuit, thread, job>>

(* One turn of the loop that looks for children that have quit. *)
Scan(t) ==
  /\ pc = "scan" /\ t \in scan
  /\ IF comm[map[t]].childQuit
     THEN pc' = "reap" /\ newTid' = t /\ UNCHANGED scan
     ELSE scan' = scan \ {t} /\ UNCHANGED <<pc, newTid>>
  /\ UNCHANGED <<owner, parentQuit, listenQuit, conn, map, thread, job, comm>>

ScanEnds ==
  /\ pc = "scan" /\ scan = {}
  /\ pc' = "loop"
  /\ UNCHANGED <<owner, parentQuit, listenQuit, conn, newTid, map, scan,
                 thread, job, comm>>

Detach(t) ==          \* mutant: the thread is left unjoined
  thread[t] = "ended" /\ UNCHANGED <<thread, job>>
Join(t) ==
  /\ thread[t] = "ended"
  /\ thread' = [thread EXCEPT ![t] = "free"]
  /\ job' = [job EXCEPT ![t] = None]

NotErased == map      \* mutant: the entry of a joined thread stays
Erased == [map EXCEPT ![newTid] = None]

(* Join the child, erase its entry and leave the loop. *)
Reap ==
  /\ pc = "reap"
  /\ Join(newTid)
  /\ Free(map[newTid])
  /\ map' = Erased
  /\ pc' = "loop" /\ newTid' = None /\ scan' = {}
  /\ UNCHANGED <<owner, parentQuit, listenQuit, conn>>

NotAsked(t) == comm   \* mutant: the flag is not set
Asked(t) == [comm EXCEPT ![map[t]].parentQuit = TRUE]

(* The loop is over: ask every remaining child to quit ... *)
Signal(t) ==
  /\ pc = "signal" /\ t \in scan
  /\ comm' = Asked(t)
  /\ scan' = scan \ {t}
  /\ UNCHANGED <<owner, parentQuit, listenQuit, pc, conn, newTid, map, thread, job>>

QuitEntries == {t \in Entries : comm[map[t]].childQuit}  \* mutant: no waiting
ToAwait == Entries

SignalEnds ==
  /\ pc = "signal" /\ scan = {}
  /\ pc' = "await" /\ scan' = ToAwait
  /\ UNCHANGED <<owner, parentQuit, listenQuit, conn, newTid, map, thread, job, comm>>

(* ... and wait for each of them: first its flag, then the thread. *)
AwaitFlag(t) ==
  /\ pc = "await" /\ t \in scan
  /\ comm[map[t]].childQuit
  /\ newTid' = t /\ pc' = "awaitJoin"
  /\ UNCHANGED <<owner, parentQuit, listenQuit, conn, map, scan, thread, job, comm>>

AwaitJoin ==
  /\ pc = "awaitJoin"
  /\ Join(newTid)
  /\ scan' = scan \ {newTid} /\ newTid' = None /\ pc' = "await"
  /\ UNCHANGED <<owner, parentQuit, listenQuit, conn, map, comm>>

TellOwner ==
  /\ pc = "await" /\ scan = {}
  /\ listenQuit' = TRUE /\ pc' = "returning"
  /\ UNCHANGED <<owner, parentQuit, conn, newTid, map, scan, thread, job, comm>>

(* ListenerThread returns: mapThreads and every storage in it are destroyed. *)
Return ==
  /\ pc = "returning"
  /\ comm' = [c \in Conns |-> IF \E t \in Tids : map[t] = c
                              THEN [comm[c] EXCEPT !.memory = "freed"]
                              ELSE comm[c]]
  /\ map' = [t \in Tids |-> None]
  /\ pc' = "returned"
  /\ UNCHANGED <<owner, parentQuit, listenQuit, conn, newTid, scan, thread, job>>

-----------------------------------------------------------------------------
(* A child thread: ListenerThreadHelper. *)

(* The callback serves the connection for as long as it likes; one that      *)
(* follows IHttpdThreadComm returns soon after IsQuitRequested is true.      *)
CallbackReturns(t) ==
  /\ thread[t] = "callback"
  /\ thread' = [thread EXCEPT ![t] = "flag"]
  /\ UNCHANGED <<owner, parentQuit, listenQuit, listenerVars, job, comm>>

SetFlag(t) ==
  /\ thread[t] = "flag"
  /\ comm' = [comm EXCEPT ![job[t]].childQuit = TRUE]
  /\ thread' = [thread EXCEPT ![t] = "ending"]
  /\ UNCHANGED <<owner, parentQuit, listenQuit, listenerVars, job>>

ThreadEnds(t) ==
  /\ thread[t] = "ending"
  /\ thread' = [thread EXCEPT ![t] = "ended"]
  /\ UNCHANGED <<owner, parentQuit, listenQuit, listenerVars, job, comm>>

-----------------------------------------------------------------------------
Owner == OwnerQuits \/ OwnerSeesQuit \/ OwnerJoins
Listener ==
  \/ CheckQuit \/ Accept \/ CreateThread \/ CreateFails \/ Insert
  \/ (\E t \in Tids : Scan(t)) \/ ScanEnds \/ Reap
  \/ (\E t \in Tids : Signal(t)) \/ SignalEnds
  \/ (\E t \in Tids : AwaitFlag(t)) \/ AwaitJoin \/ TellOwner \/ Return
Child(t) == CallbackReturns(t) \/ SetFlag(t) \/ ThreadEnds(t)
Next == Owner \/ Listener \/ \E t \in Tids : Child(t)

Spec == Init /\ [][Next]_vars

(* Threads are scheduled; the callback returns once it was asked to quit.   *)
ObeysQuit(t) == CallbackReturns(t) /\ comm[job[t]].parentQuit
FairSpec ==
  /\ Spec
  /\ WF_vars(Listener) /\ WF_vars(OwnerSeesQuit) /\ WF_vars(OwnerJoins)
  /\ \A t \in Tids : WF_vars(ObeysQuit(t)) /\ WF_vars(SetFlag(t)) /\ WF_vars(ThreadEnds(t))

-----------------------------------------------------------------------------
(* Properties. *)

Pcs == {"loop", "accept", "create", "insert", "scan", "reap", "signal",
        "await", "awaitJoin", "returning", "returned"}
(* Every variable holds what its C++ counterpart can hold. *)
TypeOK ==
  /\ owner \in {"using", "polling", "joining", "gone"}
  /\ parentQuit \in BOOLEAN /\ listenQuit \in BOOLEAN
  /\ pc \in Pcs /\ conn \in Conns \cup {None} /\ newTid \in Tids \cup {None}
  /\ map \in [Tids -> Conns \cup {None}] /\ scan \subseteq Tids
  /\ thread \in [Tids -> ThreadStates]
  /\ job \in [Tids -> Conns \cup {None}]
  /\ comm \in [Conns -> Storage]

(* A child thread uses its comm block, stream and mpo_httpd through raw      *)
(* pointers until it has set its flag: all that time its storage is alive,   *)
(* whatever the listener thread and the owner do.                            *)
UsesStorage(t) == thread[t] \in {"callback", "flag"}
NoUseAfterFree == \A t \in Tids : UsesStorage(t) => comm[job[t]].memory = "live"

(* mpo_wait_thread is called for threads that exist and have not been joined *)
(* yet (the asserts on bSuccess), by way of the id its entry was made with.  *)
JoinsOnlyItsThread ==
  /\ pc \in {"reap", "awaitJoin"} => thread[newTid] # "free" /\ job[newTid] = map[newTid]
  /\ pc = "await" => \A t \in scan : thread[t] # "free"

(* When the destructor has returned no thread of the server is left and the  *)
(* storage of every connection has been released.                            *)
NothingOutlivesOwner ==
  owner = "gone" => /\ \A t \in Tids : thread[t] = "free"
                    /\ \A c \in Conns : comm[c].memory # "live"

(* A thread id is reused only for a connection whose predecessor is out of   *)
(* the map: no entry is ever overwritten.                                    *)
NoEntryOverwritten == pc = "insert" => map[newTid] = None

(* A step that releases a storage object leaves no thread that was started   *)
(* for it unjoined: whoever drops the last pointer has waited for the child. *)
ReleasedAfterJoin ==
  [][\A c \in Conns : comm[c].memory = "live" /\ comm'[c].memory = "freed" =>
       \A t \in Tids : thread'[t] # "free" => job'[t] # c]_vars

(* The destructor returns, if callbacks return when they are asked to.       *)
DestructorReturns == owner = "polling" ~> owner = "gone"

(* Once clients stop connecting, every child that has quit is joined and its *)
(* storage released, although a pass of the loop reaps one child at most.    *)
QuitChildrenReaped ==
  \A t \in Tids : thread[t] = "ended" ~> thread[t] = "free"

=============================================================================
