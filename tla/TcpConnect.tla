----------------------------- MODULE TcpConnect -----------------------------
(***************************************************************************)
(* TCP connections on unix: mpo_client objects that connect without        *)
(* blocking, an MpoServer that accepts, the presenters that own the        *)
(* sockets, and the system's table of descriptors, which gives out the     *)
(* lowest number that is free.                                             *)
(*                                                                         *)
(* Sockets are the system's and have an identity of their own; a presenter *)
(* is known by the socket it was made for. The code sees only descriptors: *)
(* a stale one may be the number of somebody else's socket.                *)
(***************************************************************************)
EXTENDS Integers, Sequences, FiniteSets

CONSTANTS
  Clients,     \* the mpo_client objects
  Fds,         \* the descriptors this program can have for sockets
  MaxSockets,  \* bound: sockets made
  Backlog,     \* connections the system keeps until they are accepted
  Dests,       \* where the clients connect to
  Habits       \* what system and application do beyond the usual

(* "server": the MpoServer, whether it listens or not; "noroute": an address *)
(* that connect() itself refuses.                                            *)
AllDests == {"server", "noroute"}
(* "nofcntl": fcntl fails; "reinit": a server is initialised again; "late":  *)
(* wait_connect is called after NET_ERROR; "aborted": the system drops a     *)
(* connection, which its client has closed, between select and accept.       *)
AllHabits == {"nofcntl", "reinit", "late", "aborted"}

ASSUME TcpAssumption ==
  /\ Fds \subseteq Nat /\ MaxSockets \in Nat /\ Backlog \in Nat
  /\ Dests \subseteq AllDests /\ Habits \subseteq AllHabits
  /\ "app" \notin Clients

Sockets == 1 .. MaxSockets
None == 0       \* no socket
NoFd == -1

VARIABLES
  fd,          \* the table of descriptors: an open socket, or None
  sock,        \* each socket as the system sees it
  queue,       \* connections to the server that wait to be accepted
  holds,       \* who has a reference to each socket's presenter
  pfd,         \* m_socket of each presenter, NoFd where none was made
  client,      \* the members of each mpo_client, and where its call is
  listen,      \* m_listening_socket
  initialized, \* m_initialized
  accepting    \* accept_connection is between select and accept

tableVars  == <<fd, sock, queue>>
ownerVars  == <<holds, pfd>>
serverVars == <<listen, initialized, accepting>>
vars == <<tableVars, ownerVars, client, serverVars>>

Socket(st) == [st |-> st, err |-> FALSE, from |-> None]
NewClient == [at |-> "idle", call |-> "none", sock |-> NoFd, pres |-> None,
              to |-> "server", res |-> "none"]

Init ==
  /\ fd = [d \in Fds |-> None]
  /\ sock = [s \in Sockets |-> Socket("none")]
  /\ queue = <<>>
  /\ holds = [s \in Sockets |-> {}] /\ pfd = [s \in Sockets |-> NoFd]
  /\ client = [c \in Clients |-> NewClient]
  /\ listen = 0 /\ initialized = FALSE /\ accepting = FALSE

-----------------------------------------------------------------------------
(* The system's table, and who closes what. *)

Free == {d \in Fds : fd[d] = None}
Lowest(D) == CHOOSE d \in D : \A e \in D : d <= e
Listening == {s \in Sockets : sock[s].st = "listening"}
Waiting == {queue[i] : i \in DOMAIN queue}
Unused == {s \in Sockets : sock[s].st = "none"}

(* The bound on sockets leaves one to each call that may need it.            *)
Reserved == Cardinality({c \in Clients : client[c].at = "lookup"})
              + (IF accepting THEN 1 ELSE 0)
Spare == Cardinality(Unused) > Reserved

(* Descriptor d is given to socket s. *)
Opens(d, s, st) ==
  /\ d = Lowest(Free) /\ s = Lowest(Unused)
  /\ fd' = [fd EXCEPT ![d] = s]
  /\ sock' = [sock EXCEPT ![s].st = st]

(* The descriptors in D are closed. Connections that wait to be accepted are *)
(* reset when the socket that listens for them is closed, and those that     *)
(* were accepted end when the accepted socket is.                            *)
Closes(D, socks) ==
  LET closed == {fd[d] : d \in D}
      deaf   == closed \cap Listening # {}
  IN /\ fd' = [d \in Fds |-> IF d \in D THEN None ELSE fd[d]]
     /\ sock' = [s \in Sockets |->
          IF s \in closed THEN Socket("closed")
          ELSE IF socks[s].st = "connected" /\ deaf /\ s \in Waiting
          THEN [socks[s] EXCEPT !.st = "ended", !.err = TRUE]
          ELSE IF socks[s].st = "connected" /\ \E a \in closed : socks[a].from = s
          THEN [socks[s] EXCEPT !.st = "ended"]
          ELSE socks[s]]
     /\ queue' = IF deaf THEN <<>> ELSE queue

(* The references become refs. The destructor of a presenter that nobody has *)
(* a reference to any more closes the descriptor it remembers.               *)
ClosedAtOnce(refs) ==   \* mutant: whoever lets go closes
  {pfd[s] : s \in {p \in Sockets : refs[p] # holds[p] /\ holds[p] # {}}}
ClosedBy(refs) == {pfd[s] : s \in {p \in Sockets : holds[p] # {} /\ refs[p] = {}}}
Without(h) == [s \in Sockets |-> holds[s] \ {h}]
Releases(refs) ==
  /\ holds' = refs
  /\ pfd' = [s \in Sockets |-> IF refs[s] = {} THEN NoFd ELSE pfd[s]]
  /\ Closes(ClosedBy(refs), sock)

-----------------------------------------------------------------------------
(* mpo_client *)

Idle(c) == client[c].at = "idle"
Returns(c, res, pres) ==
  client' = [client EXCEPT ![c] = [@ EXCEPT !.at = "idle", !.call = "none",
                                            !.res = res, !.pres = pres]]

(* connect_to_host or connect_and_wait is called; net_nslookup takes its time. *)
Connect(c, dest, call) ==
  /\ Idle(c) /\ Spare
  /\ client' = [client EXCEPT ![c] = [@ EXCEPT !.at = "lookup", !.call = call,
                                               !.sock = NoFd, !.to = dest]]
  /\ UNCHANGED <<tableVars, ownerVars, serverVars>>

(* The host is unknown, or there is no descriptor left. The connection of    *)
(* an earlier call stays.                                                    *)
NoSocket(c) ==
  /\ client[c].at = "lookup"
  /\ Returns(c, "NET_ERROR", client[c].pres)
  /\ UNCHANGED <<tableVars, ownerVars, serverVars>>

OpenSocket(c) ==
  /\ client[c].at = "lookup"
  /\ \E d \in Free, s \in Unused :
       /\ Opens(d, s, "new")
       /\ client' = [client EXCEPT ![c] = [@ EXCEPT !.at = "open", !.sock = d]]
  /\ UNCHANGED <<queue, ownerVars, serverVars>>

(* m_SockSPtr is set to a presenter of the new socket, and the reference to  *)
(* the one before goes; then the socket is connected without blocking.       *)
(* "noroute" leaves no error in the socket.                                  *)
StartConnect(c) ==
  LET d == client[c].sock
      s == fd[d]
      refs == [Without(c) EXCEPT ![s] = {c}]
      st == IF client[c].to = "noroute" THEN "failed" ELSE "connecting"
  IN /\ client[c].at = "open"
     /\ \/ /\ holds' = refs
           /\ pfd' = [p \in Sockets |-> IF p = s THEN d
                                        ELSE IF refs[p] = {} THEN NoFd ELSE pfd[p]]
           /\ Closes(ClosedBy(refs), [sock EXCEPT ![s].st = st])
           /\ client' = [client EXCEPT ![c] = [@ EXCEPT !.at = "select",
                                                     !.to = "server", !.pres = s]]
        \/ /\ "nofcntl" \in Habits
           /\ holds' = Without(c)
           /\ pfd' = [p \in Sockets |-> IF Without(c)[p] = {} THEN NoFd ELSE pfd[p]]
           /\ Closes(ClosedBy(Without(c)) \cup {d}, sock)
           /\ Returns(c, "NET_ERROR", None)
     /\ UNCHANGED serverVars

(* wait_connect, "if connect_to_host() has timed out" (mpo_client.h:49), or  *)
(* once more after success, as a test does.                                  *)
WaitConnect(c) ==
  /\ Idle(c) /\ client[c].sock # NoFd
  /\ client[c].res \in {"NET_TIMEOUT", "NET_OK"} \/ "late" \in Habits
  /\ client' = [client EXCEPT ![c] = [@ EXCEPT !.at = "select", !.call = "wait"]]
  /\ UNCHANGED <<tableVars, ownerVars, serverVars>>

Selected(c) == fd[client[c].sock]
Readable(s) ==          \* mutant: SELECT_READ
  s # None => sock[s].st \in {"failed", "ended", "closed"}
Writable(s) == s # None => sock[s].st \notin {"connecting", "listening"}
NoError(s) == FALSE      \* mutant: writable is taken for connected
SoError(s) == sock[s].err
InConnect(c) == client[c].call \in {"connect", "connectAndWait"}

(* select says that the socket can be written, and SO_ERROR, which goes with *)
(* being read, that it is connected. select fails for a closed descriptor.   *)
Succeeds(c) ==
  LET s == Selected(c)
  IN /\ client[c].at = "select" /\ Writable(s)
     /\ s # None /\ ~SoError(s)
     /\ Returns(c, "NET_OK", client[c].pres)
     /\ UNCHANGED <<tableVars, ownerVars, serverVars>>

(* connect_to_host gives the socket up, wait_connect does not. *)
Fails(c) ==
  LET s == Selected(c)
  IN /\ client[c].at = "select" /\ Writable(s)
     /\ s # None => SoError(s)
     /\ IF InConnect(c)
        THEN Releases(Without(c)) /\ Returns(c, "NET_ERROR", None)
        ELSE /\ sock' = [x \in Sockets |-> IF x = s THEN [sock[x] EXCEPT !.err = FALSE]
                                           ELSE sock[x]]
             /\ Returns(c, "NET_ERROR", client[c].pres)
             /\ UNCHANGED <<fd, queue, ownerVars>>
     /\ UNCHANGED serverVars

(* connect_and_wait goes on with wait_connect. *)
TimesOut(c) ==
  /\ client[c].at = "select" /\ ~Writable(Selected(c))
  /\ IF client[c].call \in {"connectAndWait", "waitAgain"}
     THEN client' = [client EXCEPT ![c].call = "waitAgain"]
     ELSE Returns(c, "NET_TIMEOUT", client[c].pres)
  /\ UNCHANGED <<tableVars, ownerVars, serverVars>>

(* The application takes the presenter or a stream on it, and lets it go.    *)
GetStream(c) ==
  /\ Idle(c) /\ client[c].pres # None
  /\ holds' = [holds EXCEPT ![client[c].pres] = @ \cup {"app"}]
  /\ UNCHANGED <<tableVars, pfd, client, serverVars>>

DropStream(s) ==
  /\ "app" \in holds[s]
  /\ Releases([holds EXCEPT ![s] = @ \ {"app"}])
  /\ UNCHANGED <<client, serverVars>>

(* ~mpo_client; a new object takes the name of the old one. *)
DeleteClient(c) ==
  /\ Idle(c) /\ client[c] # NewClient
  /\ Releases(Without(c))
  /\ client' = [client EXCEPT ![c] = NewClient]
  /\ UNCHANGED serverVars

-----------------------------------------------------------------------------
(* MpoServer *)

(* Initialize: socket, bind and listen. Descriptor 0 is taken for a failure. *)
Initialize ==
  /\ ~accepting /\ (~initialized \/ "reinit" \in Habits)
  /\ \/ \E d \in Free, s \in Unused :
          /\ Spare
          /\ Opens(d, s, IF d > 0 THEN "listening" ELSE "new")
          /\ listen' = d /\ initialized' = (initialized \/ d > 0)
     \/ /\ listen' \in {NoFd, 0}     \* socket fails, or bind or listen
        /\ UNCHANGED <<fd, sock, initialized>>
  /\ UNCHANGED <<queue, ownerVars, client, accepting>>

(* accept_connection: select, then accept, which would wait for a connection. *)
Ready == queue # <<>>

Select ==
  /\ initialized /\ ~accepting /\ Spare
  /\ listen \in Fds /\ fd[listen] \in Listening /\ Ready
  /\ accepting' = TRUE
  /\ UNCHANGED <<tableVars, ownerVars, client, listen, initialized>>

(* Accept makes a presenter unless the descriptor is 0 or fcntl failed; the  *)
(* socket is then forgotten. accept itself may fail for want of descriptors, *)
(* and the connection stays in the queue.                                    *)
PresentsFailed(d, nonBlocking) == d > 0 /\ ~nonBlocking   \* mutant: != for ==
Presents(d, nonBlocking) == d > 0 /\ nonBlocking

Accept ==
  /\ accepting /\ accepting' = FALSE /\ queue # <<>>
  /\ \/ UNCHANGED <<tableVars, ownerVars>>
     \/ \E d \in Free, s \in Unused, ok \in {TRUE, "nofcntl" \notin Habits} :
          /\ d = Lowest(Free) /\ s = Lowest(Unused)
          /\ fd' = [fd EXCEPT ![d] = s]
          /\ sock' = [sock EXCEPT ![s] = [@ EXCEPT !.st = "accepted", !.from = Head(queue)]]
          /\ queue' = Tail(queue)
          /\ IF Presents(d, ok)
             THEN /\ pfd' = [pfd EXCEPT ![s] = d]
                  /\ holds' = [holds EXCEPT ![s] = {"app"}]
             ELSE UNCHANGED ownerVars
  /\ UNCHANGED <<client, listen, initialized>>

(* ~MpoServer and Shutdown; a new object takes its place. *)
DeleteServer ==
  /\ ~accepting /\ (initialized \/ listen # 0)
  /\ Closes({listen} \cap (Fds \ {0}), sock)
  /\ listen' = 0 /\ initialized' = FALSE
  /\ UNCHANGED <<ownerVars, client, accepting>>

-----------------------------------------------------------------------------
(* The system and the network. *)

Answers(s) ==
  /\ sock[s].st = "connecting"
  /\ sock' = [sock EXCEPT ![s].st = "connected"]
  /\ Listening # {} /\ Len(queue) < Backlog /\ queue' = Append(queue, s)
  /\ UNCHANGED <<fd, ownerVars, client, serverVars>>

(* A connection is refused, or given up when nobody answers. *)
Refuses(s) ==
  /\ sock[s].st = "connecting"
  /\ sock' = [sock EXCEPT ![s] = [@ EXCEPT !.st = "failed", !.err = TRUE]]
  /\ UNCHANGED <<fd, queue, ownerVars, client, serverVars>>

(* The system may drop a connection that its client has closed.              *)
Aborts ==
  /\ queue # <<>> /\ sock[Head(queue)].st = "closed"
  /\ accepting => "aborted" \in Habits
  /\ queue' = Tail(queue)
  /\ UNCHANGED <<fd, sock, ownerVars, client, serverVars>>

-----------------------------------------------------------------------------
InCall(c) == \/ NoSocket(c) \/ OpenSocket(c) \/ StartConnect(c)
             \/ Succeeds(c) \/ Fails(c) \/ TimesOut(c)
Client(c) ==
  \/ \E dest \in Dests, call \in {"connect", "connectAndWait"} : Connect(c, dest, call)
  \/ InCall(c) \/ WaitConnect(c) \/ GetStream(c) \/ DeleteClient(c)
Server == Initialize \/ Select \/ Accept \/ DeleteServer
System(s) == Answers(s) \/ Refuses(s)

Next ==
  \/ \E c \in Clients : Client(c)
  \/ \E s \in Sockets : DropStream(s) \/ System(s)
  \/ Server \/ Aborts

Spec == Init /\ [][Next]_vars

(* Calls that have begun go on, and the system answers or gives up.          *)
FairSpec == /\ Spec /\ WF_vars(Accept)
            /\ \A c \in Clients : WF_vars(InCall(c))
            /\ \A s \in Sockets : WF_vars(System(s))

-----------------------------------------------------------------------------
(* Properties *)

SocketType ==
  [st : {"none", "new", "connecting", "connected", "ended", "failed", "accepted",
         "listening", "closed"},
   err : BOOLEAN, from : Sockets \cup {None}]
ClientType ==
  [at : {"idle", "lookup", "open", "select"},
   call : {"none", "connect", "connectAndWait", "wait", "waitAgain"},
   sock : Fds \cup {NoFd}, pres : Sockets \cup {None}, to : AllDests,
   res : {"none", "NET_OK", "NET_ERROR", "NET_TIMEOUT"}]

(* Objects, sockets and the table have their types. *)
TypeOK ==
  /\ fd \in [Fds -> Sockets \cup {None}]
  /\ sock \in [Sockets -> SocketType]
  /\ queue \in Seq(Sockets)
  /\ holds \in [Sockets -> SUBSET (Clients \cup {"app"})]
  /\ pfd \in [Sockets -> Fds \cup {NoFd}]
  /\ client \in [Clients -> ClientType]
  /\ listen \in Fds \cup {0, NoFd} /\ initialized \in BOOLEAN /\ accepting \in BOOLEAN

(* Who answers for a descriptor: presenters that somebody has a reference    *)
(* to, the server that listens on it, a client that has just opened it.      *)
Owners(d) ==
  {<<"presenter", s>> : s \in {p \in Sockets : holds[p] # {} /\ pfd[p] = d}}
    \cup {<<"client", c>> : c \in {o \in Clients : client[o].at = "open"
                                                   /\ client[o].sock = d}}
    \cup {<<"server", l>> : l \in {listen} \cap (IF initialized THEN {d} ELSE {})}

(* Every open descriptor has exactly one owner, which will close it, and     *)
(* every owner's descriptor is open and still that of its socket: no socket  *)
(* leaks, none is closed twice (the assertion of net_close), and a stream    *)
(* never reads from a connection that was given the number of its own.       *)
DescriptorsOwned ==
  /\ \A d \in Fds : IF fd[d] = None THEN Owners(d) = {} ELSE \E o \in Owners(d) : Owners(d) = {o}
  /\ \A s \in Sockets : holds[s] # {} => pfd[s] \in Fds /\ fd[pfd[s]] = s
  /\ initialized => listen \in Fds /\ fd[listen] \in Listening

(* NET_OK means that the socket the client now has, through a presenter that *)
(* keeps it open, is connected, or was until the other end left: "If         *)
(* connection fails within the timeout period, returns NET_ERROR"            *)
(* (mpo_client.h:44).                                                        *)
OkMeansConnected ==
  \A c \in Clients :
    Idle(c) /\ client[c].res = "NET_OK" =>
      LET s == client[c].pres
      IN /\ s # None /\ Selected(c) = s /\ c \in holds[s]
         /\ sock[s].st \in {"connected", "ended"}

(* A connection to the server that stands is handed to the application once: *)
(* it waits to be accepted or it was, by one presenter.                      *)
Handed(s) == {a \in Sockets : sock[a].from = s /\ pfd[a] # NoFd}
AcceptedOnce ==
  \A s \in Sockets :
    /\ Cardinality(Handed(s)) + Cardinality({i \in DOMAIN queue : queue[i] = s}) <= 1
    /\ sock[s].st = "connected" => s \in Waiting \/ Handed(s) # {}

(* A failed call leaves no connection behind: "if socket was created, but we *)
(* ultimately failed, then disconnect" (mpo_client.cpp:153).                 *)
ErrorMeansNothingHeld ==
  [][\A c \in Clients :
       InConnect(c) /\ Idle(c)' /\ client'[c].res = "NET_ERROR"
         => client'[c].pres = None]_vars

(* Connecting comes to an end: "it won't return until either a connection    *)
(* has been accepted or rejected" (mpo_client.h:54), but then it does.       *)
ConnectSettles == \A c \in Clients : ~Idle(c) ~> Idle(c)

(* Accept, which has a timeout, never waits for a connection that is gone.   *)
AcceptReturns == accepting ~> ~accepting
=============================================================================
