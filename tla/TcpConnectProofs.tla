-------------------------- MODULE TcpConnectProofs --------------------------
(***************************************************************************)
(* Proofs about TcpConnect for any clients, descriptors and bounds:        *)
(* descriptors are owned, NET_OK means connected, and a connection is      *)
(* handed out once.                                                        *)
(***************************************************************************)
EXTENDS TcpConnect, FiniteSetTheorems, TLAPS

(* A presenter that somebody has a reference to remembers the descriptor of  *)
(* its own socket.                                                           *)
PresentersInv ==
  \A s \in Sockets :
    IF holds[s] = {} THEN pfd[s] = NoFd
    ELSE /\ pfd[s] \in Fds /\ fd[pfd[s]] = s
         /\ sock[s].st \notin {"none", "new", "listening", "closed"}

(* A socket that connect_to_host has just opened has no presenter yet, and   *)
(* nobody but that call has its descriptor.                                  *)
OpenersInv ==
  \A c \in Clients : client[c].at = "open" =>
    /\ client[c].sock \in Fds /\ Selected(c) # None
    /\ holds[Selected(c)] = {} /\ sock[Selected(c)].st = "new"
    /\ \A e \in Clients \ {c} :
         client[e].at = "open" => client[e].sock # client[c].sock

ListenInv == listen \in Fds \ {0} => fd[listen] \in Listening

(* Every open descriptor has a socket of its own.                            *)
TableInv ==
  /\ \A d \in Fds : fd[d] # None => sock[fd[d]].st \notin {"none", "closed"}
  /\ \A d, e \in Fds : fd[d] # None /\ fd[d] = fd[e] => d = e

IInv == TypeOK /\ PresentersInv /\ OpenersInv /\ ListenInv /\ TableInv

(* m_SockSPtr is a reference.                                                *)
RefsInv ==
  \A c \in Clients : client[c].pres # None => c \in holds[client[c].pres]

(* What holds besides in a program whose fcntl works, which does not         *)
(* initialise a server twice, and whose descriptor 0 is taken.               *)
Usual == Habits \cap {"nofcntl", "reinit"} = {} /\ 0 \notin Fds

NoLeakInv ==
  \A d \in Fds : fd[d] # None =>
    \/ holds[fd[d]] # {}
    \/ \E c \in Clients : client[c].at = "open" /\ client[c].sock = d
    \/ initialized /\ listen = d
ServerInv == initialized <=> listen \in Fds

OwnedInv == IInv /\ NoLeakInv /\ ServerInv

-----------------------------------------------------------------------------
(* What closing does to the types of the table and the sockets.              *)
LEMMA ClosesType ==
  ASSUME TypeOK, NEW D, NEW socks \in [Sockets -> SocketType], Closes(D, socks)
  PROVE  /\ fd' \in [Fds -> Sockets \cup {None}]
         /\ sock' \in [Sockets -> SocketType] /\ queue' \in Seq(Sockets)
<1>1. fd' \in [Fds -> Sockets \cup {None}]
  BY DEF Closes, TypeOK
<1>2. queue' \in Seq(Sockets)
  <2>1. <<>> \in Seq(Sockets)
    OBVIOUS
  <2> QED BY <2>1 DEF Closes, TypeOK
<1>3. sock' \in [Sockets -> SocketType]
  <2> SUFFICES ASSUME NEW s \in Sockets PROVE sock'[s] \in SocketType
    BY DEF Closes
  <2>1. Socket("closed") \in SocketType
    BY DEF Socket, SocketType, None
  <2>2. socks[s] \in SocketType /\ [socks[s] EXCEPT !.st = "ended"] \in SocketType
    BY DEF SocketType
  <2>3. [socks[s] EXCEPT !.st = "ended", !.err = TRUE] \in SocketType
    BY <2>2 DEF SocketType
  <2> QED BY <2>1, <2>2, <2>3 DEF Closes
<1> QED BY <1>1, <1>2, <1>3

(* ... and releasing, whatever remains.                                      *)
LEMMA ReleasesType ==
  ASSUME TypeOK, NEW refs \in [Sockets -> SUBSET (Clients \cup {"app"})],
         Releases(refs)
  PROVE  /\ fd' \in [Fds -> Sockets \cup {None}]
         /\ sock' \in [Sockets -> SocketType] /\ queue' \in Seq(Sockets)
         /\ holds' \in [Sockets -> SUBSET (Clients \cup {"app"})]
         /\ pfd' \in [Sockets -> Fds \cup {NoFd}]
<1>1. sock \in [Sockets -> SocketType] /\ Closes(ClosedBy(refs), sock)
  BY DEF TypeOK, Releases
<1>2. /\ fd' \in [Fds -> Sockets \cup {None}]
      /\ sock' \in [Sockets -> SocketType] /\ queue' \in Seq(Sockets)
  BY <1>1, ClosesType
<1> QED BY <1>2 DEF Releases, TypeOK

(* Closing marks the sockets of D, and may end connections, no more.         *)
LEMMA ClosesMeans ==
  ASSUME TypeOK, NEW D, NEW socks \in [Sockets -> SocketType], Closes(D, socks),
         NEW s \in Sockets
  PROVE  IF s \in {fd[d] : d \in D} THEN sock'[s].st = "closed"
         ELSE \/ sock'[s].st = socks[s].st
              \/ socks[s].st = "connected" /\ sock'[s].st = "ended"
<1> DEFINE closed == {fd[d] : d \in D}
<1>1. CASE s \in closed
  BY <1>1 DEF Closes, Socket
<1>2. CASE s \notin closed
  <2>1. \/ sock'[s] = socks[s]
        \/ socks[s].st = "connected"
           /\ sock'[s] \in {[socks[s] EXCEPT !.st = "ended"],
                            [socks[s] EXCEPT !.st = "ended", !.err = TRUE]}
    BY <1>2 DEF Closes
  <2>2. socks[s] \in SocketType
    OBVIOUS
  <2>3. [socks[s] EXCEPT !.st = "ended"].st = "ended"
    BY <2>2 DEF SocketType
  <2>4. [socks[s] EXCEPT !.st = "ended", !.err = TRUE].st = "ended"
    BY <2>2 DEF SocketType
  <2> DEFINE e == [socks[s] EXCEPT !.st = "ended"]
             f == [socks[s] EXCEPT !.st = "ended", !.err = TRUE]
  <2>5. \/ sock'[s] = socks[s]
        \/ socks[s].st = "connected" /\ (sock'[s] = e \/ sock'[s] = f)
    BY <2>1
  <2>6. e.st = "ended" /\ f.st = "ended"
    BY <2>3, <2>4
  <2> HIDE DEF e, f
  <2>7. \/ sock'[s].st = socks[s].st
        \/ socks[s].st = "connected" /\ sock'[s].st = "ended"
    <3>1. sock'[s] = e => sock'[s].st = "ended"
      BY <2>6
    <3>2. sock'[s] = f => sock'[s].st = "ended"
      BY <2>6
    <3>3. sock'[s] = socks[s] => sock'[s].st = socks[s].st
      OBVIOUS
    <3> QED BY <2>5, <3>1, <3>2, <3>3
  <2> QED BY <1>2, <2>7
<1> QED BY <1>1, <1>2

(* What a presenter closes is its own, and not what somebody else still has. *)
LEMMA ClosedByMeans ==
  ASSUME IInv, NEW refs \in [Sockets -> SUBSET (Clients \cup {"app"})],
         NEW d \in ClosedBy(refs)
  PROVE  /\ d \in Fds /\ fd[d] \in Sockets /\ pfd[fd[d]] = d
         /\ holds[fd[d]] # {} /\ refs[fd[d]] = {}
         /\ sock[fd[d]].st \notin {"none", "new", "listening", "closed"}
  BY DEF ClosedBy, IInv, PresentersInv

(* Letting references go keeps the invariant, if calls that have opened a    *)
(* socket stay as they are.                                                  *)
LEMMA ReleasesKeeps ==
  ASSUME IInv, NEW refs \in [Sockets -> SUBSET (Clients \cup {"app"})],
         \A s \in Sockets : refs[s] \subseteq holds[s], Releases(refs),
         UNCHANGED serverVars, client' \in [Clients -> ClientType],
         \A c \in Clients : client'[c].at = "open" =>
           client[c].at = "open" /\ client'[c].sock = client[c].sock
  PROVE  IInv'
<1> DEFINE D == ClosedBy(refs)
           closed == {fd[d] : d \in D}
<1> USE DEF IInv
<1>1. Closes(D, sock) /\ holds' = refs
      /\ pfd' = [s \in Sockets |-> IF refs[s] = {} THEN NoFd ELSE pfd[s]]
      /\ fd' = [d \in Fds |-> IF d \in D THEN None ELSE fd[d]]
  BY DEF Releases, Closes
<1>2. \A s \in Sockets : IF s \in closed THEN sock'[s].st = "closed"
         ELSE \/ sock'[s].st = sock[s].st
              \/ sock[s].st = "connected" /\ sock'[s].st = "ended"
  BY <1>1, ClosesMeans DEF TypeOK
<1>3. \A d \in D : /\ d \in Fds /\ fd[d] \in Sockets /\ pfd[fd[d]] = d
                   /\ holds[fd[d]] # {} /\ refs[fd[d]] = {}
                   /\ sock[fd[d]].st \notin {"none", "new", "listening", "closed"}
  BY ClosedByMeans
<1>4. TypeOK'
  BY ReleasesType DEF TypeOK, serverVars
<1>5. PresentersInv'
  <2> SUFFICES ASSUME NEW s \in Sockets, refs[s] # {}
               PROVE /\ pfd[s] \in Fds /\ fd'[pfd[s]] = s
                     /\ sock'[s].st \notin {"none", "new", "listening", "closed"}
    BY <1>1 DEF PresentersInv
  <2>1. holds[s] # {}
    OBVIOUS
  <2>2. pfd[s] \in Fds /\ fd[pfd[s]] = s
        /\ sock[s].st \notin {"none", "new", "listening", "closed"}
    BY <2>1 DEF PresentersInv
  <2>3. pfd[s] \notin D /\ s \notin closed
    BY <2>2, <1>3
  <2> QED BY <2>2, <2>3, <1>1, <1>2
<1>6. OpenersInv'
  <2> SUFFICES ASSUME NEW c \in Clients, client'[c].at = "open"
               PROVE  /\ client'[c].sock \in Fds /\ fd'[client'[c].sock] # None
                      /\ holds'[fd'[client'[c].sock]] = {}
                      /\ sock'[fd'[client'[c].sock]].st = "new"
                      /\ \A e \in Clients \ {c} :
                           client'[e].at = "open" => client'[e].sock # client'[c].sock
    BY DEF OpenersInv, Selected
  <2>1. client[c].at = "open" /\ client'[c].sock = client[c].sock
    OBVIOUS
  <2> DEFINE d == client[c].sock
  <2>2. d \in Fds /\ fd[d] # None /\ fd[d] \in Sockets /\ holds[fd[d]] = {} /\ sock[fd[d]].st = "new"
    BY <2>1 DEF OpenersInv, Selected, TypeOK
  <2>3. d \notin D /\ fd[d] \notin closed
    BY <2>2, <1>3
  <2>4. fd'[d] = fd[d] /\ sock'[fd[d]].st = "new" /\ holds'[fd[d]] = {}
    BY <2>2, <2>3, <1>1, <1>2
  <2>5. \A e \in Clients \ {c} :
          client'[e].at = "open" => client'[e].sock # client'[c].sock
    BY <2>1 DEF OpenersInv
  <2> QED BY <2>1, <2>2, <2>4, <2>5
<1>7. ListenInv'
  <2> SUFFICES ASSUME listen \in Fds \ {0}
               PROVE fd'[listen] \in Sockets /\ sock'[fd'[listen]].st = "listening"
    BY DEF ListenInv, Listening, serverVars
  <2>1. fd[listen] \in Sockets /\ sock[fd[listen]].st = "listening"
    BY DEF ListenInv, Listening
  <2>2. listen \notin D /\ fd[listen] \notin closed
    BY <2>1, <1>3
  <2> QED BY <2>1, <2>2, <1>1, <1>2
<1>8. TableInv'
  <2>1. ASSUME NEW d \in Fds, fd'[d] # None
        PROVE  fd'[d] = fd[d] /\ d \notin D /\ sock'[fd[d]].st \notin {"none", "closed"}
    <3>1. d \notin D /\ fd'[d] = fd[d] /\ fd[d] \in Sockets
      BY <2>1, <1>1 DEF TypeOK, None
    <3>2. fd[d] \notin closed
      BY <2>1, <3>1, <1>3 DEF TableInv
    <3> QED BY <2>1, <3>1, <3>2, <1>2 DEF TableInv
  <2> QED BY <2>1 DEF TableInv
<1> QED BY <1>4, <1>5, <1>6, <1>7, <1>8

(* The updates of a client's members keep their types ...                    *)
LEMMA ClientUpdates ==
  ASSUME NEW r \in ClientType, NEW dest \in AllDests, NEW d \in Fds \cup {NoFd},
         NEW call \in {"none", "connect", "connectAndWait", "wait", "waitAgain"},
         NEW s \in Sockets \cup {None}, NEW res \in {"NET_OK", "NET_ERROR", "NET_TIMEOUT"}
  PROVE  /\ [r EXCEPT !.at = "lookup", !.call = call, !.sock = NoFd, !.to = dest] \in ClientType
         /\ [r EXCEPT !.at = "idle", !.call = "none", !.res = res, !.pres = s] \in ClientType
         /\ [r EXCEPT !.at = "open", !.sock = d] \in ClientType
         /\ [r EXCEPT !.at = "select", !.call = "wait"] \in ClientType
         /\ [r EXCEPT !.at = "select", !.to = "server", !.pres = s] \in ClientType
         /\ [r EXCEPT !.call = "waitAgain"] \in ClientType
<1>1. [r EXCEPT !.at = "lookup", !.call = call, !.sock = NoFd, !.to = dest] \in ClientType
  BY DEF ClientType
<1>2. [r EXCEPT !.at = "idle", !.call = "none", !.res = res, !.pres = s] \in ClientType
  BY DEF ClientType
<1>3. [r EXCEPT !.at = "open", !.sock = d] \in ClientType
  BY DEF ClientType
<1>4. [r EXCEPT !.at = "select", !.call = "wait"] \in ClientType
  BY DEF ClientType
<1>5. [r EXCEPT !.at = "select", !.to = "server", !.pres = s] \in ClientType
  BY DEF ClientType, AllDests
<1>6. [r EXCEPT !.call = "waitAgain"] \in ClientType
  BY DEF ClientType
<1> QED BY <1>1, <1>2, <1>3, <1>4, <1>5, <1>6

LEMMA ReturnsType ==
  ASSUME TypeOK, NEW c \in Clients, NEW res \in {"NET_OK", "NET_ERROR", "NET_TIMEOUT"},
         NEW pres \in Sockets \cup {None}, Returns(c, res, pres)
  PROVE  client' \in [Clients -> ClientType]
<1>1. client[c] \in ClientType /\ client \in [Clients -> ClientType]
  BY DEF TypeOK
<1>2. [client[c] EXCEPT !.at = "idle", !.call = "none", !.res = res, !.pres = pres]
        \in ClientType
  BY <1>1 DEF ClientType
<1> QED BY <1>1, <1>2 DEF Returns

(* ... and so do those of a socket.                                          *)
LEMMA SocketUpdates ==
  ASSUME NEW r \in SocketType, NEW from \in Sockets,
         NEW st \in {"new", "connecting", "connected", "failed", "listening"}
  PROVE  /\ [r EXCEPT !.st = st] \in SocketType
         /\ [r EXCEPT !.err = FALSE] \in SocketType
         /\ [r EXCEPT !.st = "failed", !.err = TRUE] \in SocketType
         /\ [r EXCEPT !.st = "accepted", !.from = from] \in SocketType
<1>1. [r EXCEPT !.st = st] \in SocketType
  BY DEF SocketType
<1>2. [r EXCEPT !.err = FALSE] \in SocketType
  BY DEF SocketType
<1>3. [r EXCEPT !.st = "failed", !.err = TRUE] \in SocketType
  BY DEF SocketType
<1>4. [r EXCEPT !.st = "accepted", !.from = from] \in SocketType
  BY DEF SocketType
<1> QED BY <1>1, <1>2, <1>3, <1>4

(* Connecting the socket that was opened: the client's old one goes, and no   *)
(* other.                                                                    *)
LEMMA StartType ==
  ASSUME IInv, NEW c \in Clients, StartConnect(c) PROVE TypeOK'
<1> DEFINE s == Selected(c)
           refs == [Without(c) EXCEPT ![s] = {c}]
<1> USE DEF IInv
<1>1. s \in Sockets /\ client[c].sock \in Fds /\ sock[s].st = "new"
  BY DEF StartConnect, OpenersInv, Selected, TypeOK
<1>2. Without(c) \in [Sockets -> SUBSET (Clients \cup {"app"})]
  BY DEF Without, TypeOK
<1>3. refs \in [Sockets -> SUBSET (Clients \cup {"app"})]
  BY <1>1, <1>2
<1>4. CASE \E st \in {"failed", "connecting"} :
             /\ holds' = refs
             /\ pfd' = [p \in Sockets |-> IF p = s THEN client[c].sock
                                         ELSE IF refs[p] = {} THEN NoFd ELSE pfd[p]]
             /\ Closes(ClosedBy(refs), [sock EXCEPT ![s].st = st])
             /\ client' = [client EXCEPT ![c] = [@ EXCEPT !.at = "select",
                                             !.to = "server", !.pres = s]]
  <2>1. PICK st \in {"failed", "connecting"} :
          Closes(ClosedBy(refs), [sock EXCEPT ![s].st = st])
    BY <1>4
  <2>2. [sock EXCEPT ![s].st = st] \in [Sockets -> SocketType]
    BY <1>1 DEF TypeOK, SocketType
  <2>3. /\ fd' \in [Fds -> Sockets \cup {None}]
        /\ sock' \in [Sockets -> SocketType] /\ queue' \in Seq(Sockets)
    BY <2>1, <2>2, ClosesType
  <2>4. client' \in [Clients -> ClientType]
    <3>1. client[c] \in ClientType /\ client \in [Clients -> ClientType]
      BY DEF TypeOK
    <3>2. [client[c] EXCEPT !.at = "select", !.to = "server", !.pres = s] \in ClientType
      BY <1>1, <3>1 DEF ClientType, AllDests
    <3> QED BY <1>4, <3>1, <3>2
  <2>5. holds' \in [Sockets -> SUBSET (Clients \cup {"app"})]
        /\ pfd' \in [Sockets -> Fds \cup {NoFd}]
    BY <1>1, <1>3, <1>4 DEF TypeOK
  <2> QED BY <2>3, <2>4, <2>5 DEF TypeOK, StartConnect, serverVars
<1>5. CASE /\ holds' = Without(c)
           /\ pfd' = [p \in Sockets |-> IF Without(c)[p] = {} THEN NoFd ELSE pfd[p]]
           /\ Closes(ClosedBy(Without(c)) \cup {client[c].sock}, sock)
           /\ Returns(c, "NET_ERROR", None)
  <2>1. /\ fd' \in [Fds -> Sockets \cup {None}]
        /\ sock' \in [Sockets -> SocketType] /\ queue' \in Seq(Sockets)
    BY <1>5, ClosesType DEF TypeOK
  <2>2. client' \in [Clients -> ClientType]
    BY <1>5, ReturnsType
  <2> QED BY <1>2, <1>5, <2>1, <2>2 DEF TypeOK, StartConnect, serverVars
<1> QED BY <1>4, <1>5 DEF StartConnect, Selected

(* Any step keeps the types.                                                 *)
LEMMA TypeStep == IInv /\ [Next]_vars => TypeOK'
<1> SUFFICES ASSUME IInv, [Next]_vars PROVE TypeOK'
  OBVIOUS
<1> USE DEF TypeOK, IInv
<1>1. ASSUME NEW c \in Clients, NEW dest \in Dests,
             NEW call \in {"connect", "connectAndWait"}, Connect(c, dest, call)
      PROVE TypeOK'
  <2>1. client[c] \in ClientType /\ dest \in AllDests
    BY TcpAssumption
  <2>2. [client[c] EXCEPT !.at = "lookup", !.call = call, !.sock = NoFd, !.to = dest]
          \in ClientType
    BY <2>1, ClientUpdates
  <2>3. client' \in [Clients -> ClientType]
    BY <1>1, <2>2 DEF Connect
  <2> QED BY <1>1, <2>3 DEF Connect, tableVars, ownerVars, serverVars
<1>2. ASSUME NEW c \in Clients, NoSocket(c) PROVE TypeOK'
  <2>1. client[c].pres \in Sockets \cup {None}
    BY DEF ClientType
  <2>2. client' \in [Clients -> ClientType]
    BY <1>2, <2>1, ReturnsType DEF NoSocket
  <2> QED BY <1>2, <2>2 DEF NoSocket, tableVars, ownerVars, serverVars
<1>3. ASSUME NEW c \in Clients, OpenSocket(c) PROVE TypeOK'
  <2>1. PICK d \in Free, s \in Unused :
          /\ fd' = [fd EXCEPT ![d] = s] /\ sock' = [sock EXCEPT ![s].st = "new"]
          /\ client' = [client EXCEPT ![c] = [@ EXCEPT !.at = "open", !.sock = d]]
    BY <1>3 DEF OpenSocket, Opens
  <2>2. d \in Fds /\ s \in Sockets
    BY DEF Free, Unused
  <2>3. [client[c] EXCEPT !.at = "open", !.sock = d] \in ClientType
    <3>1. client[c] \in ClientType
      OBVIOUS
    <3> QED BY <2>2, <3>1 DEF ClientType
  <2>4. client' \in [Clients -> ClientType]
    BY <2>1, <2>3
  <2>5. sock' \in [Sockets -> SocketType]
    BY <2>1, <2>2 DEF SocketType
  <2> QED BY <1>3, <2>1, <2>2, <2>4, <2>5 DEF OpenSocket, ownerVars, serverVars
<1>4. ASSUME NEW c \in Clients, StartConnect(c) PROVE TypeOK'
  BY <1>4, StartType
<1>5. ASSUME NEW c \in Clients, Succeeds(c) PROVE TypeOK'
  <2>1. client[c].pres \in Sockets \cup {None}
    BY DEF ClientType
  <2>2. client' \in [Clients -> ClientType]
    BY <1>5, <2>1, ReturnsType DEF Succeeds
  <2> QED BY <1>5, <2>2 DEF Succeeds, tableVars, ownerVars, serverVars
<1>6. ASSUME NEW c \in Clients, Fails(c) PROVE TypeOK'
  <2>1. CASE InConnect(c)
    <3>1. Without(c) \in [Sockets -> SUBSET (Clients \cup {"app"})]
      BY DEF Without
    <3>2. Releases(Without(c))
      BY <1>6, <2>1 DEF Fails
    <3>3. client' \in [Clients -> ClientType]
      BY <1>6, <2>1, ReturnsType DEF Fails
    <3> QED BY <3>1, <3>2, <3>3, ReleasesType, <1>6 DEF Fails, serverVars
  <2>2. CASE ~InConnect(c)
    <3>1. sock' \in [Sockets -> SocketType]
      <4>1. \A x \in Sockets : [sock[x] EXCEPT !.err = FALSE] \in SocketType
        BY SocketUpdates
      <4> QED BY <1>6, <2>2, <4>1 DEF Fails
    <3>2. client[c].pres \in Sockets \cup {None}
      BY DEF ClientType
    <3>3. client' \in [Clients -> ClientType]
      BY <1>6, <2>2, <3>2, ReturnsType DEF Fails
    <3> QED BY <3>1, <3>3, <1>6, <2>2 DEF Fails, ownerVars, serverVars
  <2> QED BY <2>1, <2>2
<1>7. ASSUME NEW c \in Clients, TimesOut(c) PROVE TypeOK'
  <2>1. client[c].pres \in Sockets \cup {None}
    BY DEF ClientType
  <2>2. [client[c] EXCEPT !.call = "waitAgain"] \in ClientType
    <3>1. client[c] \in ClientType
      OBVIOUS
    <3> QED BY <3>1 DEF ClientType
  <2>3. client' = [client EXCEPT ![c].call = "waitAgain"]
          => client' \in [Clients -> ClientType]
    BY <2>2
  <2>4. client' \in [Clients -> ClientType]
    BY <1>7, <2>1, <2>3, ReturnsType DEF TimesOut
  <2> QED BY <1>7, <2>4 DEF TimesOut, tableVars, ownerVars, serverVars
<1>8. ASSUME NEW c \in Clients, WaitConnect(c) PROVE TypeOK'
  <2>1. [client[c] EXCEPT !.at = "select", !.call = "wait"] \in ClientType
    <3>1. client[c] \in ClientType
      OBVIOUS
    <3> QED BY <3>1 DEF ClientType
  <2>2. client' \in [Clients -> ClientType]
    BY <1>8, <2>1 DEF WaitConnect
  <2> QED BY <1>8, <2>2 DEF WaitConnect, tableVars, ownerVars, serverVars
<1>9. ASSUME NEW c \in Clients, GetStream(c) PROVE TypeOK'
  BY <1>9 DEF GetStream, tableVars, serverVars
<1>10. ASSUME NEW c \in Clients, DeleteClient(c) PROVE TypeOK'
  <2>1. Without(c) \in [Sockets -> SUBSET (Clients \cup {"app"})]
    BY DEF Without
  <2>2. NewClient \in ClientType
    BY DEF NewClient, ClientType, AllDests, NoFd, None
  <2> QED BY <2>1, <2>2, <1>10, ReleasesType DEF DeleteClient, serverVars
<1>11. ASSUME NEW s \in Sockets, DropStream(s) PROVE TypeOK'
  <2>1. [holds EXCEPT ![s] = @ \ {"app"}] \in [Sockets -> SUBSET (Clients \cup {"app"})]
    OBVIOUS
  <2> QED BY <2>1, <1>11, ReleasesType DEF DropStream, serverVars
<1>12. ASSUME NEW s \in Sockets, Answers(s) PROVE TypeOK'
  <2>1. Append(queue, s) \in Seq(Sockets)
    OBVIOUS
  <2> QED BY <2>1, <1>12 DEF Answers, SocketType, ownerVars, serverVars
<1>13. ASSUME NEW s \in Sockets, Refuses(s) PROVE TypeOK'
  BY <1>13 DEF Refuses, SocketType, ownerVars, serverVars
<1>14. CASE Initialize
  <2>1. CASE listen' \in {NoFd, 0} /\ UNCHANGED <<fd, sock, initialized>>
    <3>1. UNCHANGED <<queue, ownerVars, client, accepting>>
      BY <1>14 DEF Initialize
    <3> QED BY <2>1, <3>1 DEF ownerVars
  <2>2. ASSUME NEW d \in Free, NEW s \in Unused, NEW st \in {"listening", "new"},
               Opens(d, s, st), listen' = d, initialized' = (initialized \/ d > 0)
        PROVE TypeOK'
    <3>1. UNCHANGED <<queue, ownerVars, client, accepting>>
      BY <1>14 DEF Initialize
    <3>2. d \in Fds /\ s \in Sockets
      BY DEF Free, Unused
    <3>3. fd' = [fd EXCEPT ![d] = s] /\ sock' = [sock EXCEPT ![s].st = st]
      BY <2>2 DEF Opens
    <3>4. [sock[s] EXCEPT !.st = st] \in SocketType
      BY <3>2 DEF SocketType
    <3>5. sock' \in [Sockets -> SocketType]
      BY <3>3, <3>4
    <3> QED BY <2>2, <3>1, <3>2, <3>3, <3>5 DEF ownerVars
  <2> QED BY <1>14, <2>1, <2>2 DEF Initialize
<1>15. CASE Select
  BY <1>15 DEF Select, tableVars, ownerVars
<1>16. CASE Accept
  <2>1. Head(queue) \in Sockets /\ Tail(queue) \in Seq(Sockets)
    <3>1. queue # <<>>
      BY <1>16 DEF Accept
    <3> QED BY <3>1
  <2>2. CASE UNCHANGED <<tableVars, ownerVars>>
    BY <1>16, <2>2 DEF Accept, tableVars, ownerVars
  <2>3. CASE ~UNCHANGED <<tableVars, ownerVars>>
    <3>1. PICK d \in Free, s \in Unused, ok \in {TRUE, "nofcntl" \notin Habits} :
            /\ fd' = [fd EXCEPT ![d] = s]
            /\ sock' = [sock EXCEPT ![s] = [@ EXCEPT !.st = "accepted", !.from = Head(queue)]]
            /\ queue' = Tail(queue)
            /\ IF Presents(d, ok)
               THEN /\ pfd' = [pfd EXCEPT ![s] = d]
                    /\ holds' = [holds EXCEPT ![s] = {"app"}]
               ELSE UNCHANGED ownerVars
      BY <1>16, <2>3 DEF Accept
    <3>2. d \in Fds /\ s \in Sockets
      BY DEF Free, Unused
    <3>3. [sock[s] EXCEPT !.st = "accepted", !.from = Head(queue)] \in SocketType
      <4>1. sock[s] \in SocketType
        BY <3>2
      <4> QED BY <2>1, <4>1 DEF SocketType
    <3>4. sock' \in [Sockets -> SocketType]
      BY <3>1, <3>3
    <3>5. /\ holds' \in [Sockets -> SUBSET (Clients \cup {"app"})]
          /\ pfd' \in [Sockets -> Fds \cup {NoFd}]
      BY <3>1, <3>2 DEF ownerVars
    <3>6. UNCHANGED <<client, listen, initialized>> /\ accepting' = FALSE
      BY <1>16 DEF Accept
    <3> QED BY <2>1, <3>1, <3>2, <3>4, <3>5, <3>6
  <2> QED BY <2>2, <2>3
<1>17. CASE DeleteServer
  <2>1. /\ fd' \in [Fds -> Sockets \cup {None}]
        /\ sock' \in [Sockets -> SocketType] /\ queue' \in Seq(Sockets)
    BY <1>17, ClosesType DEF DeleteServer
  <2> QED BY <2>1, <1>17 DEF DeleteServer, ownerVars
<1>18. CASE Aborts
  BY <1>18 DEF Aborts, ownerVars, serverVars
<1>19. CASE UNCHANGED vars
  BY <1>19 DEF vars, tableVars, ownerVars, serverVars
<1> QED BY <1>1, <1>2, <1>3, <1>4, <1>5, <1>6, <1>7, <1>8, <1>9, <1>10, <1>11,
           <1>12, <1>13, <1>14, <1>15, <1>16, <1>17, <1>18, <1>19
        DEF Next, Client, InCall, Server, System

(* connect_to_host lets go of its old socket and keeps the new one.          *)
LEMMA StartKeeps ==
  ASSUME IInv, NEW c \in Clients, StartConnect(c) PROVE IInv'
<1> DEFINE d0 == client[c].sock
           s0 == Selected(c)
           new == [Without(c) EXCEPT ![s0] = {c}]
<1> USE DEF IInv
<1>1. TypeOK'
  BY StartType
<1>2. /\ s0 \in Sockets /\ d0 \in Fds /\ fd[d0] = s0 /\ sock[s0].st = "new"
      /\ holds[s0] = {} /\ client[c].at = "open"
  BY DEF StartConnect, OpenersInv, Selected, TypeOK
<1>3. \A s \in Sockets : holds[s] # {} =>
        /\ pfd[s] \in Fds /\ fd[pfd[s]] = s /\ s # s0
        /\ sock[s].st \notin {"none", "new", "listening", "closed"}
  BY <1>2 DEF PresentersInv
<1>4. PICK refs \in {new, Without(c)},
           D \in {ClosedBy(new), ClosedBy(Without(c)) \cup {d0}},
           socks \in {sock} \cup {[sock EXCEPT ![s0].st = st] : st \in {"failed", "connecting"}} :
        /\ holds' = refs /\ Closes(D, socks)
        /\ pfd' = [s \in Sockets |-> IF s = s0 /\ refs = new THEN d0
                                    ELSE IF refs[s] = {} THEN NoFd ELSE pfd[s]]
        /\ IF refs = new
           THEN /\ D = ClosedBy(refs)
                /\ \E st \in {"failed", "connecting"} : socks = [sock EXCEPT ![s0].st = st]
           ELSE D = ClosedBy(refs) \cup {d0} /\ socks = sock
        /\ \A e \in Clients : client'[e].at = "open" => e # c /\ client'[e] = client[e]
  <2>1. s0 = fd[d0] /\ new[s0] # Without(c)[s0] /\ new # Without(c)
    BY <1>2 DEF Selected, Without
  <2>2. Without(c) = [s \in Sockets |-> holds[s] \ {c}]
    BY DEF Without
  <2>3. CASE /\ holds' = new
             /\ pfd' = [s \in Sockets |-> IF s = s0 THEN d0
                                         ELSE IF new[s] = {} THEN NoFd ELSE pfd[s]]
             /\ \E st \in {"failed", "connecting"} :
                  Closes(ClosedBy(new), [sock EXCEPT ![s0].st = st])
             /\ client' = [client EXCEPT ![c] = [@ EXCEPT !.at = "select",
                                             !.to = "server", !.pres = s0]]
    <3>1. [client[c] EXCEPT !.at = "select", !.to = "server", !.pres = s0].at = "select"
      <4>1. client[c] \in ClientType
        BY DEF TypeOK
      <4> QED BY <4>1 DEF ClientType
    <3>2. /\ client'[c].at = "select"
          /\ \A e \in Clients : e # c => client'[e] = client[e]
      BY <2>3, <3>1 DEF TypeOK
    <3> QED BY <2>3, <3>2
  <2>4. CASE /\ holds' = Without(c)
             /\ pfd' = [s \in Sockets |-> IF Without(c)[s] = {} THEN NoFd ELSE pfd[s]]
             /\ Closes(ClosedBy(Without(c)) \cup {d0}, sock)
             /\ Returns(c, "NET_ERROR", None)
    <3>1. [client[c] EXCEPT !.at = "idle", !.call = "none", !.res = "NET_ERROR",
                            !.pres = None].at = "idle"
      <4>1. client[c] \in ClientType
        BY DEF TypeOK
      <4> QED BY <4>1 DEF ClientType
    <3>2. /\ client'[c].at = "idle"
          /\ \A e \in Clients : e # c => client'[e] = client[e]
      BY <2>4, <3>1 DEF TypeOK, Returns
    <3> QED BY <2>1, <2>4, <3>2
  <2>5. \A st : st = (IF client[c].to = "noroute" THEN "failed" ELSE "connecting")
                 => st \in {"failed", "connecting"}
    OBVIOUS
  <2> QED BY <2>3, <2>4, <2>5 DEF StartConnect, Selected
<1> DEFINE closed == {fd[d] : d \in D}
<1>5. socks \in [Sockets -> SocketType]
      /\ \A s \in Sockets : IF s = s0 /\ refs = new
                            THEN socks[s].st \in {"failed", "connecting"}
                            ELSE socks[s] = sock[s]
  <2>1. CASE refs = new
    <3>1. PICK st \in {"failed", "connecting"} : socks = [sock EXCEPT ![s0].st = st]
      BY <1>4, <2>1
    <3>2. sock[s0] \in SocketType
      BY <1>2 DEF TypeOK
    <3>3. [sock[s0] EXCEPT !.st = st] \in SocketType
          /\ [sock[s0] EXCEPT !.st = st].st = st
      BY <3>2 DEF SocketType
    <3>4. socks = [sock EXCEPT ![s0] = [sock[s0] EXCEPT !.st = st]]
      BY <3>1
    <3>5. socks \in [Sockets -> SocketType]
      BY <3>3, <3>4 DEF TypeOK
    <3>6. socks[s0].st = st /\ \A s \in Sockets : s # s0 => socks[s] = sock[s]
      BY <1>2, <3>3, <3>4 DEF TypeOK
    <3> QED BY <2>1, <3>5, <3>6
  <2>2. CASE refs # new
    BY <1>4, <2>2 DEF TypeOK
  <2> QED BY <2>1, <2>2
<1>6. \A s \in Sockets : IF s \in closed THEN sock'[s].st = "closed"
         ELSE \/ sock'[s].st = socks[s].st
              \/ socks[s].st = "connected" /\ sock'[s].st = "ended"
  BY <1>4, <1>5, ClosesMeans
<1>7. \A s \in Sockets : s # s0 => refs[s] = holds[s] \ {c}
  BY <1>4 DEF Without
<1>8. \A d \in D :
        /\ d \in Fds /\ fd[d] \in Sockets /\ sock[fd[d]].st \notin {"none", "listening"}
        /\ \/ d = d0 /\ refs # new
           \/ d # d0 /\ fd[d] # s0 /\ refs[fd[d]] = {} /\ sock[fd[d]].st # "new"
  <2> SUFFICES ASSUME NEW d \in D
               PROVE /\ d \in Fds /\ fd[d] \in Sockets
                     /\ sock[fd[d]].st \notin {"none", "listening"}
                     /\ \/ d = d0 /\ refs # new
                        \/ d # d0 /\ fd[d] # s0 /\ refs[fd[d]] = {} /\ sock[fd[d]].st # "new"
    OBVIOUS
  <2>1. CASE d \in ClosedBy(refs)
    <3>1. PICK p \in Sockets : d = pfd[p] /\ holds[p] # {} /\ refs[p] = {}
      BY <2>1 DEF ClosedBy
    <3>2. d \in Fds /\ fd[d] = p /\ p # s0
          /\ sock[p].st \notin {"none", "new", "listening", "closed"}
      BY <3>1, <1>3
    <3> QED BY <3>1, <3>2, <1>2
  <2>2. CASE d \notin ClosedBy(refs)
    <3>1. refs # new /\ d = d0
      BY <2>2, <1>4
    <3> QED BY <3>1, <1>2
  <2> QED BY <2>1, <2>2
<1>9. PresentersInv'
  <2> SUFFICES ASSUME NEW s \in Sockets
               PROVE IF refs[s] = {} THEN pfd'[s] = NoFd
                     ELSE /\ pfd'[s] \in Fds /\ fd'[pfd'[s]] = s
                          /\ sock'[s].st \notin {"none", "new", "listening", "closed"}
    BY <1>4 DEF PresentersInv
  <2>1. CASE s = s0
    <3>1. CASE refs = new
      <4>1. refs[s] # {} /\ pfd'[s] = d0
        BY <2>1, <3>1, <1>2, <1>4 DEF Without
      <4>2. d0 \notin D /\ s \notin closed
        BY <2>1, <3>1, <1>8
      <4>3. fd'[d0] = s
        BY <4>2, <2>1, <1>2, <1>4 DEF Closes
      <4> QED BY <4>1, <4>2, <4>3, <2>1, <3>1, <1>2, <1>5, <1>6
    <3>2. CASE refs # new
      <4>1. refs[s] = {}
        BY <3>2, <2>1, <1>2, <1>4 DEF Without
      <4> QED BY <4>1, <3>2, <1>4
    <3> QED BY <3>1, <3>2
  <2>2. CASE s # s0 /\ refs[s] = {}
    BY <2>2, <1>4
  <2>3. CASE s # s0 /\ refs[s] # {}
    <3>1. holds[s] # {} /\ pfd'[s] = pfd[s]
      BY <2>3, <1>4, <1>7
    <3>2. pfd[s] \notin D /\ s \notin closed
      BY <3>1, <2>3, <1>2, <1>3, <1>8
    <3>3. fd'[pfd[s]] = s
      BY <3>1, <3>2, <1>3, <1>4 DEF Closes
    <3> QED BY <2>3, <3>1, <3>2, <3>3, <1>3, <1>5, <1>6
  <2> QED BY <2>1, <2>2, <2>3
<1>10. OpenersInv'
  <2> SUFFICES ASSUME NEW e \in Clients, client'[e].at = "open"
               PROVE  /\ client'[e].sock \in Fds /\ fd'[client'[e].sock] # None
                      /\ holds'[fd'[client'[e].sock]] = {}
                      /\ sock'[fd'[client'[e].sock]].st = "new"
                      /\ \A f \in Clients \ {e} :
                           client'[f].at = "open" => client'[f].sock # client'[e].sock
    BY DEF OpenersInv, Selected
  <2> DEFINE d == client[e].sock
  <2>1. e # c /\ client'[e] = client[e]
    BY <1>4
  <2>2. /\ d \in Fds /\ fd[d] \in Sockets /\ holds[fd[d]] = {} /\ sock[fd[d]].st = "new"
        /\ d # d0
    BY <2>1, <1>2 DEF OpenersInv, Selected, TypeOK
  <2>3. d \notin D /\ fd[d] # s0 /\ fd[d] \notin closed
    BY <2>2, <1>2, <1>8 DEF TableInv, None, Sockets
  <2>4. fd'[d] = fd[d] /\ sock'[fd[d]].st = "new" /\ holds'[fd[d]] = {}
    <3>1. fd'[d] = fd[d]
      BY <2>2, <2>3, <1>4 DEF Closes
    <3>2. holds'[fd[d]] = {}
      BY <2>2, <2>3, <1>4, <1>7
    <3>3. socks[fd[d]] = sock[fd[d]]
      BY <2>2, <2>3, <1>5
    <3> QED BY <2>2, <2>3, <3>1, <3>2, <3>3, <1>6
  <2>5. \A f \in Clients \ {e} :
          client'[f].at = "open" => client'[f].sock # client'[e].sock
    BY <2>1, <1>4 DEF OpenersInv
  <2> QED BY <2>1, <2>2, <2>4, <2>5 DEF None, Sockets
<1>11. ListenInv'
  <2> SUFFICES ASSUME listen \in Fds \ {0}
               PROVE fd'[listen] \in Sockets /\ sock'[fd'[listen]].st = "listening"
    BY DEF ListenInv, Listening, StartConnect, serverVars
  <2>1. fd[listen] \in Sockets /\ sock[fd[listen]].st = "listening"
    BY DEF ListenInv, Listening
  <2>2. listen \notin D /\ fd[listen] \notin closed /\ fd[listen] # s0
    BY <2>1, <1>2, <1>8
  <2> QED BY <2>1, <2>2, <1>4, <1>5, <1>6 DEF Closes
<1>12. TableInv'
  <2>1. ASSUME NEW d \in Fds, fd'[d] # None
        PROVE  fd'[d] = fd[d] /\ d \notin D /\ sock'[fd[d]].st \notin {"none", "closed"}
    <3>1. d \notin D /\ fd'[d] = fd[d] /\ fd[d] \in Sockets
      BY <2>1, <1>4 DEF TypeOK, None, Closes
    <3>2. fd[d] \notin closed
      BY <2>1, <3>1, <1>8 DEF TableInv
    <3> QED BY <2>1, <3>1, <3>2, <1>5, <1>6 DEF TableInv
  <2> QED BY <2>1 DEF TableInv
<1> QED BY <1>1, <1>9, <1>10, <1>11, <1>12

(* Steps that leave table, presenters and listener alone, and a socket in    *)
(* its stage or the next one, keep the invariant.                            *)
LEMMA QuietKeeps ==
  ASSUME IInv, TypeOK', UNCHANGED <<fd, pfd, listen>>,
         \A s \in Sockets : holds'[s] = {} <=> holds[s] = {},
         \A s \in Sockets : \/ sock'[s].st = sock[s].st
                           \/ /\ sock[s].st = "connecting"
                              /\ sock'[s].st \in {"connected", "failed"},
         \A c \in Clients : client'[c].at = "open" =>
           client[c].at = "open" /\ client'[c].sock = client[c].sock
  PROVE  IInv'
<1> USE DEF IInv
<1>1. PresentersInv'
  BY DEF PresentersInv
<1>2. OpenersInv'
  <2> SUFFICES ASSUME NEW c \in Clients, client'[c].at = "open"
               PROVE  /\ client'[c].sock \in Fds /\ fd[client'[c].sock] # None
                      /\ holds'[fd[client'[c].sock]] = {}
                      /\ sock'[fd[client'[c].sock]].st = "new"
                      /\ \A e \in Clients \ {c} :
                           client'[e].at = "open" => client'[e].sock # client'[c].sock
    BY DEF OpenersInv, Selected
  <2>1. client[c].at = "open" /\ client'[c].sock = client[c].sock
    OBVIOUS
  <2>2. /\ client[c].sock \in Fds /\ Selected(c) # None /\ Selected(c) \in Sockets
        /\ holds[Selected(c)] = {} /\ sock[Selected(c)].st = "new"
    BY <2>1 DEF OpenersInv, Selected, TypeOK
  <2>3. \A e \in Clients \ {c} :
          client'[e].at = "open" => client'[e].sock # client'[c].sock
    BY <2>1 DEF OpenersInv
  <2> QED BY <2>1, <2>2, <2>3 DEF Selected
<1>3. ListenInv'
  BY DEF ListenInv, Listening
<1>4. TableInv'
  <2>1. \A d \in Fds : fd[d] # None => fd[d] \in Sockets
    BY DEF TypeOK
  <2> QED BY <2>1 DEF TableInv
<1> QED BY <1>1, <1>2, <1>3, <1>4

(* A socket that is made gets a descriptor nobody has.                       *)
LEMMA Fresh ==
  ASSUME IInv, NEW d \in Free, NEW s \in Unused
  PROVE  /\ d \in Fds /\ s \in Sockets /\ fd[d] = None /\ holds[s] = {}
         /\ \A e \in Fds : fd[e] # s
         /\ \A p \in Sockets : pfd[p] # d
         /\ \A c \in Clients : client[c].at = "open" => client[c].sock # d
         /\ listen \in Fds \ {0} => listen # d
<1>1. d \in Fds /\ fd[d] = None /\ s \in Sockets /\ sock[s].st = "none"
  BY DEF Free, Unused
<1>2. s # None /\ None \notin Sockets
  BY <1>1 DEF Sockets, None
<1>3. holds[s] = {}
  BY <1>1 DEF IInv, PresentersInv
<1>4. \A e \in Fds : fd[e] # s
  BY <1>1, <1>2 DEF IInv, TableInv
<1>5. \A p \in Sockets : pfd[p] # d
  <2> SUFFICES ASSUME NEW p \in Sockets, pfd[p] = d PROVE FALSE
    OBVIOUS
  <2>1. d # NoFd
    BY <1>1, TcpAssumption DEF NoFd
  <2> QED BY <1>1, <1>2, <2>1 DEF IInv, PresentersInv
<1>6. \A c \in Clients : client[c].at = "open" => client[c].sock # d
  BY <1>1 DEF IInv, OpenersInv, Selected
<1>7. listen \in Fds \ {0} => listen # d
  BY <1>1, <1>2 DEF IInv, ListenInv, Listening
<1> QED BY <1>1, <1>3, <1>4, <1>5, <1>6, <1>7

(* A server's new socket, to listen on or accepted, keeps the invariant.     *)
LEMMA FreshKeeps ==
  ASSUME IInv, TypeOK', NEW d \in Free, NEW s \in Unused,
         fd' = [fd EXCEPT ![d] = s], UNCHANGED client,
         sock'[s].st \notin {"none", "closed"},
         \A p \in Sockets : p # s => sock'[p] = sock[p],
         \/ UNCHANGED ownerVars
         \/ /\ pfd' = [pfd EXCEPT ![s] = d] /\ holds' = [holds EXCEPT ![s] = {"app"}]
            /\ sock'[s].st = "accepted",
         listen' = listen \/ (listen' = d /\ (d # 0 => sock'[s].st = "listening"))
  PROVE  IInv'
<1>1. /\ d \in Fds /\ s \in Sockets /\ fd[d] = None /\ holds[s] = {}
      /\ \A e \in Fds : fd[e] # s
      /\ \A p \in Sockets : pfd[p] # d
      /\ \A e \in Clients : client[e].at = "open" => client[e].sock # d
      /\ listen \in Fds \ {0} => listen # d
  BY Fresh
<1>2. fd'[d] = s /\ \A e \in Fds : e # d => fd'[e] = fd[e]
  BY <1>1 DEF IInv, TypeOK
<1>3. \A p \in Sockets : p # s => pfd'[p] = pfd[p] /\ holds'[p] = holds[p]
  BY <1>1 DEF IInv, TypeOK, ownerVars
<1>4. \/ holds'[s] = {} /\ pfd'[s] = pfd[s]
      \/ holds'[s] # {} /\ pfd'[s] = d /\ sock'[s].st = "accepted"
  <2>1. CASE UNCHANGED ownerVars
    BY <2>1, <1>1 DEF ownerVars
  <2>2. CASE /\ pfd' = [pfd EXCEPT ![s] = d] /\ holds' = [holds EXCEPT ![s] = {"app"}]
             /\ sock'[s].st = "accepted"
    <3>1. holds'[s] = {"app"} /\ pfd'[s] = d
      BY <2>2, <1>1 DEF IInv, TypeOK
    <3>2. {"app"} # {}
      OBVIOUS
    <3> QED BY <2>2, <3>1, <3>2
  <2> QED BY <2>1, <2>2
<1>5. PresentersInv'
  <2> SUFFICES ASSUME NEW p \in Sockets
               PROVE IF holds'[p] = {} THEN pfd'[p] = NoFd
                     ELSE /\ pfd'[p] \in Fds /\ fd'[pfd'[p]] = p
                          /\ sock'[p].st \notin {"none", "new", "listening", "closed"}
    BY DEF PresentersInv
  <2>1. CASE p = s
    <3>1. pfd[s] = NoFd
      BY <1>1 DEF IInv, PresentersInv
    <3> QED BY <2>1, <3>1, <1>1, <1>2, <1>4
  <2>2. CASE p # s
    BY <2>2, <1>1, <1>2, <1>3 DEF IInv, PresentersInv
  <2> QED BY <2>1, <2>2
<1>6. OpenersInv'
  <2>1. \A e \in Clients : client[e].at = "open" =>
          /\ client[e].sock \in Fds /\ fd'[client[e].sock] # None
          /\ holds'[fd'[client[e].sock]] = {} /\ sock'[fd'[client[e].sock]].st = "new"
    <3> SUFFICES ASSUME NEW e \in Clients, client[e].at = "open"
                 PROVE /\ client[e].sock \in Fds /\ fd'[client[e].sock] # None
                       /\ holds'[fd'[client[e].sock]] = {}
                       /\ sock'[fd'[client[e].sock]].st = "new"
      OBVIOUS
    <3>1. /\ client[e].sock \in Fds /\ fd[client[e].sock] # None
          /\ holds[fd[client[e].sock]] = {} /\ sock[fd[client[e].sock]].st = "new"
      BY DEF IInv, OpenersInv, Selected
    <3>2. /\ client[e].sock # d /\ fd[client[e].sock] # s
          /\ fd[client[e].sock] \in Sockets
      BY <1>1, <3>1 DEF IInv, TypeOK
    <3> QED BY <1>2, <1>3, <3>1, <3>2
  <2>2. \A e \in Clients : client[e].at = "open" =>
          \A f \in Clients \ {e} : client[f].at = "open" => client[f].sock # client[e].sock
    BY DEF IInv, OpenersInv
  <2> QED BY <2>1, <2>2 DEF OpenersInv, Selected
<1>7. ListenInv'
  BY <1>1, <1>2 DEF IInv, ListenInv, Listening
<1>8. TableInv'
  <2>1. \A e \in Fds : fd[e] # None => fd[e] \in Sockets
    BY DEF IInv, TypeOK
  <2> QED BY <1>1, <1>2, <2>1 DEF IInv, TableInv
<1> QED BY <1>5, <1>6, <1>7, <1>8 DEF IInv

(* Every step keeps the invariant.                                           *)
LEMMA Step == IInv /\ RefsInv /\ [Next]_vars => IInv'
<1> SUFFICES ASSUME IInv, RefsInv, [Next]_vars PROVE IInv'
  OBVIOUS
<1>0. TypeOK' /\ TypeOK
  BY TypeStep DEF IInv
<1>1. ASSUME NEW c \in Clients, NEW dest \in Dests,
             NEW call \in {"connect", "connectAndWait"}, Connect(c, dest, call)
      PROVE IInv'
  <2>1. [client[c] EXCEPT !.at = "lookup", !.call = call, !.sock = NoFd,
                          !.to = dest].at = "lookup"
    <3>1. client[c] \in ClientType
      BY <1>0 DEF TypeOK
    <3> QED BY <3>1 DEF ClientType
  <2>2. \A e \in Clients : client'[e].at = "open" => client'[e] = client[e]
    BY <1>0, <1>1, <2>1 DEF Connect, TypeOK
  <2> QED BY <1>0, <1>1, <2>2, QuietKeeps DEF Connect, tableVars, ownerVars, serverVars
<1>2. ASSUME NEW c \in Clients, NEW res, NEW pres, Returns(c, res, pres)
      PROVE  \A e \in Clients : client'[e].at = "open" => client'[e] = client[e]
  <2>1. [client[c] EXCEPT !.at = "idle", !.call = "none", !.res = res,
                          !.pres = pres].at = "idle"
    <3>1. client[c] \in ClientType
      BY <1>0 DEF TypeOK
    <3> QED BY <3>1 DEF ClientType
  <2> QED BY <1>0, <1>2, <2>1 DEF Returns, TypeOK
<1>3. ASSUME NEW c \in Clients, NoSocket(c) \/ Succeeds(c) PROVE IInv'
  <2>1. \A e \in Clients : client'[e].at = "open" => client'[e] = client[e]
    BY <1>2, <1>3 DEF NoSocket, Succeeds
  <2> QED BY <1>0, <1>3, <2>1, QuietKeeps
          DEF NoSocket, Succeeds, tableVars, ownerVars, serverVars
<1>4. ASSUME NEW c \in Clients, OpenSocket(c) PROVE IInv'
  <2>1. PICK d \in Free, s \in Unused :
          /\ fd' = [fd EXCEPT ![d] = s] /\ sock' = [sock EXCEPT ![s].st = "new"]
          /\ client' = [client EXCEPT ![c] = [@ EXCEPT !.at = "open", !.sock = d]]
    BY <1>4 DEF OpenSocket, Opens
  <2>2. /\ d \in Fds /\ s \in Sockets /\ fd[d] = None /\ holds[s] = {}
        /\ \A e \in Fds : fd[e] # s
        /\ \A p \in Sockets : pfd[p] # d
        /\ \A e \in Clients : client[e].at = "open" => client[e].sock # d
        /\ listen \in Fds \ {0} => listen # d
    BY Fresh
  <2>3. UNCHANGED <<holds, pfd, listen>>
    BY <1>4 DEF OpenSocket, ownerVars, serverVars
  <2>4. fd'[d] = s /\ \A e \in Fds : e # d => fd'[e] = fd[e]
    BY <1>0, <2>1, <2>2 DEF TypeOK
  <2>5. sock'[s].st = "new" /\ \A p \in Sockets : p # s => sock'[p] = sock[p]
    <3>1. sock[s] \in SocketType
      BY <1>0, <2>2 DEF TypeOK
    <3>2. [sock[s] EXCEPT !.st = "new"].st = "new"
      BY <3>1 DEF SocketType
    <3> QED BY <1>0, <2>1, <2>2, <3>2 DEF TypeOK
  <2>6. client'[c].sock = d /\ \A e \in Clients : e # c => client'[e] = client[e]
    <3>1. client[c] \in ClientType
      BY <1>0 DEF TypeOK
    <3>2. [client[c] EXCEPT !.at = "open", !.sock = d].sock = d
      BY <3>1 DEF ClientType
    <3> QED BY <1>0, <2>1, <3>2 DEF TypeOK
  <2>7. PresentersInv'
    BY <2>2, <2>3, <2>4, <2>5 DEF IInv, PresentersInv
  <2>8. OpenersInv'
    <3>1. None \notin Sockets
      BY DEF None, Sockets
    <3>2. \A e \in Clients : client'[e].at = "open" =>
            /\ client'[e].sock \in Fds /\ fd'[client'[e].sock] # None
            /\ holds'[fd'[client'[e].sock]] = {} /\ sock'[fd'[client'[e].sock]].st = "new"
      <4> SUFFICES ASSUME NEW e \in Clients, client'[e].at = "open"
                   PROVE /\ client'[e].sock \in Fds /\ fd'[client'[e].sock] # None
                         /\ holds'[fd'[client'[e].sock]] = {}
                         /\ sock'[fd'[client'[e].sock]].st = "new"
        OBVIOUS
      <4>1. CASE e = c
        BY <4>1, <3>1, <2>2, <2>3, <2>4, <2>5, <2>6
      <4>2. CASE e # c
        <5>1. client'[e] = client[e] /\ client[e].at = "open"
          BY <4>2, <2>6
        <5>2. /\ client[e].sock \in Fds /\ fd[client[e].sock] # None
              /\ holds[fd[client[e].sock]] = {} /\ sock[fd[client[e].sock]].st = "new"
          BY <5>1 DEF IInv, OpenersInv, Selected
        <5>3. client[e].sock # d /\ fd[client[e].sock] # s /\ fd[client[e].sock] \in Sockets
          BY <1>0, <2>2, <5>1, <5>2 DEF TypeOK
        <5> QED BY <2>3, <2>4, <2>5, <5>1, <5>2, <5>3
      <4> QED BY <4>1, <4>2
    <3>3. \A e, f \in Clients : client'[e].at = "open" /\ client'[f].at = "open" /\ e # f
            => client'[e].sock # client'[f].sock
      BY <2>2, <2>6 DEF IInv, OpenersInv
    <3> QED BY <3>2, <3>3 DEF OpenersInv, Selected
  <2>9. ListenInv'
    BY <2>2, <2>3, <2>4, <2>5 DEF IInv, ListenInv, Listening
  <2>10. TableInv'
    <3>1. \A e \in Fds : fd[e] # None => fd[e] \in Sockets
      BY <1>0 DEF TypeOK
    <3> QED BY <2>2, <2>4, <2>5, <3>1 DEF IInv, TableInv
  <2> QED BY <1>0, <2>7, <2>8, <2>9, <2>10 DEF IInv
<1>5. ASSUME NEW c \in Clients, StartConnect(c) PROVE IInv'
  BY <1>5, StartKeeps
<1>6. ASSUME NEW c \in Clients, Without(c) \in [Sockets -> SUBSET (Clients \cup {"app"})],
             Releases(Without(c)), UNCHANGED serverVars,
             \A e \in Clients : client'[e].at = "open" => client'[e] = client[e]
      PROVE IInv'
  BY <1>0, <1>6, ReleasesKeeps DEF Without, TypeOK
<1>7. \A c \in Clients : Without(c) \in [Sockets -> SUBSET (Clients \cup {"app"})]
  BY <1>0 DEF Without, TypeOK
<1>8. ASSUME NEW c \in Clients, Fails(c) PROVE IInv'
  <2>1. \A e \in Clients : client'[e].at = "open" => client'[e] = client[e]
    BY <1>2, <1>8 DEF Fails
  <2>2. CASE InConnect(c)
    BY <1>6, <1>7, <1>8, <2>1, <2>2 DEF Fails
  <2>3. CASE ~InConnect(c)
    <3>1. \A x \in Sockets : [sock[x] EXCEPT !.err = FALSE].st = sock[x].st
      <4>1. \A x \in Sockets : sock[x] \in SocketType
        BY <1>0 DEF TypeOK
      <4> QED BY <4>1 DEF SocketType
    <3>2. \A x \in Sockets : sock'[x].st = sock[x].st
      BY <1>8, <2>3, <3>1 DEF Fails
    <3> QED BY <1>0, <1>8, <2>1, <2>3, <3>2, QuietKeeps DEF Fails, ownerVars, serverVars
  <2> QED BY <2>2, <2>3
<1>9. ASSUME NEW c \in Clients, TimesOut(c) PROVE IInv'
  <2>1. client[c].at = "select"
    BY <1>9 DEF TimesOut
  <2>2. [client[c] EXCEPT !.call = "waitAgain"].at = client[c].at
    <3>1. client[c] \in ClientType
      BY <1>0 DEF TypeOK
    <3> QED BY <3>1 DEF ClientType
  <2>3. client' = [client EXCEPT ![c].call = "waitAgain"] =>
          \A e \in Clients : client'[e].at = "open" => client'[e] = client[e]
    BY <1>0, <2>1, <2>2 DEF TypeOK
  <2>4. \A e \in Clients : client'[e].at = "open" => client'[e] = client[e]
    BY <1>2, <1>9, <2>3 DEF TimesOut
  <2> QED BY <1>0, <1>9, <2>4, QuietKeeps DEF TimesOut, tableVars, ownerVars, serverVars
<1>10. ASSUME NEW c \in Clients, WaitConnect(c) PROVE IInv'
  <2>1. [client[c] EXCEPT !.at = "select", !.call = "wait"].at = "select"
    <3>1. client[c] \in ClientType
      BY <1>0 DEF TypeOK
    <3> QED BY <3>1 DEF ClientType
  <2>2. \A e \in Clients : client'[e].at = "open" => client'[e] = client[e]
    BY <1>0, <1>10, <2>1 DEF WaitConnect, TypeOK
  <2> QED BY <1>0, <1>10, <2>2, QuietKeeps
          DEF WaitConnect, tableVars, ownerVars, serverVars
<1>11. ASSUME NEW c \in Clients, GetStream(c) PROVE IInv'
  <2>1. /\ client[c].pres # None /\ c \in holds[client[c].pres]
        /\ holds' = [holds EXCEPT ![client[c].pres] = @ \cup {"app"}]
    BY <1>11 DEF GetStream, RefsInv
  <2>2. \A s \in Sockets : holds'[s] = {} <=> holds[s] = {}
    BY <1>0, <2>1 DEF TypeOK
  <2> QED BY <1>0, <1>11, <2>2, QuietKeeps DEF GetStream, tableVars, serverVars
<1>12. ASSUME NEW c \in Clients, DeleteClient(c) PROVE IInv'
  <2>1. NewClient.at # "open"
    BY DEF NewClient
  <2>2. \A e \in Clients : client'[e].at = "open" => client'[e] = client[e]
    BY <1>0, <1>12, <2>1 DEF DeleteClient, TypeOK
  <2> QED BY <1>6, <1>7, <1>12, <2>2 DEF DeleteClient
<1>13. ASSUME NEW s \in Sockets, DropStream(s) PROVE IInv'
  <2> DEFINE refs == [holds EXCEPT ![s] = @ \ {"app"}]
  <2>1. /\ refs \in [Sockets -> SUBSET (Clients \cup {"app"})]
        /\ \A p \in Sockets : refs[p] \subseteq holds[p]
    BY <1>0 DEF TypeOK
  <2> QED BY <1>0, <1>13, <2>1, ReleasesKeeps DEF DropStream, TypeOK
<1>14. ASSUME NEW s \in Sockets, Answers(s) \/ Refuses(s) PROVE IInv'
  <2>1. sock[s] \in SocketType
    BY <1>0 DEF TypeOK
  <2>2. /\ [sock[s] EXCEPT !.st = "connected"].st = "connected"
        /\ [sock[s] EXCEPT !.st = "failed", !.err = TRUE].st = "failed"
    BY <2>1 DEF SocketType
  <2>3. \A p \in Sockets : \/ sock'[p].st = sock[p].st
                            \/ /\ sock[p].st = "connecting"
                               /\ sock'[p].st \in {"connected", "failed"}
    BY <1>0, <1>14, <2>2 DEF Answers, Refuses, TypeOK
  <2> QED BY <1>0, <1>14, <2>3, QuietKeeps DEF Answers, Refuses, ownerVars, serverVars
<1>15. CASE Initialize
  <2>1. UNCHANGED <<queue, ownerVars, client, accepting>>
    BY <1>15 DEF Initialize
  <2>2. CASE listen' \in {NoFd, 0} /\ UNCHANGED <<fd, sock, initialized>>
    <3>1. UNCHANGED <<holds, pfd, client>>
      BY <2>1 DEF ownerVars
    <3>2. NoFd \notin Fds
      BY TcpAssumption DEF NoFd
    <3> QED BY <1>0, <2>2, <3>1, <3>2
            DEF IInv, PresentersInv, OpenersInv, Selected, ListenInv, TableInv
  <2>3. ASSUME NEW d \in Free, NEW s \in Unused,
               Opens(d, s, IF d > 0 THEN "listening" ELSE "new"), listen' = d
        PROVE IInv'
    <3> DEFINE st == IF d > 0 THEN "listening" ELSE "new"
    <3>1. sock[s] \in SocketType /\ s \in Sockets
      BY <1>0 DEF TypeOK, Unused
    <3>2. [sock[s] EXCEPT !.st = st].st = st
      BY <3>1 DEF SocketType
    <3>3. sock'[s].st = st /\ \A p \in Sockets : p # s => sock'[p] = sock[p]
      BY <1>0, <2>3, <3>1, <3>2 DEF Opens, TypeOK
    <3>4. d # 0 => st = "listening"
      BY TcpAssumption DEF Free
    <3>5. st \notin {"none", "closed"}
      OBVIOUS
    <3> QED BY <1>0, <2>1, <2>3, <3>3, <3>4, <3>5, FreshKeeps DEF Opens
  <2> QED BY <1>15, <2>2, <2>3 DEF Initialize
<1>16. CASE Select \/ Aborts \/ UNCHANGED vars
  BY <1>0, <1>16, QuietKeeps DEF Select, Aborts, vars, tableVars, ownerVars, serverVars
<1>17. CASE Accept
  <2>1. UNCHANGED <<client, listen>>
    BY <1>17 DEF Accept
  <2>2. CASE UNCHANGED <<tableVars, ownerVars>>
    BY <1>0, <2>1, <2>2, QuietKeeps DEF tableVars, ownerVars
  <2>3. CASE ~UNCHANGED <<tableVars, ownerVars>>
    <3>1. PICK d \in Free, s \in Unused, ok \in {TRUE, "nofcntl" \notin Habits} :
            /\ fd' = [fd EXCEPT ![d] = s]
            /\ sock' = [sock EXCEPT ![s] = [@ EXCEPT !.st = "accepted", !.from = Head(queue)]]
            /\ IF Presents(d, ok)
               THEN /\ pfd' = [pfd EXCEPT ![s] = d]
                    /\ holds' = [holds EXCEPT ![s] = {"app"}]
               ELSE UNCHANGED ownerVars
      BY <1>17, <2>3 DEF Accept
    <3>2. s \in Sockets /\ sock[s] \in SocketType
      BY <1>0 DEF TypeOK, Unused
    <3>3. [sock[s] EXCEPT !.st = "accepted", !.from = Head(queue)].st = "accepted"
      BY <3>2 DEF SocketType
    <3>4. sock'[s].st = "accepted" /\ \A p \in Sockets : p # s => sock'[p] = sock[p]
      BY <1>0, <3>1, <3>2, <3>3 DEF TypeOK
    <3> QED BY <1>0, <2>1, <3>1, <3>4, FreshKeeps
  <2> QED BY <2>2, <2>3
<1>18. CASE DeleteServer
  <2> DEFINE D == {listen} \cap (Fds \ {0})
             closed == {fd[d] : d \in D}
  <2> USE DEF IInv
  <2>1. /\ Closes(D, sock) /\ listen' = 0 /\ UNCHANGED <<ownerVars, client, accepting>>
        /\ fd' = [d \in Fds |-> IF d \in D THEN None ELSE fd[d]]
    BY <1>18 DEF DeleteServer, Closes
  <2>2. \A s \in Sockets : IF s \in closed THEN sock'[s].st = "closed"
         ELSE \/ sock'[s].st = sock[s].st
              \/ sock[s].st = "connected" /\ sock'[s].st = "ended"
    BY <1>0, <2>1, ClosesMeans DEF TypeOK
  <2>3. \A d \in D : d \in Fds /\ fd[d] \in Sockets /\ sock[fd[d]].st = "listening"
    BY DEF ListenInv, Listening
  <2>4. PresentersInv'
    <3>1. \A s \in Sockets : holds[s] # {} => pfd[s] \notin D /\ s \notin closed
      BY <2>3 DEF PresentersInv
    <3> QED BY <2>1, <2>2, <3>1 DEF PresentersInv, ownerVars
  <2>5. OpenersInv'
    <3>1. \A c \in Clients : client[c].at = "open" =>
            /\ client[c].sock \in Fds /\ fd'[client[c].sock] # None
            /\ holds'[fd'[client[c].sock]] = {} /\ sock'[fd'[client[c].sock]].st = "new"
      <4> SUFFICES ASSUME NEW c \in Clients, client[c].at = "open"
                   PROVE /\ client[c].sock \in Fds /\ fd'[client[c].sock] # None
                         /\ holds'[fd'[client[c].sock]] = {}
                         /\ sock'[fd'[client[c].sock]].st = "new"
        OBVIOUS
      <4> DEFINE d == client[c].sock
      <4>1. /\ d \in Fds /\ fd[d] # None /\ fd[d] \in Sockets
            /\ holds[fd[d]] = {} /\ sock[fd[d]].st = "new"
        BY <1>0 DEF OpenersInv, Selected, TypeOK
      <4>2. d \notin D /\ fd[d] \notin closed
        BY <2>3, <4>1
      <4> QED BY <2>1, <2>2, <4>1, <4>2 DEF ownerVars
    <3>2. \A c \in Clients : client[c].at = "open" =>
          \A e \in Clients \ {c} : client[e].at = "open" => client[e].sock # client[c].sock
      BY DEF OpenersInv
    <3> QED BY <2>1, <3>1, <3>2 DEF OpenersInv, Selected
  <2>6. ListenInv'
    BY <2>1 DEF ListenInv
  <2>7. TableInv'
    <3>1. ASSUME NEW d \in Fds, fd'[d] # None
          PROVE  fd'[d] = fd[d] /\ d \notin D /\ sock'[fd[d]].st \notin {"none", "closed"}
      <4>1. d \notin D /\ fd'[d] = fd[d] /\ fd[d] \in Sockets
        BY <1>0, <2>1, <3>1 DEF TypeOK, None
      <4>2. fd[d] \notin closed
        BY <2>3, <3>1, <4>1 DEF TableInv
      <4> QED BY <2>2, <3>1, <4>1, <4>2 DEF TableInv
    <3> QED BY <3>1 DEF TableInv
  <2> QED BY <1>0, <2>4, <2>5, <2>6, <2>7
<1> QED BY <1>1, <1>3, <1>4, <1>5, <1>8, <1>9, <1>10, <1>11, <1>12, <1>13, <1>14, <1>15,
           <1>16, <1>17, <1>18
        DEF Next, Client, InCall, Server, System

(* A client that holds no other reference than m_SockSPtr lets go of no      *)
(* other client's.                                                           *)
LEMMA RefsStep == IInv /\ RefsInv /\ [Next]_vars => RefsInv'
<1> SUFFICES ASSUME IInv, RefsInv, [Next]_vars, NEW e \in Clients, client'[e].pres # None
             PROVE  e \in holds'[client'[e].pres]
  BY DEF RefsInv
<1>0. TypeOK /\ e # "app"
  BY TcpAssumption DEF IInv
<1> DEFINE p == client[e].pres
<1>1. p # None => e \in holds[p] /\ p \in Sockets
  <2>1. client[e] \in ClientType
    BY <1>0 DEF TypeOK
  <2>2. client[e].pres \in Sockets \cup {None}
    BY <2>1 DEF ClientType
  <2> QED BY <2>2 DEF RefsInv
<1>2. ASSUME client'[e].pres = p, \A s \in Sockets : e \in holds[s] => e \in holds'[s]
      PROVE  e \in holds'[client'[e].pres]
  BY <1>1, <1>2
<1>3. ASSUME NEW c \in Clients, NEW res, NEW pres, Returns(c, res, pres)
      PROVE  /\ client'[c].pres = pres
             /\ c # e => client'[e] = client[e]
  <2>1. [client[c] EXCEPT !.at = "idle", !.call = "none", !.res = res,
                          !.pres = pres].pres = pres
    <3>1. client[c] \in ClientType
      BY <1>0 DEF TypeOK
    <3> QED BY <3>1 DEF ClientType
  <2> QED BY <1>0, <1>3, <2>1 DEF Returns, TypeOK
<1>4. ASSUME NEW c \in Clients, c # e,
             holds' \in {[Without(c) EXCEPT ![s] = {c}] : s \in {x \in Sockets : holds[x] = {}}}
                       \cup {Without(c), holds},
             client'[e] = client[e]
      PROVE  e \in holds'[client'[e].pres]
  <2>1. \A s \in Sockets : e \in holds[s] => e \in holds'[s]
    BY <1>0, <1>4 DEF Without, TypeOK
  <2> QED BY <1>2, <1>4, <2>1
<1>5. ASSUME NEW c \in Clients, c # e, Client(c) PROVE e \in holds'[client'[e].pres]
  <2>1. client'[e] = client[e]
    BY <1>0, <1>3, <1>5
       DEF Client, InCall, Connect, NoSocket, OpenSocket, StartConnect, Succeeds, Fails,
           TimesOut, WaitConnect, GetStream, DeleteClient, Returns, TypeOK
  <2>2. CASE GetStream(c)
    <3>1. \A s \in Sockets : e \in holds[s] => e \in holds'[s]
      BY <1>0, <2>2 DEF GetStream, TypeOK
    <3> QED BY <1>2, <2>1, <3>1
  <2>3. CASE StartConnect(c)
    <3>1. Selected(c) \in Sockets /\ holds[Selected(c)] = {}
      BY <1>0, <2>3 DEF StartConnect, IInv, OpenersInv, TypeOK, Selected
    <3>2. holds' \in {[Without(c) EXCEPT ![Selected(c)] = {c}], Without(c)}
      BY <2>3 DEF StartConnect, Selected
    <3> QED BY <1>4, <1>5, <2>1, <3>1, <3>2
  <2>4. CASE ~GetStream(c) /\ ~StartConnect(c)
    <3>1. holds' \in {Without(c), holds}
      BY <1>5, <2>4
         DEF Client, InCall, Connect, NoSocket, OpenSocket, Succeeds, Fails,
             TimesOut, WaitConnect, DeleteClient, Releases, ownerVars
    <3> QED BY <1>4, <1>5, <2>1, <3>1
  <2> QED BY <2>2, <2>3, <2>4
<1>6. ASSUME Client(e) PROVE e \in holds'[client'[e].pres]
  <2> DEFINE r == client[e]
  <2>1. r \in ClientType
    BY <1>0 DEF TypeOK
  <2>2. CASE \E dest \in Dests, call \in {"connect", "connectAndWait"} : Connect(e, dest, call)
    <3>1. PICK dest \in Dests, call \in {"connect", "connectAndWait"} : Connect(e, dest, call)
      BY <2>2
    <3>2. [r EXCEPT !.at = "lookup", !.call = call, !.sock = NoFd, !.to = dest].pres = p
      BY <2>1 DEF ClientType
    <3>3. client'[e].pres = p
      BY <1>0, <3>1, <3>2 DEF Connect, TypeOK
    <3> QED BY <1>2, <3>1, <3>3 DEF Connect, ownerVars
  <2>3. CASE NoSocket(e) \/ Succeeds(e)
    <3>1. client'[e].pres = p
      BY <1>3, <2>3 DEF NoSocket, Succeeds
    <3> QED BY <1>2, <2>3, <3>1 DEF NoSocket, Succeeds, ownerVars
  <2>4. CASE OpenSocket(e)
    <3>1. PICK d : client' = [client EXCEPT ![e] = [@ EXCEPT !.at = "open", !.sock = d]]
      BY <2>4 DEF OpenSocket
    <3>2. [r EXCEPT !.at = "open", !.sock = d].pres = p
      BY <2>1 DEF ClientType
    <3>3. client'[e].pres = p
      BY <1>0, <3>1, <3>2 DEF TypeOK
    <3> QED BY <1>2, <2>4, <3>3 DEF OpenSocket, ownerVars
  <2>5. CASE StartConnect(e)
    <3> DEFINE s == Selected(e)
    <3>1. s \in Sockets
      BY <1>0, <2>5 DEF StartConnect, IInv, OpenersInv, TypeOK, Selected
    <3>2. [r EXCEPT !.at = "select", !.to = "server", !.pres = s].pres = s
      BY <2>1 DEF ClientType
    <3>3. CASE /\ holds' = [Without(e) EXCEPT ![s] = {e}]
               /\ client' = [client EXCEPT ![e] = [@ EXCEPT !.at = "select",
                                                  !.to = "server", !.pres = s]]
      <4>1. client'[e].pres = s
        BY <1>0, <3>2, <3>3 DEF TypeOK
      <4>2. holds'[s] = {e}
        BY <1>0, <3>1, <3>3 DEF Without, TypeOK
      <4> QED BY <4>1, <4>2
    <3>4. CASE Returns(e, "NET_ERROR", None)
      BY <1>3, <3>4
    <3> QED BY <2>5, <3>3, <3>4 DEF StartConnect, Selected
  <2>6. CASE Fails(e)
    <3>1. CASE InConnect(e)
      BY <1>3, <2>6, <3>1 DEF Fails
    <3>2. CASE ~InConnect(e)
      <4>1. client'[e].pres = p
        BY <1>3, <2>6, <3>2 DEF Fails
      <4> QED BY <1>2, <2>6, <3>2, <4>1 DEF Fails, ownerVars
    <3> QED BY <3>1, <3>2
  <2>7. CASE TimesOut(e)
    <3>1. [r EXCEPT !.call = "waitAgain"].pres = p
      BY <2>1 DEF ClientType
    <3>2. CASE client' = [client EXCEPT ![e].call = "waitAgain"]
      <4>1. client'[e].pres = p
        BY <1>0, <3>1, <3>2 DEF TypeOK
      <4> QED BY <1>2, <2>7, <4>1 DEF TimesOut, ownerVars
    <3>3. CASE Returns(e, "NET_TIMEOUT", p)
      <4>1. client'[e].pres = p
        BY <1>3, <3>3
      <4> QED BY <1>2, <2>7, <4>1 DEF TimesOut, ownerVars
    <3> QED BY <2>7, <3>2, <3>3 DEF TimesOut
  <2>8. CASE WaitConnect(e)
    <3>1. [r EXCEPT !.at = "select", !.call = "wait"].pres = p
      BY <2>1 DEF ClientType
    <3>2. client'[e].pres = p
      BY <1>0, <2>8, <3>1 DEF WaitConnect, TypeOK
    <3> QED BY <1>2, <2>8, <3>2 DEF WaitConnect, ownerVars
  <2>9. CASE GetStream(e)
    <3>1. \A s \in Sockets : e \in holds[s] => e \in holds'[s]
      BY <1>0, <2>9 DEF GetStream, TypeOK
    <3> QED BY <1>2, <2>9, <3>1 DEF GetStream
  <2>10. CASE DeleteClient(e)
    <3>1. client'[e].pres = None
      BY <1>0, <2>10 DEF DeleteClient, NewClient, TypeOK
    <3> QED BY <3>1
  <2> QED BY <1>6, <2>2, <2>3, <2>4, <2>5, <2>6, <2>7, <2>8, <2>9, <2>10
          DEF Client, InCall
<1>7. ASSUME NEW s \in Sockets, DropStream(s) PROVE e \in holds'[client'[e].pres]
  <2>1. \A x \in Sockets : e \in holds[x] => e \in holds'[x]
    BY <1>0, <1>7 DEF DropStream, Releases, TypeOK
  <2> QED BY <1>2, <1>7, <2>1 DEF DropStream
<1>8. ASSUME NEW s \in Sockets, System(s) PROVE e \in holds'[client'[e].pres]
  BY <1>2, <1>8 DEF System, Answers, Refuses, ownerVars
<1>9. CASE Server
  <2>1. \A x \in Sockets : e \in holds[x] => e \in holds'[x]
    <3>1. \A x \in Unused : holds[x] = {}
      BY DEF IInv, PresentersInv, Unused
    <3> QED BY <1>0, <1>9, <3>1
            DEF Server, Initialize, Select, Accept, DeleteServer, ownerVars, TypeOK
  <2> QED BY <1>2, <1>9, <2>1 DEF Server, Initialize, Select, Accept, DeleteServer
<1>10. CASE Aborts \/ UNCHANGED vars
  BY <1>2, <1>10 DEF Aborts, vars, ownerVars
<1> QED BY <1>5, <1>6, <1>7, <1>8, <1>9, <1>10 DEF Next

-----------------------------------------------------------------------------

LEMMA InitInv == Init => IInv /\ RefsInv
<1> SUFFICES ASSUME Init PROVE IInv /\ RefsInv
  OBVIOUS
<1>1. TypeOK
  <2>1. Socket("none") \in SocketType
    BY DEF Socket, SocketType, None
  <2>2. NewClient \in ClientType
    BY DEF NewClient, ClientType, AllDests, NoFd, None
  <2>3. <<>> \in Seq(Sockets)
    OBVIOUS
  <2> QED BY <2>1, <2>2, <2>3 DEF Init, TypeOK
<1>2. PresentersInv /\ OpenersInv /\ ListenInv /\ TableInv /\ RefsInv
  BY DEF Init, PresentersInv, OpenersInv, ListenInv, TableInv, RefsInv, NewClient
<1> QED BY <1>1, <1>2 DEF IInv

(* Objects, sockets and descriptors have their types, whatever system and    *)
(* application do (Habits).                                                  *)
THEOREM TypeCorrect == Spec => []TypeOK
<1>1. Init => IInv /\ RefsInv
  BY InitInv
<1>2. IInv /\ RefsInv /\ [Next]_vars => (IInv /\ RefsInv)'
  BY Step, RefsStep
<1>3. IInv => TypeOK
  BY DEF IInv
<1> QED BY <1>1, <1>2, <1>3, PTL DEF Spec

(* An open descriptor that stays open keeps its owner in a step that leaves  *)
(* openers and server alone and closes the descriptors of the presenters     *)
(* that are let go of.                                                       *)
LEMMA LeakKept ==
  ASSUME OwnedInv, NEW d \in Fds, fd[d] # None, fd'[d] = fd[d],
         \A s \in Sockets : holds[s] # {} /\ holds'[s] = {} => pfd[s] # d,
         \A c \in Clients : client[c].at = "open" =>
           \/ client'[c] = client[c]
           \/ client[c].sock = d => holds'[fd[d]] # {},
         initialized /\ listen = d => initialized' /\ listen' = d
  PROVE  \/ holds'[fd'[d]] # {}
         \/ \E c \in Clients : client'[c].at = "open" /\ client'[c].sock = d
         \/ initialized' /\ listen' = d
<1>1. fd[d] \in Sockets
  BY DEF OwnedInv, IInv, TypeOK
<1>2. CASE holds[fd[d]] # {}
  <2>1. pfd[fd[d]] \in Fds /\ fd[pfd[fd[d]]] = fd[d]
    BY <1>1, <1>2 DEF OwnedInv, IInv, PresentersInv
  <2>2. pfd[fd[d]] = d
    BY <2>1 DEF OwnedInv, IInv, TableInv
  <2> QED BY <1>1, <1>2, <2>2
<1>3. CASE \E c \in Clients : client[c].at = "open" /\ client[c].sock = d
  BY <1>3
<1>4. CASE initialized /\ listen = d
  BY <1>4
<1> QED BY <1>2, <1>3, <1>4 DEF OwnedInv, NoLeakInv

(* No step loses a descriptor, in a usual program.                           *)
LEMMA LeakStep == Usual /\ OwnedInv /\ RefsInv /\ [Next]_vars => (NoLeakInv /\ ServerInv)'
<1> SUFFICES ASSUME Usual, OwnedInv, RefsInv, [Next]_vars PROVE (NoLeakInv /\ ServerInv)'
  OBVIOUS
<1>0. TypeOK /\ IInv
  BY DEF OwnedInv, IInv
<1>1. ASSUME UNCHANGED <<listen, initialized>>,
             \A d \in Fds : fd'[d] # None => fd'[d] = fd[d],
             \A d \in Fds : fd'[d] # None =>
               \A s \in Sockets : holds[s] # {} /\ holds'[s] = {} => pfd[s] # d,
             \A c \in Clients : client[c].at = "open" => client'[c] = client[c]
      PROVE  (NoLeakInv /\ ServerInv)'
  <2>1. ServerInv'
    BY <1>1 DEF OwnedInv, ServerInv
  <2>2. \A d \in Fds : fd'[d] # None =>
          \/ holds'[fd'[d]] # {}
          \/ \E c \in Clients : client'[c].at = "open" /\ client'[c].sock = d
          \/ initialized' /\ listen' = d
    BY <1>1, LeakKept
  <2> QED BY <2>1, <2>2 DEF NoLeakInv
<1>2. ASSUME NEW refs, Releases(refs), UNCHANGED serverVars,
             \A c \in Clients : client[c].at = "open" => client'[c] = client[c]
      PROVE  (NoLeakInv /\ ServerInv)'
  <2>1. /\ holds' = refs /\ fd' = [d \in Fds |-> IF d \in ClosedBy(refs) THEN None ELSE fd[d]]
    BY <1>2 DEF Releases, Closes
  <2>2. \A d \in Fds : fd'[d] # None =>
          \A s \in Sockets : holds[s] # {} /\ holds'[s] = {} => pfd[s] # d
    BY <2>1 DEF ClosedBy
  <2> QED BY <1>1, <1>2, <2>1, <2>2 DEF serverVars
<1>3. ASSUME NEW c \in Clients, StartConnect(c) PROVE (NoLeakInv /\ ServerInv)'
  <2> DEFINE d0 == client[c].sock
             s0 == Selected(c)
             new == [Without(c) EXCEPT ![s0] = {c}]
  <2>1. /\ holds' = new /\ UNCHANGED serverVars
        /\ fd' = [d \in Fds |-> IF d \in ClosedBy(new) THEN None ELSE fd[d]]
        /\ client' = [client EXCEPT ![c] = [@ EXCEPT !.at = "select",
                                           !.to = "server", !.pres = s0]]
    BY <1>3 DEF StartConnect, Selected, Closes, Usual
  <2>2. s0 \in Sockets /\ d0 \in Fds /\ fd[d0] = s0
    BY <1>0, <1>3 DEF StartConnect, IInv, OpenersInv, Selected, TypeOK
  <2>3. new[s0] # {}
    BY <1>0, <2>2 DEF Without, TypeOK
  <2>4. \A e \in Clients : e # c => client'[e] = client[e]
    BY <1>0, <2>1 DEF TypeOK
  <2>5. ASSUME NEW d \in Fds, fd'[d] # None
        PROVE  \/ holds'[fd'[d]] # {}
               \/ \E e \in Clients : client'[e].at = "open" /\ client'[e].sock = d
               \/ initialized' /\ listen' = d
    <3>1. d \notin ClosedBy(new) /\ fd'[d] = fd[d] /\ fd[d] # None
      BY <2>1, <2>5
    <3>2. \A s \in Sockets : holds[s] # {} /\ holds'[s] = {} => pfd[s] # d
      BY <2>1, <3>1 DEF ClosedBy
    <3>3. \A e \in Clients : client[e].at = "open" =>
            \/ client'[e] = client[e]
            \/ client[e].sock = d => holds'[fd[d]] # {}
      BY <2>1, <2>2, <2>3, <2>4
    <3>4. initialized /\ listen = d => initialized' /\ listen' = d
      BY <2>1 DEF serverVars
    <3> QED BY <3>1, <3>2, <3>3, <3>4, LeakKept
  <2>6. ServerInv'
    BY <2>1 DEF OwnedInv, ServerInv, serverVars
  <2> QED BY <2>5, <2>6 DEF NoLeakInv
<1>4. ASSUME NEW c \in Clients, OpenSocket(c) PROVE (NoLeakInv /\ ServerInv)'
  <2>1. PICK d0 \in Free, s \in Unused :
          /\ fd' = [fd EXCEPT ![d0] = s]
          /\ client' = [client EXCEPT ![c] = [@ EXCEPT !.at = "open", !.sock = d0]]
    BY <1>4 DEF OpenSocket, Opens
  <2>2. UNCHANGED <<holds, listen, initialized>>
    BY <1>4 DEF OpenSocket, ownerVars, serverVars
  <2>3. client'[c].at = "open" /\ client'[c].sock = d0
    <3>1. client[c] \in ClientType
      BY <1>0 DEF TypeOK
    <3>2. /\ [client[c] EXCEPT !.at = "open", !.sock = d0].at = "open"
          /\ [client[c] EXCEPT !.at = "open", !.sock = d0].sock = d0
      BY <3>1 DEF ClientType
    <3> QED BY <1>0, <2>1, <3>2 DEF TypeOK
  <2>4. \A e \in Clients : client[e].at = "open" => client'[e] = client[e]
    BY <1>0, <1>4, <2>1 DEF OpenSocket, TypeOK
  <2>5. \A d \in Fds : fd'[d] # None /\ d # d0 =>
          \/ holds'[fd'[d]] # {}
          \/ \E e \in Clients : client'[e].at = "open" /\ client'[e].sock = d
          \/ initialized' /\ listen' = d
    <3>1. \A d \in Fds : d # d0 => fd'[d] = fd[d]
      BY <1>0, <2>1 DEF TypeOK
    <3> QED BY <2>2, <2>4, <3>1, LeakKept
  <2>6. ServerInv'
    BY <2>2 DEF OwnedInv, ServerInv
  <2> QED BY <2>3, <2>5, <2>6 DEF NoLeakInv
<1>5. ASSUME NEW c \in Clients, Client(c), ~StartConnect(c), ~OpenSocket(c)
      PROVE  (NoLeakInv /\ ServerInv)'
  <2>1. \A e \in Clients : client[e].at = "open" => client'[e] = client[e]
    BY <1>0, <1>5
       DEF Client, InCall, Connect, NoSocket, Succeeds, Fails, TimesOut, WaitConnect,
           GetStream, DeleteClient, Returns, Idle, TypeOK
  <2>2. UNCHANGED serverVars
    BY <1>5
       DEF Client, InCall, Connect, NoSocket, Succeeds, Fails, TimesOut, WaitConnect,
           GetStream, DeleteClient
  <2>3. CASE ~Releases(Without(c))
    <3>1. /\ UNCHANGED <<fd, listen, initialized>>
          /\ UNCHANGED holds \/ GetStream(c)
      BY <1>5, <2>3
         DEF Client, InCall, Connect, NoSocket, Succeeds, Fails, TimesOut, WaitConnect,
             GetStream, DeleteClient, tableVars, ownerVars, serverVars
    <3>2. \A s \in Sockets : holds[s] # {} => holds'[s] # {}
      BY <1>0, <3>1 DEF GetStream, TypeOK
    <3> QED BY <1>1, <2>1, <3>1, <3>2
  <2> QED BY <1>2, <2>1, <2>2, <2>3
<1>6. ASSUME NEW s \in Sockets, DropStream(s) PROVE (NoLeakInv /\ ServerInv)'
  BY <1>2, <1>6 DEF DropStream
<1>7. ASSUME NEW s \in Sockets, System(s) PROVE (NoLeakInv /\ ServerInv)'
  BY <1>1, <1>7 DEF System, Answers, Refuses, ownerVars, serverVars
<1>8. CASE Select \/ Aborts \/ UNCHANGED vars
  BY <1>1, <1>8 DEF Select, Aborts, vars, tableVars, ownerVars, serverVars
<1>9. CASE Initialize
  <2>1. UNCHANGED <<holds, client>> /\ ~initialized
    BY <1>9 DEF Initialize, ownerVars, Usual
  <2>2. CASE listen' \in {NoFd, 0} /\ UNCHANGED <<fd, sock, initialized>>
    <3>1. NoFd \notin Fds /\ 0 \notin Fds
      BY TcpAssumption DEF NoFd, Usual
    <3>2. ServerInv'
      BY <2>1, <2>2, <3>1 DEF ServerInv
    <3>3. NoLeakInv'
      BY <2>1, <2>2 DEF OwnedInv, NoLeakInv
    <3> QED BY <3>2, <3>3
  <2>3. ASSUME NEW d0 \in Free, NEW s \in Unused, fd' = [fd EXCEPT ![d0] = s],
               listen' = d0, initialized' = (initialized \/ d0 > 0)
        PROVE (NoLeakInv /\ ServerInv)'
    <3>1. d0 \in Fds /\ d0 > 0
      BY TcpAssumption DEF Free, Usual
    <3>2. initialized' /\ listen' \in Fds
      BY <2>3, <3>1
    <3>3. \A d \in Fds : fd'[d] # None /\ d # d0 =>
            \/ holds'[fd'[d]] # {}
            \/ \E e \in Clients : client'[e].at = "open" /\ client'[e].sock = d
            \/ initialized' /\ listen' = d
      BY <1>0, <2>1, <2>3, LeakKept DEF TypeOK
    <3> QED BY <2>3, <3>2, <3>3 DEF NoLeakInv, ServerInv
  <2> QED BY <1>9, <2>2, <2>3 DEF Initialize, Opens
<1>10. CASE Accept
  <2>1. UNCHANGED <<client, listen, initialized>>
    BY <1>10 DEF Accept
  <2>2. CASE UNCHANGED <<tableVars, ownerVars>>
    BY <1>1, <2>1, <2>2 DEF tableVars, ownerVars
  <2>3. CASE ~UNCHANGED <<tableVars, ownerVars>>
    <3>1. PICK d0 \in Free, s \in Unused, ok \in {TRUE, "nofcntl" \notin Habits} :
            /\ fd' = [fd EXCEPT ![d0] = s]
            /\ IF Presents(d0, ok)
               THEN /\ pfd' = [pfd EXCEPT ![s] = d0]
                    /\ holds' = [holds EXCEPT ![s] = {"app"}]
               ELSE UNCHANGED ownerVars
      BY <1>10, <2>3 DEF Accept
    <3>2. ok
      BY DEF Usual
    <3>3. d0 \in Fds /\ d0 > 0 /\ s \in Sockets
      BY TcpAssumption DEF Free, Unused, Usual
    <3>4. holds' = [holds EXCEPT ![s] = {"app"}]
      BY <3>1, <3>2, <3>3 DEF Presents
    <3>5. holds'[s] # {} /\ \A x \in Sockets : holds[x] # {} => holds'[x] # {}
      <4>1. {"app"} # {}
        OBVIOUS
      <4> QED BY <1>0, <3>3, <3>4, <4>1 DEF TypeOK
    <3>6. \A d \in Fds : fd'[d] # None /\ d # d0 =>
            \/ holds'[fd'[d]] # {}
            \/ \E e \in Clients : client'[e].at = "open" /\ client'[e].sock = d
            \/ initialized' /\ listen' = d
      BY <1>0, <2>1, <3>1, <3>5, LeakKept DEF TypeOK
    <3>7. fd'[d0] = s
      BY <1>0, <3>1, <3>3 DEF TypeOK
    <3>8. ServerInv'
      BY <2>1 DEF OwnedInv, ServerInv
    <3> QED BY <3>5, <3>6, <3>7, <3>8 DEF NoLeakInv
  <2> QED BY <2>2, <2>3
<1>11. CASE DeleteServer
  <2>1. /\ UNCHANGED <<holds, client>> /\ listen' = 0 /\ initialized' = FALSE
        /\ fd' = [d \in Fds |-> IF d \in {listen} \cap (Fds \ {0}) THEN None ELSE fd[d]]
    BY <1>11 DEF DeleteServer, Closes, ownerVars
  <2>2. \A d \in Fds : fd'[d] # None => d # listen /\ fd'[d] = fd[d]
    BY <2>1 DEF Usual
  <2>3. NoLeakInv'
    BY <2>1, <2>2 DEF OwnedInv, NoLeakInv
  <2>4. ServerInv'
    BY <2>1 DEF ServerInv, Usual
  <2> QED BY <2>3, <2>4
<1> QED BY <1>3, <1>4, <1>5, <1>6, <1>7, <1>8, <1>9, <1>10, <1>11 DEF Next, Server

(* Every open descriptor has exactly one owner, and every owner's is open:   *)
(* nothing leaks and nothing is closed twice where fcntl works, a server is  *)
(* initialised once and descriptor 0 is in use.                              *)
THEOREM DescriptorsAreOwned == Usual => (Spec => []DescriptorsOwned)
<1> SUFFICES ASSUME Usual PROVE Spec => []DescriptorsOwned
  OBVIOUS
<1>1. Init => OwnedInv /\ RefsInv
  <2>1. Init => IInv /\ RefsInv
    BY InitInv
  <2>2. Init => NoLeakInv /\ ServerInv
    BY DEF Init, NoLeakInv, ServerInv, Usual
  <2> QED BY <2>1, <2>2 DEF OwnedInv
<1>2. OwnedInv /\ RefsInv /\ [Next]_vars => (OwnedInv /\ RefsInv)'
  BY Step, RefsStep, LeakStep DEF OwnedInv
<1>3. OwnedInv => DescriptorsOwned
  <2> SUFFICES ASSUME OwnedInv PROVE DescriptorsOwned
    OBVIOUS
  <2> USE DEF OwnedInv, IInv
  <2>0. \A d \in Fds :
          /\ \A p \in Sockets : holds[p] # {} /\ pfd[p] = d =>
               fd[d] = p /\ sock[p].st \notin {"new", "listening"}
          /\ \A c \in Clients : client[c].at = "open" /\ client[c].sock = d =>
               /\ fd[d] \in Sockets /\ sock[fd[d]].st = "new"
               /\ \A e \in Clients : client[e].at = "open" /\ client[e].sock = d => e = c
          /\ initialized /\ listen = d => fd[d] \in Sockets /\ sock[fd[d]].st = "listening"
    <3>1. \A d \in Fds : \A p \in Sockets : holds[p] # {} /\ pfd[p] = d =>
               fd[d] = p /\ sock[p].st \notin {"new", "listening"}
      BY DEF PresentersInv
    <3>2. \A d \in Fds : \A c \in Clients : client[c].at = "open" /\ client[c].sock = d =>
               /\ fd[d] \in Sockets /\ sock[fd[d]].st = "new"
               /\ \A e \in Clients : client[e].at = "open" /\ client[e].sock = d => e = c
      BY DEF OpenersInv, Selected, TypeOK
    <3>3. \A d \in Fds : initialized /\ listen = d =>
            fd[d] \in Sockets /\ sock[fd[d]].st = "listening"
      BY DEF ListenInv, Listening, Usual
    <3> QED BY <3>1, <3>2, <3>3
  <2>1. ASSUME NEW d \in Fds, fd[d] = None PROVE Owners(d) = {}
    BY <2>0, <2>1 DEF Owners, None, Sockets
  <2>2. ASSUME NEW d \in Fds, fd[d] # None PROVE \E o \in Owners(d) : Owners(d) = {o}
    <3>0. fd[d] \in Sockets
      BY <2>2 DEF TypeOK
    <3>1. CASE holds[fd[d]] # {}
      <4>1. pfd[fd[d]] = d
        BY <2>2, <3>0, <3>1 DEF PresentersInv, TableInv
      <4>2. <<"presenter", fd[d]>> \in Owners(d)
        BY <3>0, <3>1, <4>1 DEF Owners
      <4>3. \A o \in Owners(d) : o = <<"presenter", fd[d]>>
        BY <2>0, <3>0, <3>1, <4>1 DEF Owners
      <4> QED BY <4>2, <4>3
    <3>2. ASSUME NEW c \in Clients, client[c].at = "open", client[c].sock = d
          PROVE  \E o \in Owners(d) : Owners(d) = {o}
      <4>1. <<"client", c>> \in Owners(d)
        BY <3>2 DEF Owners
      <4>2. \A o \in Owners(d) : o = <<"client", c>>
        BY <2>0, <3>2 DEF Owners
      <4> QED BY <4>1, <4>2
    <3>3. CASE initialized /\ listen = d
      <4>1. <<"server", listen>> \in Owners(d)
        BY <3>3 DEF Owners
      <4>2. \A o \in Owners(d) : o = <<"server", listen>>
        BY <2>0, <3>3 DEF Owners
      <4> QED BY <4>1, <4>2
    <3> QED BY <2>2, <3>1, <3>2, <3>3 DEF NoLeakInv
  <2>3. \A s \in Sockets : holds[s] # {} => pfd[s] \in Fds /\ fd[pfd[s]] = s
    BY DEF PresentersInv
  <2>4. initialized => listen \in Fds /\ fd[listen] \in Listening
    BY DEF ServerInv, ListenInv, Usual
  <2> QED BY <2>1, <2>2, <2>3, <2>4 DEF DescriptorsOwned
<1> QED BY <1>1, <1>2, <1>3, PTL DEF Spec

-----------------------------------------------------------------------------
(* NET_OK means connected, if the application does not wait after NET_ERROR  *)
(* and does not connect to where connect() itself fails.                     *)
Documented == "late" \notin Habits /\ Dests \subseteq {"server"}

(* A client that waits, or that may wait again, has the presenter of the     *)
(* socket it asks about, the socket is that of an attempt to connect, and    *)
(* one that failed says so until it was asked. No two have the same.         *)
Trying(c) ==
  client[c].at = "select" \/ (Idle(c) /\ client[c].res \in {"NET_OK", "NET_TIMEOUT"})
Attempt(r, p) ==
  /\ p \in Sockets /\ pfd[p] = r.sock
  /\ sock[p].st \in {"connecting", "connected", "ended", "failed"}
  /\ sock[p].st = "failed" => sock[p].err
  /\ r.at = "idle" /\ r.res = "NET_OK" => sock[p].st \in {"connected", "ended"}
AttemptInv == \A c \in Clients : Trying(c) => Attempt(client[c], client[c].pres)
ToServerInv == \A c \in Clients : client[c].to = "server"
ApartInv ==
  \A c, e \in Clients : c # e /\ client[c].pres # None => client[c].pres # client[e].pres
OutcomeInv == AttemptInv /\ ToServerInv /\ ApartInv

-----------------------------------------------------------------------------
(* What can happen to a socket whose presenter stays.                        *)
Moves(p) ==
  \/ sock'[p] = sock[p]
  \/ sock[p].st = "connected" /\ sock'[p].st = "ended"
  \/ /\ sock[p].st = "connecting" /\ sock'[p].st \in {"connected", "failed"}
     /\ sock'[p].st = "failed" => sock'[p].err
  \/ \E c \in Clients : /\ Fails(c) /\ ~InConnect(c) /\ Selected(c) = p
                        /\ sock'[p].st = sock[p].st

LEMMA ClosesMoves ==
  ASSUME TypeOK, NEW D, NEW socks \in [Sockets -> SocketType], Closes(D, socks),
         NEW p \in Sockets, sock'[p].st # "closed"
  PROVE  \/ sock'[p] = socks[p]
         \/ socks[p].st = "connected" /\ sock'[p].st = "ended"
<1> DEFINE closed == {fd[d] : d \in D}
           ended  == [socks[p] EXCEPT !.st = "ended"]
           reset  == [socks[p] EXCEPT !.st = "ended", !.err = TRUE]
<1>1. ended.st = "ended" /\ reset.st = "ended"
  <2>1. socks[p] \in SocketType
    OBVIOUS
  <2> QED BY <2>1 DEF SocketType
<1>2. p \notin closed
  BY DEF Closes, Socket
<1>3. \/ sock'[p] = socks[p]
      \/ socks[p].st = "connected" /\ (sock'[p] = ended \/ sock'[p] = reset)
  BY <1>2 DEF Closes
<1> HIDE DEF ended, reset
<1>4. sock'[p] = ended => sock'[p].st = "ended"
  BY <1>1
<1>5. sock'[p] = reset => sock'[p].st = "ended"
  BY <1>1
<1> QED BY <1>3, <1>4, <1>5

LEMMA SocketMoves ==
  ASSUME IInv, IInv', [Next]_vars, NEW p \in Sockets, holds[p] # {}, holds'[p] # {}
  PROVE  pfd'[p] = pfd[p] /\ Moves(p)
<1>0. /\ TypeOK /\ sock[p] \in SocketType /\ pfd[p] \in Fds
      /\ sock[p].st \notin {"none", "new", "listening", "closed"}
      /\ sock'[p].st # "closed"
  BY DEF IInv, TypeOK, PresentersInv
<1>1. ASSUME NEW D, Closes(D, sock) PROVE Moves(p)
  <2>1. sock \in [Sockets -> SocketType]
    BY <1>0 DEF TypeOK
  <2> QED BY <1>0, <1>1, <2>1, ClosesMoves DEF Moves
<1>2. ASSUME NEW refs, Releases(refs) PROVE pfd'[p] = pfd[p] /\ Moves(p)
  <2>1. Closes(ClosedBy(refs), sock) /\ holds' = refs
        /\ pfd' = [s \in Sockets |-> IF refs[s] = {} THEN NoFd ELSE pfd[s]]
    BY <1>2 DEF Releases
  <2> QED BY <1>1, <2>1
<1>3. ASSUME UNCHANGED <<sock, pfd>> PROVE pfd'[p] = pfd[p] /\ Moves(p)
  BY <1>3 DEF Moves
<1>4. ASSUME NEW s \in Unused, NEW d, UNCHANGED pfd,
             \E r : sock' = [sock EXCEPT ![s] = r]
      PROVE  pfd'[p] = pfd[p] /\ Moves(p)
  <2>1. s # p
    BY <1>0 DEF Unused
  <2>2. sock'[p] = sock[p]
    BY <1>0, <1>4, <2>1 DEF TypeOK
  <2> QED BY <1>4, <2>2 DEF Moves
<1>5. ASSUME NEW c \in Clients, Client(c) PROVE pfd'[p] = pfd[p] /\ Moves(p)
  <2>1. CASE OpenSocket(c)
    <3>1. PICK d \in Free, s \in Unused : Opens(d, s, "new")
      BY <2>1 DEF OpenSocket
    <3>2. sock' = [sock EXCEPT ![s] = [sock[s] EXCEPT !.st = "new"]]
      BY <3>1 DEF Opens
    <3> QED BY <1>4, <2>1, <3>2 DEF OpenSocket, ownerVars
  <2>2. CASE StartConnect(c)
    <3> DEFINE s == Selected(c)
               refs == [Without(c) EXCEPT ![s] = {c}]
    <3>1. s \in Sockets /\ sock[s].st = "new" /\ s # p
      BY <1>0, <2>2 DEF StartConnect, IInv, OpenersInv, Selected, TypeOK
    <3>2. CASE \E st \in {"failed", "connecting"} :
                 /\ holds' = refs
                 /\ pfd' = [x \in Sockets |-> IF x = s THEN client[c].sock
                                       ELSE IF refs[x] = {} THEN NoFd ELSE pfd[x]]
                 /\ Closes(ClosedBy(refs), [sock EXCEPT ![s].st = st])
      <4>1. PICK st \in {"failed", "connecting"} :
              Closes(ClosedBy(refs), [sock EXCEPT ![s].st = st])
        BY <3>2
      <4>2. [sock EXCEPT ![s].st = st] \in [Sockets -> SocketType]
            /\ [sock EXCEPT ![s].st = st][p] = sock[p]
        BY <1>0, <3>1 DEF TypeOK, SocketType
      <4>3. \/ sock'[p] = sock[p]
            \/ sock[p].st = "connected" /\ sock'[p].st = "ended"
        BY <1>0, <4>1, <4>2, ClosesMoves
      <4> QED BY <3>1, <3>2, <4>3 DEF Moves
    <3>3. CASE /\ holds' = Without(c)
               /\ pfd' = [x \in Sockets |-> IF Without(c)[x] = {} THEN NoFd ELSE pfd[x]]
               /\ \E D : Closes(D, sock)
      BY <1>1, <3>3
    <3> QED BY <2>2, <3>2, <3>3 DEF StartConnect, Selected
  <2>3. CASE Fails(c) /\ ~InConnect(c)
    <3>1. /\ pfd' = pfd
          /\ sock' = [x \in Sockets |-> IF x = Selected(c) THEN [sock[x] EXCEPT !.err = FALSE]
                                        ELSE sock[x]]
      BY <2>3 DEF Fails, ownerVars
    <3>2. [sock[p] EXCEPT !.err = FALSE].st = sock[p].st
      BY <1>0 DEF SocketType
    <3>3. CASE p = Selected(c)
      BY <2>3, <3>1, <3>2, <3>3 DEF Moves
    <3>4. CASE p # Selected(c)
      BY <3>1, <3>4 DEF Moves
    <3> QED BY <3>3, <3>4
  <2>4. CASE Fails(c) /\ InConnect(c)
    BY <1>2, <2>4 DEF Fails
  <2>5. CASE DeleteClient(c)
    BY <1>2, <2>5 DEF DeleteClient
  <2>6. CASE GetStream(c)
    BY <1>3, <2>6 DEF GetStream, tableVars
  <2>7. CASE ~OpenSocket(c) /\ ~StartConnect(c) /\ ~Fails(c) /\ ~DeleteClient(c)
             /\ ~GetStream(c)
    BY <1>3, <1>5, <2>7
       DEF Client, InCall, Connect, NoSocket, Succeeds, TimesOut, WaitConnect,
           tableVars, ownerVars
  <2> QED BY <2>1, <2>2, <2>3, <2>4, <2>5, <2>6, <2>7
<1>6. ASSUME NEW s \in Sockets, DropStream(s) PROVE pfd'[p] = pfd[p] /\ Moves(p)
  BY <1>2, <1>6 DEF DropStream
<1>7. ASSUME NEW s \in Sockets, System(s) PROVE pfd'[p] = pfd[p] /\ Moves(p)
  <2>1. sock[s] \in SocketType /\ pfd' = pfd /\ sock[s].st = "connecting"
    BY <1>0, <1>7 DEF System, Answers, Refuses, TypeOK, ownerVars
  <2>2. [sock[s] EXCEPT !.st = "connected"].st = "connected"
        /\ [sock[s] EXCEPT !.st = "failed", !.err = TRUE].st = "failed"
        /\ [sock[s] EXCEPT !.st = "failed", !.err = TRUE].err
    BY <2>1 DEF SocketType
  <2>3. \/ sock' = [sock EXCEPT ![s] = [sock[s] EXCEPT !.st = "connected"]]
        \/ sock' = [sock EXCEPT ![s] = [sock[s] EXCEPT !.st = "failed", !.err = TRUE]]
    BY <1>7 DEF System, Answers, Refuses
  <2>4. CASE s # p
    <3>1. sock'[p] = sock[p]
      BY <1>0, <2>3, <2>4 DEF TypeOK
    <3> QED BY <2>1, <3>1 DEF Moves
  <2>5. CASE s = p
    <3>1. sock'[p].st = "connected" \/ (sock'[p].st = "failed" /\ sock'[p].err)
      BY <1>0, <2>2, <2>3, <2>5 DEF TypeOK
    <3> QED BY <2>1, <2>5, <3>1 DEF Moves
  <2> QED BY <2>4, <2>5
<1>8. CASE Initialize
  <2>1. UNCHANGED pfd
    BY <1>8 DEF Initialize, ownerVars
  <2>2. CASE UNCHANGED sock
    BY <1>3, <2>1, <2>2
  <2>3. CASE \E d \in Free, s \in Unused : \E st : Opens(d, s, st)
    <3>1. PICK d \in Free, s \in Unused : \E st : Opens(d, s, st)
      BY <2>3
    <3>2. \E st : sock' = [sock EXCEPT ![s] = [sock[s] EXCEPT !.st = st]]
      BY <3>1 DEF Opens
    <3> QED BY <1>4, <2>1, <3>2
  <2> QED BY <1>8, <2>2, <2>3 DEF Initialize
<1>9. CASE Accept
  <2>1. CASE UNCHANGED <<tableVars, ownerVars>>
    BY <1>3, <2>1 DEF tableVars, ownerVars
  <2>2. CASE ~UNCHANGED <<tableVars, ownerVars>>
    <3>1. PICK d \in Free, s \in Unused, ok \in {TRUE, "nofcntl" \notin Habits} :
            /\ sock' = [sock EXCEPT ![s] = [@ EXCEPT !.st = "accepted", !.from = Head(queue)]]
            /\ IF Presents(d, ok)
               THEN /\ pfd' = [pfd EXCEPT ![s] = d]
                    /\ holds' = [holds EXCEPT ![s] = {"app"}]
               ELSE UNCHANGED ownerVars
      BY <1>9, <2>2 DEF Accept
    <3>2. s # p
      BY <1>0 DEF Unused
    <3>3. sock'[p] = sock[p] /\ pfd'[p] = pfd[p]
      BY <1>0, <3>1, <3>2 DEF TypeOK, ownerVars
    <3> QED BY <3>3 DEF Moves
  <2> QED BY <2>1, <2>2
<1>10. CASE DeleteServer
  BY <1>1, <1>10 DEF DeleteServer, ownerVars
<1>11. CASE Select \/ Aborts \/ UNCHANGED vars
  BY <1>3, <1>11 DEF Select, Aborts, vars, tableVars, ownerVars
<1> QED BY <1>5, <1>6, <1>7, <1>8, <1>9, <1>10, <1>11 DEF Next, Server

-----------------------------------------------------------------------------
(* What a call that returns has changed.                                     *)
LEMMA ReturnsMeans ==
  ASSUME TypeOK, NEW c \in Clients, NEW res \in {"NET_OK", "NET_ERROR", "NET_TIMEOUT"},
         NEW pres \in Sockets \cup {None}, Returns(c, res, pres)
  PROVE  /\ client'[c].at = "idle" /\ client'[c].res = res /\ client'[c].pres = pres
         /\ client'[c].sock = client[c].sock /\ client'[c].to = client[c].to
         /\ \A e \in Clients : e # c => client'[e] = client[e]
<1> DEFINE r == [client[c] EXCEPT !.at = "idle", !.call = "none", !.res = res, !.pres = pres]
<1>1. client[c] \in ClientType
  BY DEF TypeOK
<1>2. /\ r.at = "idle" /\ r.res = res /\ r.pres = pres
      /\ r.sock = client[c].sock /\ r.to = client[c].to
  BY <1>1 DEF ClientType
<1>3. client' = [client EXCEPT ![c] = r]
  BY DEF Returns
<1> HIDE DEF r
<1> QED BY <1>2, <1>3 DEF TypeOK

(* The socket that a client asks about is that of its attempt.               *)
LEMMA AsksItsOwn ==
  ASSUME IInv, RefsInv, OutcomeInv, NEW c \in Clients, Trying(c)
  PROVE  /\ client[c].pres \in Sockets /\ Selected(c) = client[c].pres
         /\ c \in holds[client[c].pres] /\ Attempt(client[c], client[c].pres)
<1>1. client[c].pres \in Sockets /\ pfd[client[c].pres] = client[c].sock
      /\ Attempt(client[c], client[c].pres)
  BY DEF OutcomeInv, AttemptInv, Attempt
<1>2. c \in holds[client[c].pres]
  BY <1>1 DEF RefsInv, None, Sockets
<1>3. fd[pfd[client[c].pres]] = client[c].pres
  BY <1>1, <1>2 DEF IInv, PresentersInv
<1> QED BY <1>1, <1>2, <1>3 DEF Selected

(* A client that takes no part in a step loses nothing by it.                *)
LEMMA OthersKeep ==
  ASSUME IInv, IInv', RefsInv, RefsInv', OutcomeInv, [Next]_vars,
         NEW e \in Clients, client'[e] = client[e], Trying(e)
  PROVE  Attempt(client[e], client[e].pres)'
<1> DEFINE p == client[e].pres
<1>1. p \in Sockets /\ Selected(e) = p /\ e \in holds[p] /\ Attempt(client[e], p)
  BY AsksItsOwn
<1>2. e \in holds'[p]
  BY <1>1 DEF RefsInv, None, Sockets
<1>3. pfd'[p] = pfd[p] /\ Moves(p)
  BY <1>1, <1>2, SocketMoves
<1>4. ASSUME NEW c \in Clients, Fails(c), ~InConnect(c), Selected(c) = p PROVE FALSE
  <2>1. Trying(c)
    BY <1>4 DEF Fails, Trying
  <2>2. client[c].pres = p
    BY <1>4, <2>1, AsksItsOwn
  <2>3. c = e
    BY <1>1, <2>2 DEF OutcomeInv, ApartInv, None, Sockets
  <2>4. Returns(c, "NET_ERROR", p) /\ client[c].at = "select" /\ p \in Sockets \cup {None}
    BY <1>1, <1>4, <2>2 DEF Fails
  <2>5. client'[c].at = "idle"
    BY <2>4, ReturnsMeans DEF IInv
  <2> QED BY <2>3, <2>4, <2>5
<1>5. CASE sock'[p] = sock[p]
  BY <1>1, <1>3, <1>5 DEF Attempt
<1>6. CASE sock[p].st = "connected" /\ sock'[p].st = "ended"
  BY <1>1, <1>3, <1>6 DEF Attempt
<1>7. CASE /\ sock[p].st = "connecting" /\ sock'[p].st \in {"connected", "failed"}
           /\ sock'[p].st = "failed" => sock'[p].err
  BY <1>1, <1>3, <1>7 DEF Attempt
<1> QED BY <1>3, <1>4, <1>5, <1>6, <1>7 DEF Moves

(* If the presenters are those of before, or of a socket that nobody held,   *)
(* they stay apart.                                                          *)
LEMMA ApartKept ==
  ASSUME IInv, RefsInv, ApartInv, NEW c \in Clients,
         \A e \in Clients \ {c} : client'[e].pres = client[e].pres,
         \/ client'[c].pres \in {None, client[c].pres}
         \/ client'[c].pres \in Sockets /\ holds[client'[c].pres] = {}
  PROVE  ApartInv'
<1>1. CASE client'[c].pres \in {None, client[c].pres}
  BY <1>1 DEF ApartInv
<1>2. CASE client'[c].pres \in Sockets /\ holds[client'[c].pres] = {}
  <2>1. \A e \in Clients : client[e].pres # client'[c].pres
    BY <1>2 DEF RefsInv, None, Sockets
  <2> QED BY <2>1 DEF ApartInv
<1> QED BY <1>1, <1>2

(* If every client is as before, or its own step was right, all are right.   *)
LEMMA OutcomeKept ==
  ASSUME IInv, IInv', RefsInv, RefsInv', OutcomeInv, [Next]_vars,
         NEW c \in Clients, \A e \in Clients \ {c} : client'[e] = client[e],
         client'[c].to = "server",
         \/ client'[c].pres \in {None, client[c].pres}
         \/ client'[c].pres \in Sockets /\ holds[client'[c].pres] = {},
         Trying(c)' => Attempt(client[c], client[c].pres)'
  PROVE  OutcomeInv'
<1>1. AttemptInv'
  <2> SUFFICES ASSUME NEW e \in Clients, Trying(e)'
               PROVE  Attempt(client[e], client[e].pres)'
    BY DEF AttemptInv
  <2>1. CASE e = c
    BY <2>1
  <2>2. CASE e # c
    <3>1. client'[e] = client[e] /\ Trying(e)
      BY <2>2 DEF Trying, Idle
    <3> QED BY <3>1, OthersKeep
  <2> QED BY <2>1, <2>2
<1>2. ApartInv'
  BY ApartKept DEF OutcomeInv
<1>3. ToServerInv'
  BY DEF OutcomeInv, ToServerInv
<1> QED BY <1>1, <1>2, <1>3 DEF OutcomeInv

LEMMA OutcomeStep ==
  Documented /\ IInv /\ IInv' /\ RefsInv /\ RefsInv' /\ OutcomeInv /\ [Next]_vars
    => OutcomeInv'
<1> SUFFICES ASSUME Documented, IInv, IInv', RefsInv, RefsInv', OutcomeInv, [Next]_vars
             PROVE  OutcomeInv'
  OBVIOUS
<1>0. TypeOK
  BY DEF IInv
<1>1. ASSUME UNCHANGED client PROVE OutcomeInv'
  <2>1. AttemptInv'
    <3> SUFFICES ASSUME NEW e \in Clients, Trying(e)'
                 PROVE  Attempt(client[e], client[e].pres)'
      BY DEF AttemptInv
    <3>1. client'[e] = client[e] /\ Trying(e)
      BY <1>1 DEF Trying, Idle
    <3> QED BY <3>1, OthersKeep
  <2> QED BY <1>1, <2>1 DEF OutcomeInv, ApartInv, ToServerInv
<1>2. ASSUME NEW c \in Clients, Client(c) PROVE OutcomeInv'
  <2> DEFINE r == client[c]
  <2>0. r \in ClientType /\ r.to = "server" /\ r.pres \in Sockets \cup {None}
    BY <1>0 DEF TypeOK, OutcomeInv, ToServerInv, ClientType
  <2>1. ASSUME NEW q, client' = [client EXCEPT ![c] = q], q.to = "server", q.pres = r.pres,
               q.at \notin {"idle", "select"}
        PROVE  OutcomeInv'
    <3>1. client'[c] = q /\ \A e \in Clients \ {c} : client'[e] = client[e]
      BY <1>0, <2>1 DEF TypeOK
    <3>2. ~Trying(c)'
      BY <2>1, <3>1 DEF Trying, Idle
    <3> QED BY <2>1, <3>1, <3>2, OutcomeKept
  <2>2. ASSUME NEW pres \in {None, r.pres}, Returns(c, "NET_ERROR", pres) PROVE OutcomeInv'
    <3>1. /\ client'[c].at = "idle" /\ client'[c].res = "NET_ERROR" /\ client'[c].pres = pres
          /\ client'[c].to = "server"
          /\ \A e \in Clients \ {c} : client'[e] = client[e]
      BY <1>0, <2>0, <2>2, ReturnsMeans
    <3>2. ~Trying(c)'
      BY <3>1 DEF Trying, Idle
    <3> QED BY <3>1, <3>2, OutcomeKept
  <2>3. ASSUME NEW res \in {"NET_OK", "NET_TIMEOUT"}, Returns(c, res, r.pres),
               UNCHANGED <<tableVars, ownerVars>>, Trying(c),
               res = "NET_OK" => sock[r.pres].st \in {"connected", "ended"}
        PROVE  OutcomeInv'
    <3>1. /\ client'[c].at = "idle" /\ client'[c].res = res /\ client'[c].pres = r.pres
          /\ client'[c].to = "server" /\ client'[c].sock = r.sock
          /\ \A e \in Clients \ {c} : client'[e] = client[e]
      BY <1>0, <2>0, <2>3, ReturnsMeans
    <3>2. Attempt(r, r.pres)
      BY <2>3, AsksItsOwn
    <3>3. Attempt(client[c], client[c].pres)'
      BY <2>3, <3>1, <3>2 DEF Attempt, tableVars, ownerVars
    <3> QED BY <3>1, <3>3, OutcomeKept
  <2>4. ASSUME NEW q, client' = [client EXCEPT ![c] = q], q.to = "server", q.pres = r.pres,
               q.sock = r.sock, q.at = "select", UNCHANGED <<tableVars, ownerVars>>, Trying(c)
        PROVE  OutcomeInv'
    <3>1. client'[c] = q /\ \A e \in Clients \ {c} : client'[e] = client[e]
      BY <1>0, <2>4 DEF TypeOK
    <3>2. Attempt(r, r.pres)
      BY <2>4, AsksItsOwn
    <3>3. Attempt(client[c], client[c].pres)'
      BY <2>4, <3>1, <3>2 DEF Attempt, tableVars, ownerVars
    <3> QED BY <2>4, <3>1, <3>3, OutcomeKept
  <2>5. CASE \E dest \in Dests, call \in {"connect", "connectAndWait"} : Connect(c, dest, call)
    <3>1. PICK dest \in Dests, call \in {"connect", "connectAndWait"} : Connect(c, dest, call)
      BY <2>5
    <3> DEFINE q == [r EXCEPT !.at = "lookup", !.call = call, !.sock = NoFd, !.to = dest]
    <3>2. dest = "server"
      BY DEF Documented
    <3>3. q.to = "server" /\ q.pres = r.pres /\ q.at = "lookup"
      BY <2>0, <3>2 DEF ClientType
    <3>4. client' = [client EXCEPT ![c] = q]
      BY <3>1 DEF Connect
    <3> HIDE DEF q
    <3> QED BY <2>1, <3>3, <3>4
  <2>6. CASE NoSocket(c)
    BY <2>2, <2>6 DEF NoSocket
  <2>7. CASE OpenSocket(c)
    <3>1. PICK d : client' = [client EXCEPT ![c] = [@ EXCEPT !.at = "open", !.sock = d]]
      BY <2>7 DEF OpenSocket
    <3> DEFINE q == [r EXCEPT !.at = "open", !.sock = d]
    <3>2. q.to = "server" /\ q.pres = r.pres /\ q.at = "open"
      BY <2>0 DEF ClientType
    <3>3. client' = [client EXCEPT ![c] = q]
      BY <3>1
    <3> HIDE DEF q
    <3> QED BY <2>1, <3>2, <3>3
  <2>8. CASE StartConnect(c)
    <3> DEFINE s == Selected(c)
               q == [r EXCEPT !.at = "select", !.to = "server", !.pres = s]
               refs == [Without(c) EXCEPT ![s] = {c}]
    <3>1. /\ s \in Sockets /\ r.sock \in Fds /\ holds[s] = {} /\ sock[s] \in SocketType
          /\ r.at = "open"
      BY <1>0, <2>8 DEF StartConnect, IInv, OpenersInv, Selected, TypeOK
    <3>2. CASE Returns(c, "NET_ERROR", None)
      BY <2>2, <3>2
    <3>3. CASE /\ client' = [client EXCEPT ![c] = q]
               /\ pfd' = [p \in Sockets |-> IF p = s THEN r.sock
                                     ELSE IF refs[p] = {} THEN NoFd ELSE pfd[p]]
               /\ Closes(ClosedBy(refs), [sock EXCEPT ![s].st = "connecting"])
      <4>1. q.to = "server" /\ q.pres = s /\ q.at = "select" /\ q.sock = r.sock
        BY <2>0 DEF ClientType
      <4> HIDE DEF q
      <4>2. client'[c] = q /\ \A e \in Clients \ {c} : client'[e] = client[e]
        BY <1>0, <3>3 DEF TypeOK
      <4>3. sock'[s].st # "closed"
        <5>1. c \in holds'[s]
          BY <3>1, <4>1, <4>2 DEF RefsInv, None, Sockets
        <5> QED BY <3>1, <5>1 DEF IInv, PresentersInv
      <4>4. /\ [sock EXCEPT ![s].st = "connecting"] \in [Sockets -> SocketType]
            /\ [sock EXCEPT ![s].st = "connecting"][s].st = "connecting"
        <5>1. [sock[s] EXCEPT !.st = "connecting"] \in SocketType
              /\ [sock[s] EXCEPT !.st = "connecting"].st = "connecting"
          BY <3>1 DEF SocketType
        <5> QED BY <1>0, <3>1, <5>1 DEF TypeOK
      <4>5. sock'[s].st = "connecting"
        BY <1>0, <3>1, <3>3, <4>3, <4>4, ClosesMoves
      <4>6. pfd'[s] = r.sock
        BY <3>1, <3>3
      <4>7. Attempt(client[c], client[c].pres)'
        BY <3>1, <4>1, <4>2, <4>5, <4>6 DEF Attempt
      <4> QED BY <3>1, <4>1, <4>2, <4>7, OutcomeKept
    <3> QED BY <2>0, <2>8, <3>2, <3>3 DEF StartConnect, Selected
  <2>9. CASE Succeeds(c)
    <3>1. Trying(c) /\ Returns(c, "NET_OK", r.pres) /\ UNCHANGED <<tableVars, ownerVars>>
      BY <2>9 DEF Succeeds, Trying
    <3>2. r.pres \in Sockets /\ Selected(c) = r.pres /\ Attempt(r, r.pres)
      BY <3>1, AsksItsOwn
    <3>3. sock[r.pres].st \in {"connected", "ended"}
      BY <2>9, <3>2 DEF Succeeds, Writable, SoError, Attempt
    <3> QED BY <2>3, <3>1, <3>3
  <2>10. CASE Fails(c)
    BY <2>2, <2>10 DEF Fails
  <2>11. CASE TimesOut(c)
    <3>1. Trying(c) /\ UNCHANGED <<tableVars, ownerVars>> /\ r.at = "select"
      BY <2>11 DEF TimesOut, Trying
    <3>2. CASE Returns(c, "NET_TIMEOUT", r.pres)
      BY <2>3, <3>1, <3>2
    <3>3. CASE client' = [client EXCEPT ![c].call = "waitAgain"]
      <4> DEFINE q == [r EXCEPT !.call = "waitAgain"]
      <4>1. q.to = "server" /\ q.pres = r.pres /\ q.sock = r.sock /\ q.at = "select"
        BY <2>0, <3>1 DEF ClientType
      <4>2. client' = [client EXCEPT ![c] = q]
        BY <3>3
      <4> HIDE DEF q
      <4> QED BY <2>4, <3>1, <4>1, <4>2
    <3> QED BY <2>11, <3>2, <3>3 DEF TimesOut
  <2>12. CASE WaitConnect(c)
    <3> DEFINE q == [r EXCEPT !.at = "select", !.call = "wait"]
    <3>1. Trying(c) /\ UNCHANGED <<tableVars, ownerVars>>
      BY <2>12 DEF WaitConnect, Trying, Documented
    <3>2. q.to = "server" /\ q.pres = r.pres /\ q.sock = r.sock /\ q.at = "select"
      BY <2>0 DEF ClientType
    <3>3. client' = [client EXCEPT ![c] = q]
      BY <2>12 DEF WaitConnect
    <3> HIDE DEF q
    <3> QED BY <2>4, <3>1, <3>2, <3>3
  <2>13. CASE GetStream(c)
    BY <1>1, <2>13 DEF GetStream
  <2>14. CASE DeleteClient(c)
    <3>1. client'[c] = NewClient /\ \A e \in Clients \ {c} : client'[e] = client[e]
      BY <1>0, <2>14 DEF DeleteClient, TypeOK
    <3>2. client'[c].to = "server" /\ client'[c].pres = None /\ ~Trying(c)'
      BY <3>1 DEF NewClient, Trying, Idle
    <3> QED BY <3>1, <3>2, OutcomeKept
  <2> QED BY <1>2, <2>5, <2>6, <2>7, <2>8, <2>9, <2>10, <2>11, <2>12, <2>13, <2>14
          DEF Client, InCall
<1>3. CASE \E s \in Sockets : DropStream(s) \/ System(s)
  BY <1>1, <1>3 DEF DropStream, System, Answers, Refuses
<1>4. CASE Server \/ Aborts \/ UNCHANGED vars
  BY <1>1, <1>4 DEF Server, Initialize, Select, Accept, DeleteServer, Aborts, vars
<1> QED BY <1>2, <1>3, <1>4 DEF Next

LEMMA OutcomeInit == Init => OutcomeInv
  BY DEF Init, OutcomeInv, AttemptInv, ToServerInv, ApartInv, Trying, Idle, NewClient

(* NET_OK means that the socket the client has is connected, or was until    *)
(* the other end left, if wait_connect is only called after a timeout or     *)
(* success, and connect() itself does not fail.                              *)
THEOREM SuccessMeansConnected == Documented => (Spec => []OkMeansConnected)
<1> SUFFICES ASSUME Documented PROVE Spec => []OkMeansConnected
  OBVIOUS
<1> DEFINE Inv == IInv /\ RefsInv /\ OutcomeInv
<1>1. Init => Inv
  BY InitInv, OutcomeInit
<1>2. Inv /\ [Next]_vars => Inv'
  <2>1. IInv /\ RefsInv /\ [Next]_vars => IInv' /\ RefsInv'
    BY Step, RefsStep
  <2> QED BY <2>1, OutcomeStep
<1>3. Inv => OkMeansConnected
  <2> SUFFICES ASSUME Inv, NEW c \in Clients, Idle(c), client[c].res = "NET_OK"
               PROVE  LET s == client[c].pres
                      IN /\ s # None /\ Selected(c) = s /\ c \in holds[s]
                         /\ sock[s].st \in {"connected", "ended"}
    BY DEF OkMeansConnected
  <2>1. Trying(c)
    BY DEF Trying
  <2>2. /\ client[c].pres \in Sockets /\ Selected(c) = client[c].pres
        /\ c \in holds[client[c].pres] /\ Attempt(client[c], client[c].pres)
    BY <2>1, AsksItsOwn
  <2> QED BY <2>2 DEF Attempt, Idle, None, Sockets
<1> HIDE DEF Inv
<1> QED BY <1>1, <1>2, <1>3, PTL DEF Spec

-----------------------------------------------------------------------------
(* A connection that the server's system has made, and what it comes to.     *)
Met == {"connected", "ended", "closed"}

FromInv ==
  /\ \A a \in Sockets : sock[a].from # None =>
       sock[a].st = "accepted" /\ sock[sock[a].from].st \in Met
  /\ \A a, b \in Sockets : sock[a].from # None /\ sock[a].from = sock[b].from => a = b
QueueInv ==
  /\ \A i \in DOMAIN queue :
       sock[queue[i]].st \in Met /\ \A a \in Sockets : sock[a].from # queue[i]
  /\ \A i, j \in DOMAIN queue : queue[i] = queue[j] => i = j
StandsInv == \A s \in Sockets : sock[s].st = "connected" => s \in Waiting \/ Handed(s) # {}

(* Who waits to be accepted was not accepted, nobody waits or is accepted    *)
(* twice, and a connection that stands does one of the two.                  *)
OnceInv == FromInv /\ QueueInv /\ StandsInv

(* The hypothesis that makes the code present what it accepts.               *)
Presenting == "nofcntl" \notin Habits /\ 0 \notin Fds

LEMMA QueueType ==
  ASSUME TypeOK
  PROVE  /\ Len(queue) \in Nat /\ DOMAIN queue = 1 .. Len(queue)
         /\ \A i \in DOMAIN queue : queue[i] \in Sockets
         /\ queue # <<>> => /\ Head(queue) = queue[1] /\ 1 \in DOMAIN queue
                            /\ Len(Tail(queue)) = Len(queue) - 1
                            /\ DOMAIN Tail(queue) = 1 .. Len(queue) - 1
                            /\ \A i \in 1 .. Len(queue) - 1 : Tail(queue)[i] = queue[i + 1]
BY DEF TypeOK

(* A step that leaves the queue and the presenters alone.                    *)
LEMMA OnceQuiet ==
  ASSUME TypeOK, OnceInv, UNCHANGED <<pfd, queue>>,
         \A s \in Sockets : sock'[s].from = sock[s].from,
         \A s \in Sockets : \/ sock'[s].st = sock[s].st
                            \/ /\ sock[s].st \in {"none", "new", "connecting"}
                               /\ sock'[s].st # "connected"
  PROVE  OnceInv'
<1>1. \A i \in DOMAIN queue : queue[i] \in Sockets
  BY QueueType
<1>2. \A a \in Sockets : sock[a].from \in Sockets \cup {None}
  BY DEF TypeOK, SocketType
<1>3. FromInv'
  BY <1>2 DEF OnceInv, FromInv, Met
<1>4. QueueInv'
  BY <1>1 DEF OnceInv, QueueInv, Met
<1>5. StandsInv'
  BY DEF OnceInv, StandsInv, Waiting, Handed
<1> QED BY <1>3, <1>4, <1>5 DEF OnceInv

(* A step that closes descriptors, among them those of the presenters that   *)
(* are let go of.                                                            *)
LEMMA OnceClosed ==
  ASSUME IInv, OnceInv, NEW D, NEW socks \in [Sockets -> SocketType], Closes(D, socks),
         \A s \in Sockets :
           /\ socks[s].from = sock[s].from
           /\ \/ socks[s].st = sock[s].st
              \/ sock[s].st = "new" /\ socks[s].st \in {"connecting", "failed"},
         \A a \in Sockets : holds[a] # {} /\ pfd'[a] = NoFd => pfd[a] \in D
  PROVE  OnceInv'
<1> DEFINE closed == {fd[d] : d \in D}
           deaf   == closed \cap Listening # {}
<1>0. TypeOK
  BY DEF IInv
<1>1. \A i \in DOMAIN queue : queue[i] \in Sockets
  BY <1>0, QueueType
<1>2. \A a \in Sockets : sock[a].from \in Sockets \cup {None}
  BY <1>0 DEF TypeOK, SocketType
<1>3. ASSUME NEW s \in Sockets
      PROVE  IF s \in closed THEN sock'[s].st = "closed" /\ sock'[s].from = None
             ELSE /\ sock'[s].from = sock[s].from
                  /\ \/ sock'[s].st = socks[s].st
                     \/ socks[s].st = "connected" /\ sock'[s].st = "ended"
                  /\ sock'[s].st = "connected" =>
                       /\ ~ (deaf /\ s \in Waiting)
                       /\ \A a \in closed : socks[a].from # s
  <2> DEFINE e == [socks[s] EXCEPT !.st = "ended"]
             f == [socks[s] EXCEPT !.st = "ended", !.err = TRUE]
  <2>1. socks[s] \in SocketType
    OBVIOUS
  <2>2. e.st = "ended" /\ e.from = socks[s].from /\ f.st = "ended" /\ f.from = socks[s].from
    BY <2>1 DEF SocketType
  <2>3. sock'[s] = IF s \in closed THEN Socket("closed")
                   ELSE IF socks[s].st = "connected" /\ deaf /\ s \in Waiting THEN f
                   ELSE IF socks[s].st = "connected" /\ \E a \in closed : socks[a].from = s THEN e
                   ELSE socks[s]
    BY DEF Closes
  <2> HIDE DEF e, f, closed, deaf
  <2>4. CASE s \in closed
    BY <2>3, <2>4 DEF Socket
  <2>5. CASE s \notin closed /\ sock'[s] = f /\ socks[s].st = "connected"
    BY <2>2, <2>5
  <2>6. CASE s \notin closed /\ sock'[s] = e /\ socks[s].st = "connected"
    BY <2>2, <2>6
  <2>7. CASE /\ s \notin closed /\ sock'[s] = socks[s]
             /\ ~ (socks[s].st = "connected" /\ deaf /\ s \in Waiting)
             /\ ~ (socks[s].st = "connected" /\ \E a \in closed : socks[a].from = s)
    BY <2>7
  <2> QED BY <2>3, <2>4, <2>5, <2>6, <2>7
<1>4. queue' = IF deaf THEN <<>> ELSE queue
  BY DEF Closes
<1> HIDE DEF closed, deaf
<1>5. \A s \in Sockets : sock[s].st \in Met => sock'[s].st \in Met
  BY <1>3 DEF Met
<1>6. \A a \in Sockets : sock'[a].from # None =>
        sock'[a].from = sock[a].from /\ sock'[a].st = sock[a].st /\ sock[a].st = "accepted"
  BY <1>3 DEF OnceInv, FromInv
<1>7. FromInv'
  <2>1. ASSUME NEW a \in Sockets, sock'[a].from # None
        PROVE  sock'[a].st = "accepted" /\ sock'[sock'[a].from].st \in Met
    <3>1. sock[a].from \in Sockets /\ sock[sock[a].from].st \in Met
      BY <1>2, <1>6, <2>1 DEF OnceInv, FromInv
    <3> QED BY <1>5, <1>6, <2>1, <3>1
  <2>2. ASSUME NEW a \in Sockets, NEW b \in Sockets, sock'[a].from # None,
               sock'[a].from = sock'[b].from
        PROVE  a = b
    BY <1>6, <2>2 DEF OnceInv, FromInv
  <2> QED BY <2>1, <2>2 DEF FromInv
<1>8. QueueInv'
  <2>1. CASE deaf
    BY <1>4, <2>1 DEF QueueInv
  <2>2. CASE ~deaf
    <3>1. queue' = queue
      BY <1>4, <2>2
    <3>2. ASSUME NEW i \in DOMAIN queue
          PROVE  sock'[queue[i]].st \in Met /\ \A a \in Sockets : sock'[a].from # queue[i]
      <4>1. queue[i] \in Sockets /\ queue[i] # None
        BY <1>1 DEF Sockets, None
      <4>2. sock[queue[i]].st \in Met /\ \A a \in Sockets : sock[a].from # queue[i]
        BY DEF OnceInv, QueueInv
      <4> QED BY <1>5, <1>6, <4>1, <4>2
    <3> QED BY <3>1, <3>2 DEF OnceInv, QueueInv
  <2> QED BY <2>1, <2>2
<1>9. StandsInv'
  <2> SUFFICES ASSUME NEW s \in Sockets, sock'[s].st = "connected"
               PROVE  s \in Waiting' \/ Handed(s)' # {}
    BY DEF StandsInv
  <2>1. /\ s \notin closed /\ sock[s].st = "connected" /\ ~ (deaf /\ s \in Waiting)
        /\ \A a \in closed : socks[a].from # s
    BY <1>3
  <2>2. CASE s \in Waiting
    BY <1>4, <2>1, <2>2 DEF Waiting
  <2>3. CASE Handed(s) # {}
    <3>1. PICK a \in Sockets : sock[a].from = s /\ pfd[a] # NoFd
      BY <2>3 DEF Handed
    <3>2. a \notin closed
      BY <2>1, <3>1
    <3>3. sock'[a].from = s
      BY <1>3, <3>1, <3>2
    <3>4. holds[a] # {} /\ fd[pfd[a]] = a
      BY <3>1 DEF IInv, PresentersInv
    <3>5. pfd'[a] # NoFd
      BY <3>2, <3>4 DEF closed
    <3> QED BY <3>3, <3>5 DEF Handed
  <2> QED BY <2>1, <2>2, <2>3 DEF OnceInv, StandsInv
<1> QED BY <1>7, <1>8, <1>9 DEF OnceInv

(* The first of the queue goes, and was closed by its client ...             *)
LEMMA OnceAborts == ASSUME TypeOK, OnceInv, Aborts PROVE OnceInv'
<1>1. /\ queue # <<>> /\ sock[queue[1]].st = "closed" /\ queue' = Tail(queue)
      /\ UNCHANGED <<sock, pfd>>
  BY QueueType DEF Aborts, ownerVars
<1>2. /\ Len(queue) \in Nat /\ DOMAIN queue = 1 .. Len(queue)
      /\ DOMAIN queue' = 1 .. Len(queue) - 1
      /\ \A i \in DOMAIN queue' : i \in DOMAIN queue /\ i + 1 \in DOMAIN queue /\ queue'[i] = queue[i + 1]
  BY <1>1, QueueType
<1>3. FromInv'
  BY <1>1 DEF OnceInv, FromInv
<1>4. QueueInv'
  <2>1. ASSUME NEW i \in DOMAIN queue'
        PROVE  sock[queue'[i]].st \in Met /\ \A a \in Sockets : sock[a].from # queue'[i]
    BY <1>2 DEF OnceInv, QueueInv
  <2>2. ASSUME NEW i \in DOMAIN queue', NEW j \in DOMAIN queue', queue'[i] = queue'[j]
        PROVE  i = j
    <3>1. i + 1 = j + 1
      BY <1>2, <2>2 DEF OnceInv, QueueInv
    <3> QED BY <1>2, <3>1
  <2> QED BY <1>1, <2>1, <2>2 DEF QueueInv
<1>5. StandsInv'
  <2> SUFFICES ASSUME NEW s \in Sockets, sock[s].st = "connected"
               PROVE  s \in Waiting' \/ Handed(s) # {}
    BY <1>1 DEF StandsInv, Handed
  <2>1. CASE s \in Waiting
    <3>1. PICK i \in DOMAIN queue : queue[i] = s
      BY <2>1 DEF Waiting
    <3>2. i # 1
      BY <1>1, <3>1
    <3>3. i - 1 \in DOMAIN queue' /\ queue'[i - 1] = queue[i]
      BY <1>2, <3>2
    <3> QED BY <3>1, <3>3 DEF Waiting
  <2> QED BY <2>1 DEF OnceInv, StandsInv
<1> QED BY <1>3, <1>4, <1>5 DEF OnceInv

(* ... a connection is made, of a socket that nobody has accepted ...        *)
LEMMA OnceAnswers ==
  ASSUME TypeOK, OnceInv, NEW s \in Sockets, Answers(s) PROVE OnceInv'
<1>1. /\ sock[s].st = "connecting" /\ sock[s] \in SocketType
      /\ sock' = [sock EXCEPT ![s] = [sock[s] EXCEPT !.st = "connected"]]
      /\ queue' = Append(queue, s) /\ UNCHANGED pfd
  BY DEF Answers, ownerVars, TypeOK
<1>2. /\ sock'[s].st = "connected" /\ sock'[s].from = sock[s].from
      /\ \A x \in Sockets \ {s} : sock'[x] = sock[x]
  <2> DEFINE r == [sock[s] EXCEPT !.st = "connected"]
  <2>1. r.st = "connected" /\ r.from = sock[s].from
    BY <1>1 DEF SocketType
  <2>2. sock' = [sock EXCEPT ![s] = r]
    BY <1>1
  <2> HIDE DEF r
  <2> QED BY <2>1, <2>2 DEF TypeOK
<1>3. /\ Len(queue) \in Nat /\ DOMAIN queue = 1 .. Len(queue)
      /\ \A i \in DOMAIN queue : queue[i] \in Sockets
      /\ DOMAIN queue' = 1 .. Len(queue) + 1
      /\ \A i \in DOMAIN queue : i \in DOMAIN queue' /\ queue'[i] = queue[i]
      /\ queue'[Len(queue) + 1] = s
  <2>1. queue \in Seq(Sockets)
    BY DEF TypeOK
  <2> QED BY <1>1, <2>1
<1>4. \A a \in Sockets : sock[a].from \in Sockets \cup {None} /\ sock[a].from # s
  BY <1>1 DEF OnceInv, FromInv, Met, TypeOK, SocketType, Sockets, None
<1>5. sock[s].from = None
  BY <1>1 DEF OnceInv, FromInv
<1>6. \A i \in DOMAIN queue : queue[i] # s
  BY <1>1 DEF OnceInv, QueueInv, Met
<1>7. FromInv'
  <2>1. ASSUME NEW a \in Sockets, sock'[a].from # None
        PROVE  sock'[a].st = "accepted" /\ sock'[sock'[a].from].st \in Met
    <3>1. a # s /\ sock'[a] = sock[a]
      BY <1>2, <1>5, <2>1
    <3>2. sock[a].from \in Sockets \ {s}
      BY <1>4, <2>1, <3>1
    <3> QED BY <1>2, <2>1, <3>1, <3>2 DEF OnceInv, FromInv
  <2>2. \A a \in Sockets : sock'[a].from = sock[a].from
    BY <1>2
  <2> QED BY <2>1, <2>2 DEF OnceInv, FromInv
<1>8. QueueInv'
  <2>1. ASSUME NEW i \in DOMAIN queue'
        PROVE  sock'[queue'[i]].st \in Met /\ \A a \in Sockets : sock'[a].from # queue'[i]
    <3>1. \A a \in Sockets : sock'[a].from = sock[a].from
      BY <1>2
    <3>2. CASE i \in DOMAIN queue
      <4>1. queue'[i] = queue[i] /\ queue[i] \in Sockets \ {s}
        BY <1>3, <1>6, <3>2
      <4> QED BY <1>2, <3>1, <3>2, <4>1 DEF OnceInv, QueueInv
    <3>3. CASE i \notin DOMAIN queue
      <4>1. i = Len(queue) + 1
        BY <1>3, <3>3
      <4>2. queue'[i] = s
        BY <1>3, <4>1
      <4> QED BY <1>2, <1>4, <3>1, <4>2 DEF Met
    <3> QED BY <3>2, <3>3
  <2>2. ASSUME NEW i \in DOMAIN queue', NEW j \in DOMAIN queue', queue'[i] = queue'[j]
        PROVE  i = j
    <3>1. \A k \in DOMAIN queue' : k \in DOMAIN queue \/ k = Len(queue) + 1
      BY <1>3
    <3> QED BY <1>3, <1>6, <2>2, <3>1 DEF OnceInv, QueueInv
  <2> QED BY <2>1, <2>2 DEF QueueInv
<1>9. StandsInv'
  <2> SUFFICES ASSUME NEW x \in Sockets, sock'[x].st = "connected"
               PROVE  x \in Waiting' \/ Handed(x)' # {}
    BY DEF StandsInv
  <2>1. CASE x = s
    <3>1. Len(queue) + 1 \in DOMAIN queue'
      BY <1>3
    <3> QED BY <1>3, <2>1, <3>1 DEF Waiting
  <2>2. CASE x # s
    <3>1. sock[x].st = "connected"
      BY <1>2, <2>2
    <3>2. CASE x \in Waiting
      BY <1>3, <3>2 DEF Waiting
    <3>3. CASE Handed(x) # {}
      BY <1>1, <1>2, <3>3 DEF Handed
    <3> QED BY <3>1, <3>2, <3>3 DEF OnceInv, StandsInv
  <2> QED BY <2>1, <2>2
<1> QED BY <1>7, <1>8, <1>9 DEF OnceInv

(* ... or the first is accepted.                                             *)
LEMMA OnceAccepts ==
  ASSUME Presenting, IInv, OnceInv, NEW d \in Free, NEW s \in Unused, queue # <<>>,
         sock' = [sock EXCEPT ![s] = [@ EXCEPT !.st = "accepted", !.from = Head(queue)]],
         queue' = Tail(queue), pfd' = [pfd EXCEPT ![s] = d]
  PROVE  OnceInv'
<1> DEFINE first == queue[1]
<1>0. TypeOK
  BY DEF IInv
<1>1. /\ s \in Sockets /\ sock[s].st = "none" /\ sock[s] \in SocketType /\ d \in Fds /\ d # NoFd
  BY <1>0, TcpAssumption DEF Unused, Free, TypeOK, NoFd
<1>2. /\ first \in Sockets /\ Head(queue) = first /\ first # None
      /\ Len(queue) \in Nat /\ DOMAIN queue = 1 .. Len(queue) /\ 1 \in DOMAIN queue
      /\ \A i \in DOMAIN queue : queue[i] \in Sockets
      /\ DOMAIN queue' = 1 .. Len(queue) - 1
      /\ \A i \in DOMAIN queue' : i \in DOMAIN queue /\ i + 1 \in DOMAIN queue /\ queue'[i] = queue[i + 1]
  BY <1>0, QueueType DEF Sockets, None
<1> HIDE DEF first
<1>3. /\ sock'[s].st = "accepted" /\ sock'[s].from = first
      /\ \A x \in Sockets \ {s} : sock'[x] = sock[x]
  <2> DEFINE r == [sock[s] EXCEPT !.st = "accepted", !.from = Head(queue)]
  <2>1. r.st = "accepted" /\ r.from = first
    BY <1>1, <1>2 DEF SocketType
  <2>2. sock' = [sock EXCEPT ![s] = r]
    OBVIOUS
  <2> HIDE DEF r
  <2> QED BY <1>0, <1>1, <2>1, <2>2 DEF TypeOK
<1>4. pfd'[s] = d /\ \A x \in Sockets \ {s} : pfd'[x] = pfd[x]
  BY <1>0, <1>1 DEF TypeOK
<1>5. /\ sock[first].st \in Met /\ \A a \in Sockets : sock[a].from # first
      /\ first # s
  <2>1. sock[queue[1]].st \in Met /\ \A a \in Sockets : sock[a].from # queue[1]
    BY <1>2 DEF OnceInv, QueueInv
  <2> QED BY <1>1, <2>1 DEF first, Met
<1>6. \A a \in Sockets : sock[a].from \in Sockets \cup {None}
  BY <1>0 DEF TypeOK, SocketType
<1>7. \A x \in Sockets : sock[x].st \in Met => x # s /\ sock'[x] = sock[x]
  BY <1>1, <1>3 DEF Met
<1>8. FromInv'
  <2>1. ASSUME NEW a \in Sockets, sock'[a].from # None
        PROVE  sock'[a].st = "accepted" /\ sock'[sock'[a].from].st \in Met
    <3>1. CASE a = s
      BY <1>2, <1>3, <1>5, <1>7, <3>1
    <3>2. CASE a # s
      <4>1. sock'[a] = sock[a]
        BY <1>3, <3>2
      <4>2. sock[a].st = "accepted" /\ sock[a].from \in Sockets /\ sock[sock[a].from].st \in Met
        BY <1>6, <2>1, <4>1 DEF OnceInv, FromInv
      <4> QED BY <1>7, <4>1, <4>2
    <3> QED BY <3>1, <3>2
  <2>2. ASSUME NEW a \in Sockets, NEW b \in Sockets, sock'[a].from # None,
               sock'[a].from = sock'[b].from
        PROVE  a = b
    <3>1. CASE a # s /\ b # s
      <4>1. sock[a].from # None /\ sock[a].from = sock[b].from
        BY <1>3, <2>2, <3>1
      <4> QED BY <4>1 DEF OnceInv, FromInv
    <3>2. CASE a = s /\ b # s
      <4>1. sock[b].from = first
        BY <1>3, <2>2, <3>2
      <4> QED BY <1>5, <4>1
    <3>3. CASE a # s /\ b = s
      <4>1. sock[a].from = first
        BY <1>3, <2>2, <3>3
      <4> QED BY <1>5, <4>1
    <3> QED BY <3>1, <3>2, <3>3
  <2> QED BY <2>1, <2>2 DEF FromInv
<1>9. QueueInv'
  <2>1. ASSUME NEW i \in DOMAIN queue'
        PROVE  sock'[queue'[i]].st \in Met /\ \A a \in Sockets : sock'[a].from # queue'[i]
    <3>1. /\ queue'[i] \in Sockets /\ sock[queue'[i]].st \in Met
          /\ \A a \in Sockets : sock[a].from # queue'[i]
      BY <1>2 DEF OnceInv, QueueInv
    <3>2. queue'[i] # first
      <4>1. queue[i + 1] # queue[1]
        <5>1. i + 1 # 1
          BY <1>2
        <5> QED BY <1>2, <5>1 DEF OnceInv, QueueInv
      <4> QED BY <1>2, <4>1 DEF first
    <3> QED BY <1>3, <1>7, <3>1, <3>2
  <2>2. ASSUME NEW i \in DOMAIN queue', NEW j \in DOMAIN queue', queue'[i] = queue'[j]
        PROVE  i = j
    <3>1. i + 1 = j + 1
      BY <1>2, <2>2 DEF OnceInv, QueueInv
    <3> QED BY <1>2, <3>1
  <2> QED BY <2>1, <2>2 DEF QueueInv
<1>10. StandsInv'
  <2> SUFFICES ASSUME NEW x \in Sockets, sock'[x].st = "connected"
               PROVE  x \in Waiting' \/ Handed(x)' # {}
    BY DEF StandsInv
  <2>1. x # s /\ sock[x].st = "connected"
    BY <1>3
  <2>2. CASE x = first
    BY <1>1, <1>3, <1>4, <2>2 DEF Handed
  <2>3. CASE x # first /\ x \in Waiting
    <3>1. PICK i \in DOMAIN queue : queue[i] = x
      BY <2>3 DEF Waiting
    <3>2. i # 1
      BY <2>3, <3>1 DEF first
    <3>3. i - 1 \in DOMAIN queue' /\ queue'[i - 1] = queue[i]
      BY <1>2, <3>2
    <3> QED BY <3>1, <3>3 DEF Waiting
  <2>4. CASE Handed(x) # {}
    <3>1. PICK a \in Sockets : sock[a].from = x /\ pfd[a] # NoFd
      BY <2>4 DEF Handed
    <3>2. x # None
      BY DEF Sockets, None
    <3>3. a # s
      BY <1>1, <3>1, <3>2 DEF OnceInv, FromInv
    <3> QED BY <1>3, <1>4, <3>1, <3>3 DEF Handed
  <2> QED BY <2>1, <2>2, <2>3, <2>4 DEF OnceInv, StandsInv
<1> QED BY <1>8, <1>9, <1>10 DEF OnceInv

(* Letting references go is closing.                                         *)
LEMMA OnceReleases ==
  ASSUME IInv, OnceInv, NEW refs, Releases(refs) PROVE OnceInv'
<1>1. /\ Closes(ClosedBy(refs), sock)
      /\ pfd' = [s \in Sockets |-> IF refs[s] = {} THEN NoFd ELSE pfd[s]]
  BY DEF Releases
<1>2. sock \in [Sockets -> SocketType]
  BY DEF IInv, TypeOK
<1>3. \A a \in Sockets : holds[a] # {} /\ pfd'[a] = NoFd => pfd[a] \in ClosedBy(refs)
  <2> SUFFICES ASSUME NEW a \in Sockets, holds[a] # {}, pfd'[a] = NoFd
               PROVE  pfd[a] \in ClosedBy(refs)
    OBVIOUS
  <2>1. pfd[a] \in Fds
    BY DEF IInv, PresentersInv
  <2>2. pfd[a] # NoFd
    BY <2>1, TcpAssumption DEF NoFd
  <2>3. refs[a] = {}
    BY <1>1, <2>2
  <2> QED BY <2>3 DEF ClosedBy
<1> QED BY <1>1, <1>2, <1>3, OnceClosed

LEMMA OnceOpens ==
  ASSUME TypeOK, OnceInv, NEW d, NEW s \in Unused, NEW st \in {"new", "listening"},
         Opens(d, s, st), UNCHANGED <<pfd, queue>>
  PROVE  OnceInv'
<1>1. s \in Sockets /\ sock[s].st = "none" /\ sock[s] \in SocketType
  BY DEF Unused, TypeOK
<1> DEFINE r == [sock[s] EXCEPT !.st = st]
<1>2. r.st = st /\ r.from = sock[s].from
  BY <1>1 DEF SocketType
<1>3. sock' = [sock EXCEPT ![s] = r]
  BY DEF Opens
<1> HIDE DEF r
<1>4. /\ sock'[s].st = st /\ sock'[s].from = sock[s].from
      /\ \A x \in Sockets \ {s} : sock'[x] = sock[x]
  BY <1>1, <1>2, <1>3 DEF TypeOK
<1>5. \A x \in Sockets : sock'[x].from = sock[x].from
  BY <1>4
<1>6. \A x \in Sockets : \/ sock'[x].st = sock[x].st
                         \/ /\ sock[x].st \in {"none", "new", "connecting"}
                            /\ sock'[x].st # "connected"
  BY <1>1, <1>4
<1> QED BY <1>5, <1>6, OnceQuiet

LEMMA OnceSame ==
  ASSUME TypeOK, OnceInv, UNCHANGED <<pfd, queue, sock>> PROVE OnceInv'
BY OnceQuiet

LEMMA OnceStart ==
  ASSUME IInv, OnceInv, NEW c \in Clients, StartConnect(c) PROVE OnceInv'
<1> DEFINE d == client[c].sock
           s == fd[d]
           refs == [Without(c) EXCEPT ![s] = {c}]
<1>0. TypeOK
  BY DEF IInv
<1>1. s \in Sockets /\ d \in Fds /\ sock[s].st = "new" /\ sock[s] \in SocketType /\ holds[s] = {}
  BY DEF StartConnect, IInv, OpenersInv, Selected, TypeOK
<1>2. Without(c) \in [Sockets -> SUBSET (Clients \cup {"app"})]
  BY <1>0 DEF Without, TypeOK
<1>3. \A a \in Sockets : holds[a] # {} => pfd[a] \in Fds /\ pfd[a] # NoFd
  BY TcpAssumption DEF IInv, PresentersInv, NoFd
<1>4. CASE \E st \in {"failed", "connecting"} :
             /\ pfd' = [p \in Sockets |-> IF p = s THEN d
                                         ELSE IF refs[p] = {} THEN NoFd ELSE pfd[p]]
             /\ Closes(ClosedBy(refs), [sock EXCEPT ![s].st = st])
  <2>1. PICK st \in {"failed", "connecting"} :
          Closes(ClosedBy(refs), [sock EXCEPT ![s].st = st])
    BY <1>4
  <2> DEFINE r == [sock[s] EXCEPT !.st = st]
             socks == [sock EXCEPT ![s] = r]
  <2>2. r \in SocketType /\ r.st = st /\ r.from = sock[s].from
    BY <1>1 DEF SocketType
  <2>3. Closes(ClosedBy(refs), socks)
    BY <2>1
  <2> HIDE DEF r
  <2>4. /\ socks \in [Sockets -> SocketType]
        /\ socks[s] = r /\ \A x \in Sockets \ {s} : socks[x] = sock[x]
    BY <1>0, <1>1, <2>2 DEF TypeOK
  <2> HIDE DEF socks
  <2>5. \A x \in Sockets :
           /\ socks[x].from = sock[x].from
           /\ \/ socks[x].st = sock[x].st
              \/ sock[x].st = "new" /\ socks[x].st \in {"connecting", "failed"}
    BY <1>1, <2>2, <2>4
  <2>6. \A a \in Sockets : holds[a] # {} /\ pfd'[a] = NoFd => pfd[a] \in ClosedBy(refs)
    <3> SUFFICES ASSUME NEW a \in Sockets, holds[a] # {}, pfd'[a] = NoFd
                 PROVE  pfd[a] \in ClosedBy(refs)
      OBVIOUS
    <3>1. a # s
      BY <1>1
    <3>2. refs[a] = {}
      BY <1>3, <1>4, <3>1
    <3> QED BY <3>2 DEF ClosedBy
  <2> QED BY <2>3, <2>4, <2>5, <2>6, OnceClosed
<1>5. CASE /\ pfd' = [p \in Sockets |-> IF Without(c)[p] = {} THEN NoFd ELSE pfd[p]]
           /\ Closes(ClosedBy(Without(c)) \cup {d}, sock)
  <2>1. \A a \in Sockets :
          holds[a] # {} /\ pfd'[a] = NoFd => pfd[a] \in ClosedBy(Without(c)) \cup {d}
    <3> SUFFICES ASSUME NEW a \in Sockets, holds[a] # {}, pfd'[a] = NoFd
                 PROVE  pfd[a] \in ClosedBy(Without(c))
      OBVIOUS
    <3>1. Without(c)[a] = {}
      BY <1>3, <1>5
    <3> QED BY <3>1 DEF ClosedBy
  <2>2. sock \in [Sockets -> SocketType]
    BY <1>0 DEF TypeOK
  <2> QED BY <1>5, <2>1, <2>2, OnceClosed
<1> QED BY <1>4, <1>5 DEF StartConnect

LEMMA OnceStep ==
  ASSUME Presenting, IInv, OnceInv, [Next]_vars PROVE OnceInv'
<1>0. TypeOK
  BY DEF IInv
<1>1. ASSUME NEW c \in Clients, Client(c) PROVE OnceInv'
  <2>1. CASE OpenSocket(c)
    BY <1>0, <2>1, OnceOpens DEF OpenSocket, ownerVars
  <2>2. CASE StartConnect(c)
    BY <2>2, OnceStart
  <2>3. CASE Fails(c) /\ ~InConnect(c)
    <3>1. /\ UNCHANGED <<pfd, queue>>
          /\ sock' = [x \in Sockets |-> IF x = Selected(c) THEN [sock[x] EXCEPT !.err = FALSE]
                                        ELSE sock[x]]
      BY <2>3 DEF Fails, ownerVars
    <3>2. ASSUME NEW x \in Sockets
          PROVE  sock'[x].st = sock[x].st /\ sock'[x].from = sock[x].from
      <4>1. sock[x] \in SocketType
        BY <1>0 DEF TypeOK
      <4>2. /\ [sock[x] EXCEPT !.err = FALSE].st = sock[x].st
            /\ [sock[x] EXCEPT !.err = FALSE].from = sock[x].from
        BY <4>1 DEF SocketType
      <4> QED BY <3>1, <4>2
    <3> QED BY <1>0, <3>1, <3>2, OnceQuiet
  <2>4. CASE Fails(c) /\ InConnect(c)
    BY <2>4, OnceReleases DEF Fails
  <2>5. CASE DeleteClient(c)
    BY <2>5, OnceReleases DEF DeleteClient
  <2>6. CASE GetStream(c)
    BY <1>0, <2>6, OnceSame DEF GetStream, tableVars
  <2>7. CASE ~OpenSocket(c) /\ ~StartConnect(c) /\ ~Fails(c) /\ ~DeleteClient(c)
             /\ ~GetStream(c)
    BY <1>0, <1>1, <2>7, OnceSame
       DEF Client, InCall, Connect, NoSocket, Succeeds, TimesOut, WaitConnect,
           tableVars, ownerVars
  <2> QED BY <2>1, <2>2, <2>3, <2>4, <2>5, <2>6, <2>7
<1>2. ASSUME NEW s \in Sockets, DropStream(s) PROVE OnceInv'
  BY <1>2, OnceReleases DEF DropStream
<1>3. ASSUME NEW s \in Sockets, Answers(s) PROVE OnceInv'
  BY <1>0, <1>3, OnceAnswers
<1>4. ASSUME NEW s \in Sockets, Refuses(s) PROVE OnceInv'
  <2>1. /\ sock[s].st = "connecting" /\ sock[s] \in SocketType
        /\ sock' = [sock EXCEPT ![s] = [sock[s] EXCEPT !.st = "failed", !.err = TRUE]]
        /\ UNCHANGED <<pfd, queue>>
    BY <1>0, <1>4 DEF Refuses, ownerVars, TypeOK
  <2> DEFINE r == [sock[s] EXCEPT !.st = "failed", !.err = TRUE]
  <2>2. r.st = "failed" /\ r.from = sock[s].from
    BY <2>1 DEF SocketType
  <2>3. sock' = [sock EXCEPT ![s] = r]
    BY <2>1
  <2> HIDE DEF r
  <2>4. /\ sock'[s].st = "failed" /\ sock'[s].from = sock[s].from
        /\ \A x \in Sockets \ {s} : sock'[x] = sock[x]
    BY <1>0, <2>2, <2>3 DEF TypeOK
  <2>5. \A x \in Sockets : sock'[x].from = sock[x].from
    BY <2>4
  <2>6. \A x \in Sockets : \/ sock'[x].st = sock[x].st
                           \/ /\ sock[x].st \in {"none", "new", "connecting"}
                              /\ sock'[x].st # "connected"
    BY <2>1, <2>4
  <2> QED BY <1>0, <2>1, <2>5, <2>6, OnceQuiet
<1>5. CASE Initialize
  <2>1. CASE UNCHANGED sock
    BY <1>0, <1>5, <2>1, OnceSame DEF Initialize, ownerVars
  <2>2. CASE \E d \in Free, s \in Unused : Opens(d, s, IF d > 0 THEN "listening" ELSE "new")
    BY <1>0, <1>5, <2>2, OnceOpens DEF Initialize, ownerVars
  <2> QED BY <1>5, <2>1, <2>2 DEF Initialize
<1>6. CASE Accept
  <2>1. CASE UNCHANGED <<tableVars, ownerVars>>
    BY <1>0, <2>1, OnceSame DEF tableVars, ownerVars
  <2>2. CASE ~UNCHANGED <<tableVars, ownerVars>>
    <3>1. PICK d \in Free, s \in Unused, ok \in {TRUE, "nofcntl" \notin Habits} :
            /\ sock' = [sock EXCEPT ![s] = [@ EXCEPT !.st = "accepted", !.from = Head(queue)]]
            /\ queue' = Tail(queue) /\ queue # <<>>
            /\ Presents(d, ok) => pfd' = [pfd EXCEPT ![s] = d]
      BY <1>6, <2>2 DEF Accept
    <3>2. d > 0
      BY TcpAssumption DEF Presenting, Free
    <3>3. Presents(d, ok)
      BY <3>2 DEF Presents, Presenting
    <3> QED BY <3>1, <3>3, OnceAccepts
  <2> QED BY <2>1, <2>2
<1>7. CASE DeleteServer
  <2>1. /\ Closes({listen} \cap (Fds \ {0}), sock) /\ UNCHANGED pfd
        /\ sock \in [Sockets -> SocketType]
    BY <1>0, <1>7 DEF DeleteServer, ownerVars, TypeOK
  <2>2. \A a \in Sockets : holds[a] # {} => pfd'[a] # NoFd
    BY <2>1, TcpAssumption DEF IInv, PresentersInv, NoFd
  <2> QED BY <2>1, <2>2, OnceClosed
<1>8. CASE Aborts
  BY <1>0, <1>8, OnceAborts
<1>9. CASE Select \/ UNCHANGED vars
  BY <1>0, <1>9, OnceSame DEF Select, vars, tableVars, ownerVars
<1> QED BY <1>1, <1>2, <1>3, <1>4, <1>5, <1>6, <1>7, <1>8, <1>9 DEF Next, Server, System

LEMMA OnceInit == Init => OnceInv
<1> SUFFICES ASSUME Init PROVE OnceInv
  OBVIOUS
<1>1. \A s \in Sockets : sock[s].st = "none" /\ sock[s].from = None
  BY DEF Init, Socket
<1>2. DOMAIN queue = {}
  BY DEF Init
<1> QED BY <1>1, <1>2 DEF OnceInv, FromInv, QueueInv, StandsInv

(* One member at most, or none at all.                                       *)
LEMMA AtMostOne ==
  ASSUME NEW S, \A x, y \in S : x = y
  PROVE  Cardinality(S) \in {0, 1} /\ (Cardinality(S) = 1 => S # {})
<1>1. CASE S = {}
  BY <1>1, FS_EmptySet
<1>2. CASE S # {}
  <2>1. PICK x : x \in S
    BY <1>2
  <2>2. S = {x}
    BY <2>1
  <2> QED BY <2>2, FS_Singleton
<1> QED BY <1>1, <1>2

(* A connection to the server is handed to the application once, if fcntl    *)
(* works and descriptor 0 is taken: it waits to be accepted or it was, by    *)
(* one presenter, whatever is closed or initialised again meanwhile.         *)
THEOREM AcceptsOnce == Presenting => (Spec => []AcceptedOnce)
<1> SUFFICES ASSUME Presenting PROVE Spec => []AcceptedOnce
  OBVIOUS
<1> DEFINE Inv == IInv /\ RefsInv /\ OnceInv
<1>1. Init => Inv
  BY InitInv, OnceInit
<1>2. Inv /\ [Next]_vars => Inv'
  <2>1. IInv /\ RefsInv /\ [Next]_vars => IInv' /\ RefsInv'
    BY Step, RefsStep
  <2> QED BY <2>1, OnceStep
<1>3. Inv => AcceptedOnce
  <2> SUFFICES ASSUME Inv, NEW s \in Sockets
               PROVE  /\ Cardinality(Handed(s)) + Cardinality({i \in DOMAIN queue : queue[i] = s}) <= 1
                      /\ sock[s].st = "connected" => s \in Waiting \/ Handed(s) # {}
    BY DEF AcceptedOnce
  <2> DEFINE Places == {i \in DOMAIN queue : queue[i] = s}
  <2>1. s # None
    BY DEF Sockets, None
  <2>2. \A a, b \in Handed(s) : a = b
    BY <2>1 DEF Handed, OnceInv, FromInv
  <2>3. \A i, j \in Places : i = j
    BY DEF OnceInv, QueueInv
  <2>4. Places # {} => Handed(s) = {}
    BY DEF OnceInv, QueueInv, Handed
  <2>5. /\ Cardinality(Handed(s)) \in {0, 1} /\ (Cardinality(Handed(s)) = 1 => Handed(s) # {})
    BY <2>2, AtMostOne
  <2> HIDE DEF Places
  <2>6. /\ Cardinality(Places) \in {0, 1} /\ (Cardinality(Places) = 1 => Places # {})
    BY <2>3, AtMostOne
  <2>7. Cardinality(Handed(s)) + Cardinality(Places) <= 1
    BY <2>4, <2>5, <2>6
  <2> QED BY <2>7 DEF Places, OnceInv, StandsInv
<1> HIDE DEF Inv
<1> QED BY <1>1, <1>2, <1>3, PTL DEF Spec
=============================================================================
