------------------------------ MODULE HttpdConn ------------------------------
(***************************************************************************)
(* One connection of the HTTP server: the class mpo_httpd, the stream it   *)
(* reads and writes, the client at the other end, and the application      *)
(* callback that calls its methods.                                        *)
(*                                                                         *)
(* The bytes of the connection are abstracted to tokens: the request line, *)
(* one token per header line, the empty line that ends a head (the         *)
(* CRLFCRLF the code searches for) and one token per unit of POST body. A  *)
(* token also carries the number of the request that it was sent with;     *)
(* the server never looks at that number, only the properties do. A        *)
(* network read may stop between any two tokens.                           *)
(***************************************************************************)
EXTENDS Integers, Sequences

CONSTANTS
  Kinds,        \* the requests a client may send, see KindsOK
  Lengths,      \* the Content-Lengths an application may respond with
  MaxRequests,  \* bound: requests one client sends
  ReadMax,      \* tokens one 320-byte read can return at most
  MaxSend,      \* bound: units one call of Send or Recv is given room for
  Habits,       \* what client and application do beyond the documented order
  None          \* a value that is no number

(* "pipeline": the client sends a request before the last one is answered;  *)
(* "reparse":  the application calls ParseRequest again after it failed;    *)
(* "resend":   the application calls SendHeaders again after it failed;     *)
(* "restyle":  the application calls SetHeaders when it is not its turn.    *)
AllHabits == {"pipeline", "reparse", "resend", "restyle"}

Lines == {"GET", "POST", "BAD"}     \* "BAD": fewer than three words
Fields == {"length", "close", "keep", "agent", "nocolon"}

(* A kind of request: its request line, its header lines <<field, value>>   *)
(* and the number of body units that follow its head.                       *)
KindsOK ==
  \A k \in Kinds :
    /\ k.line \in Lines /\ k.body \in Nat
    /\ k.fields \in Seq(Fields \X Nat)

ASSUME ConnAssumption ==
  /\ KindsOK /\ Lengths \subseteq Nat /\ Habits \subseteq AllHabits
  /\ MaxRequests \in Nat /\ MaxSend \in Nat /\ ReadMax \in Nat \ {0}
  /\ None \notin Nat

VARIABLES
  link,      \* "up", "closed" by the client, or "broken"
  wire,      \* tokens sent and not yet read by the server
  sent,      \* the requests the client has sent
  stage,     \* m_stage
  curBuf,    \* m_strCurBuf
  request,   \* m_strRequest, one element per line
  method,    \* m_strMethod
  headers,   \* m_mapNameValuePairs: Content-Length and Connection
  postBytes, \* m_u64PostBytes
  postRead,  \* m_u64PostBytesRead
  pHeaders,  \* u64ContentLength of *m_pHeaders, None when it is NULL
  outBuf,    \* the Content-Length in m_strCurOutBuf, None when it has none
  bodySent,  \* m_u64BodyBytesSent
  last,      \* the last call and what it returned
  failed,    \* the method that last failed and must not be called again
  cur,       \* number of the request whose request line was parsed last
  body,      \* the tokens Recv has delivered for that request
  out        \* the responses on the wire

clientVars  == <<link, wire, sent>>
requestVars == <<method, headers, cur>>
postVars    == <<postBytes, postRead, body>>
answerVars  == <<outBuf, bodySent, out>>
vars == <<clientVars, stage, curBuf, request, requestVars, postVars,
          pHeaders, answerVars, last, failed>>

Stages == {"RDY4_REQUEST", "RDY4_PARSE", "RDY4_RECV_POST", "RDY4_SET_HEADER",
           "RDY4_SEND_HEADER", "RDY4_SEND_BODY", "RDY4_DISCONNECT"}
Calls == {"none", "ReadRequest", "ParseRequest", "Recv", "SetHeaders",
          "SendHeaders", "Send"}
Msgs == {"MSG_OK", "MSG_TIMEOUT", "MSG_END", "MSG_ERROR", "true", "false"}
Returns(call, msg) == last' = [call |-> call, msg |-> msg]

Least(a, b) == IF a < b THEN a ELSE b
Token(t, v, n) == [t |-> t, v |-> v, n |-> n]
From(s, i) == SubSeq(s, i, Len(s))

-----------------------------------------------------------------------------
(* The client. *)

Text(k, n) ==
  <<Token(k.line, 0, n)>>
    \o [i \in 1 .. Len(k.fields) |-> Token(k.fields[i][1], k.fields[i][2], n)]
    \o <<Token("CRLFCRLF", 0, n)>>
    \o [i \in 1 .. k.body |-> Token("unit", 0, n)]

Answered == \A i \in 1 .. Len(out) : out[i].done

ClientSend(k) ==
  /\ link = "up" /\ Len(sent) < MaxRequests
  /\ "pipeline" \in Habits \/ (Answered /\ Len(out) = Len(sent))
  /\ sent' = Append(sent, k)
  /\ wire' = wire \o Text(k, Len(sent) + 1)
  /\ UNCHANGED <<link, stage, curBuf, request, requestVars, postVars,
                 pHeaders, answerVars, last, failed>>

(* The client closes its end; what it had not sent yet stays unsent. *)
ClientClose ==
  /\ link = "up"
  /\ link' = "closed"
  /\ \E i \in 0 .. Len(wire) : wire' = SubSeq(wire, 1, i)
  /\ UNCHANGED <<sent, stage, curBuf, request, requestVars, postVars,
                 pHeaders, answerVars, last, failed>>

LinkBreaks ==
  /\ link # "broken"
  /\ link' = "broken" /\ wire' = <<>>
  /\ UNCHANGED <<sent, stage, curBuf, request, requestVars, postVars,
                 pHeaders, answerVars, last, failed>>

-----------------------------------------------------------------------------
(* ReadIntoBuf: one read of the stream. It either returns a non-empty part  *)
(* of what the client sent, appended to curBuf, or a reason for nothing.    *)

ReadIntoBuf(i) ==
  /\ i \in 1 .. Least(ReadMax, Len(wire))
  /\ wire' = From(wire, i + 1)
Filled(i) == curBuf \o SubSeq(wire, 1, i)

ReadFails(msg) ==
  /\ UNCHANGED wire
  /\ \/ msg = "MSG_TIMEOUT" /\ (link = "up" \/ (link = "closed" /\ wire # <<>>))
     \/ msg = "MSG_END"     /\ link = "closed" /\ wire = <<>>
     \/ msg = "MSG_ERROR"   /\ link = "broken"

EndOfHead(buf) == {i \in 1 .. Len(buf) : buf[i].t = "CRLFCRLF"}
LastEnd(buf) ==       \* mutant: the last empty line instead of the first
  CHOOSE i \in EndOfHead(buf) : \A j \in EndOfHead(buf) : j <= i
FirstEnd(buf) == CHOOSE i \in EndOfHead(buf) : \A j \in EndOfHead(buf) : i <= j
HadHead(buf) == EndOfHead(curBuf) # {}  \* mutant: new bytes are not searched
HasHead(buf) == EndOfHead(buf) # {}

ReadPartialRequest(buf) ==
  \/ /\ HasHead(buf)
     /\ request' = SubSeq(buf, 1, FirstEnd(buf) - 1)
     /\ curBuf' = From(buf, FirstEnd(buf) + 1)
     /\ stage' = "RDY4_PARSE"
     /\ failed' = "none"
     /\ Returns("ReadRequest", "MSG_OK")
  \/ /\ ~HasHead(buf)
     /\ curBuf' = buf
     /\ Returns("ReadRequest", "MSG_TIMEOUT")
     /\ UNCHANGED <<stage, request, failed>>

(* One turn of the loop of ReadRequest. A turn that leaves MSG_TIMEOUT is    *)
(* followed by another one or by the return of the call.                    *)
ReadRequest ==
  /\ UNCHANGED <<link, sent, requestVars, postVars, pHeaders, answerVars>>
  /\ \/ /\ stage # "RDY4_REQUEST"
        /\ Returns("ReadRequest", IF stage = "RDY4_DISCONNECT"
                                  THEN "MSG_END" ELSE "MSG_ERROR")
        /\ UNCHANGED <<wire, stage, curBuf, request, failed>>
     \/ /\ stage = "RDY4_REQUEST"
        /\ \E i \in 1 .. ReadMax : ReadIntoBuf(i) /\ ReadPartialRequest(Filled(i))
     \/ /\ stage = "RDY4_REQUEST"
        /\ \E msg \in Msgs : ReadFails(msg) /\ Returns("ReadRequest", msg)
        /\ UNCHANGED <<stage, curBuf, request, failed>>

-----------------------------------------------------------------------------
(* ParseRequest. Only the lines up to the first one without a colon are     *)
(* entered into the header map, and what the map held before stays.         *)

Words3 == {"GET", "POST", "agent"}    \* the lines of three words
NoColon == {i \in 2 .. Len(request) : request[i].t = "nocolon"}
Stop == IF NoColon = {} THEN Len(request) + 1
        ELSE CHOOSE i \in NoColon : \A j \in NoColon : i <= j
FieldsOf(names) == {i \in 2 .. Stop - 1 : request[i].t \in names}
Latest(I) == request[CHOOSE i \in I : \A j \in I : j <= i]

HeadersAfter ==
  [length |-> IF FieldsOf({"length"}) = {} THEN headers.length
              ELSE Latest(FieldsOf({"length"})).v,
   close  |-> IF FieldsOf({"close", "keep"}) = {} THEN headers.close
              ELSE Latest(FieldsOf({"close", "keep"})).t = "close"]

ParseFails == failed' = "ParseRequest" /\ Returns("ParseRequest", "false")

ResumePost(length) == postBytes' = length /\ UNCHANGED postRead  \* mutant
StartPost(length) == postBytes' = length /\ postRead' = 0

ParseLines ==
  \/ /\ request = <<>>
     /\ ParseFails
     /\ UNCHANGED <<stage, request, requestVars, postVars>>
  \/ /\ request # <<>> /\ Head(request).t \notin Words3
     /\ method' = Head(request).t /\ request' = Tail(request)
     /\ ParseFails
     /\ UNCHANGED <<stage, headers, cur, postVars>>
  \/ /\ request # <<>> /\ Head(request).t \in Words3
     /\ method' = Head(request).t /\ cur' = Head(request).n
     /\ headers' = HeadersAfter
     /\ \/ /\ NoColon # {}
           /\ request' = From(request, Stop + 1)
           /\ ParseFails
           /\ UNCHANGED <<stage, postVars>>
        \/ /\ NoColon = {} /\ method' # "POST"
           /\ request' = <<>> /\ body' = <<>>
           /\ stage' = "RDY4_SET_HEADER"
           /\ Returns("ParseRequest", "true")
           /\ UNCHANGED <<postBytes, postRead, failed>>
        \/ /\ NoColon = {} /\ method' = "POST" /\ headers'.length # None
           /\ request' = <<>> /\ body' = <<>>
           /\ StartPost(headers'.length)
           /\ stage' = "RDY4_RECV_POST"
           /\ Returns("ParseRequest", "true")
           /\ UNCHANGED failed
        \/ /\ NoColon = {} /\ method' = "POST" /\ headers'.length = None
           /\ request' = <<>> /\ body' = <<>>
           /\ stage' = "RDY4_DISCONNECT"
           /\ Returns("ParseRequest", "false")
           /\ UNCHANGED <<postBytes, postRead, failed>>

ParseRequest ==
  /\ UNCHANGED <<clientVars, curBuf, pHeaders, answerVars>>
  /\ \/ /\ stage # "RDY4_PARSE"
        /\ Returns("ParseRequest", "false")
        /\ UNCHANGED <<stage, request, requestVars, postVars, failed>>
     \/ /\ stage = "RDY4_PARSE"
        /\ failed # "ParseRequest" \/ "reparse" \in Habits
        /\ ParseLines

-----------------------------------------------------------------------------
(* Recv: the body of a POST. *)

Deliver(buf) ==
  \E n \in 0 .. MaxSend :
    LET k == Least(n, Least(postBytes - postRead, Len(buf))) IN
    /\ body' = body \o SubSeq(buf, 1, k)
    /\ curBuf' = From(buf, k + 1)
    /\ postRead' = postRead + k
    /\ stage' = IF postRead + k = postBytes THEN "RDY4_SET_HEADER" ELSE stage
    /\ Returns("Recv", "MSG_OK")

Recv ==
  /\ UNCHANGED <<link, sent, request, requestVars, postBytes, pHeaders,
                 answerVars, failed>>
  /\ \/ /\ stage # "RDY4_RECV_POST" \/ postRead >= postBytes
        /\ Returns("Recv", "MSG_END")
        /\ UNCHANGED <<wire, stage, curBuf, postRead, body>>
     \/ /\ stage = "RDY4_RECV_POST" /\ postRead < postBytes
        /\ \/ curBuf # <<>> /\ UNCHANGED wire /\ Deliver(curBuf)
           \/ curBuf = <<>> /\ \E i \in 1 .. ReadMax :
                                 ReadIntoBuf(i) /\ Deliver(Filled(i))
           \/ /\ curBuf = <<>>
              /\ \E msg \in Msgs :
                   /\ ReadFails(msg)
                   /\ stage' = IF msg = "MSG_TIMEOUT" THEN stage
                               ELSE "RDY4_DISCONNECT"
                   /\ Returns("Recv", msg)
              /\ UNCHANGED <<curBuf, postRead, body>>

-----------------------------------------------------------------------------
(* The response. *)

Responding == stage \in {"RDY4_SEND_HEADER", "RDY4_SEND_BODY"}

(* A length of 0 is written as no Content-Length at all, and a head without *)
(* one is all that the server sends of its response.                        *)
NewHeaders(length) == IF length = 0 THEN None ELSE length
Meant(declared) == IF declared = None THEN 0 ELSE declared

SetHeaders(length) ==
  /\ ~Responding \/ "restyle" \in Habits
  /\ pHeaders' = length        \* assigned before the stage is looked at
  /\ UNCHANGED <<clientVars, curBuf, request, requestVars, postVars,
                 bodySent, out, failed>>
  /\ \/ /\ stage # "RDY4_SET_HEADER"
        /\ Returns("SetHeaders", "false")
        /\ UNCHANGED <<stage, outBuf>>
     \/ /\ stage = "RDY4_SET_HEADER"
        /\ outBuf' = NewHeaders(length)
        /\ stage' = "RDY4_SEND_HEADER"
        /\ Returns("SetHeaders", "true")

Response(head) == [head |-> head, length |-> outBuf, body |-> 0, done |-> FALSE]
Grown(r, k, done) ==
  [head |-> r.head, length |-> r.length, body |-> r.body + k, done |-> done]
Fragment == out # <<>> /\ out[Len(out)].head = "part"

(* StreamFull::Write sends the whole head or fails, possibly in its middle. *)
SendHeaders ==
  /\ UNCHANGED <<clientVars, curBuf, request, requestVars, postVars,
                 pHeaders, outBuf, bodySent>>
  /\ \/ /\ pHeaders = None \/ stage # "RDY4_SEND_HEADER"
        /\ Returns("SendHeaders", "MSG_ERROR")
        /\ UNCHANGED <<stage, out, failed>>
     \/ /\ pHeaders # None /\ stage = "RDY4_SEND_HEADER"
        /\ failed # "SendHeaders" \/ "resend" \in Habits
        /\ \/ /\ link # "broken"
              /\ out' = Append(out, Response("full"))
              /\ stage' = "RDY4_SEND_BODY"
              /\ failed' = "none"
              /\ Returns("SendHeaders", "MSG_OK")
           \/ /\ out' \in {out, IF Fragment THEN out
                                ELSE Append(out, Response("part"))}
              /\ failed' = "SendHeaders"
              /\ Returns("SendHeaders", "MSG_ERROR")
              /\ UNCHANGED stage

(* What Send may still write. When the length has been lowered below what   *)
(* was sent, the unsigned subtraction wraps and the room has no bound;      *)
(* MaxSend + 1 units stand for it.                                          *)
WholeRoom(n) == n                \* mutant: the body is not cut to its length
Room(n) == IF n + bodySent <= pHeaders THEN n
           ELSE IF bodySent <= pHeaders THEN pHeaders - bodySent
           ELSE MaxSend + 1

(* The write loop: k of room units go out and the last write said msg.      *)
(* Writing nothing is an error of net_send.                                 *)
Write(room, k, msg) ==
  \/ k = room /\ room > 0 /\ link # "broken" /\ msg = "MSG_OK"
  \/ k = 0 /\ room = 0 /\ msg = "MSG_ERROR"
  \/ k < room /\ link # "broken" /\ msg = "MSG_TIMEOUT"
  \/ k < room /\ link # "up" /\ msg \in {"MSG_END", "MSG_ERROR"}

KeepsAlive == "RDY4_REQUEST"     \* mutant: Connection: close is overlooked
AfterBody == IF headers.close THEN "RDY4_DISCONNECT" ELSE "RDY4_REQUEST"

BodyWritten(k, msg) ==
  \/ /\ bodySent + k >= pHeaders
     /\ stage' = AfterBody
     /\ bodySent' = 0
     /\ out' = [out EXCEPT ![Len(out)] = Grown(@, k, TRUE)]
     /\ Returns("Send", "MSG_END")
  \/ /\ bodySent + k < pHeaders
     /\ bodySent' = bodySent + k
     /\ out' = [out EXCEPT ![Len(out)] = Grown(@, k, FALSE)]
     /\ Returns("Send", msg)
     /\ UNCHANGED stage

Send ==
  /\ UNCHANGED <<clientVars, curBuf, request, requestVars, postVars,
                 pHeaders, outBuf, failed>>
  /\ \/ /\ stage # "RDY4_SEND_BODY"
        /\ Returns("Send", IF stage \in {"RDY4_DISCONNECT", "RDY4_REQUEST"}
                           THEN "MSG_END" ELSE "MSG_ERROR")
        /\ UNCHANGED <<stage, bodySent, out>>
     \/ /\ stage = "RDY4_SEND_BODY"
        /\ \E n \in 0 .. MaxSend :
             \/ /\ n + bodySent > pHeaders /\ Room(n) = 0
                /\ Returns("Send", "MSG_END")
                /\ UNCHANGED <<stage, bodySent, out>>
             \/ /\ n + bodySent <= pHeaders \/ Room(n) > 0
                /\ \E k \in 0 .. Room(n), msg \in Msgs :
                     Write(Room(n), k, msg) /\ BodyWritten(k, msg)

-----------------------------------------------------------------------------
Init ==
  /\ link = "up" /\ wire = <<>> /\ sent = <<>>
  /\ stage = "RDY4_REQUEST" /\ curBuf = <<>> /\ request = <<>>
  /\ method = "none" /\ headers = [length |-> None, close |-> FALSE] /\ cur = 0
  /\ postBytes = 0     \* not initialised by the code, set before it is read
  /\ postRead = 0 /\ body = <<>>
  /\ pHeaders = None /\ outBuf = None /\ bodySent = 0 /\ out = <<>>
  /\ last = [call |-> "none", msg |-> "MSG_OK"] /\ failed = "none"

Client == (\E k \in Kinds : ClientSend(k)) \/ ClientClose \/ LinkBreaks
Server == \/ ReadRequest \/ ParseRequest \/ Recv
          \/ \E length \in Lengths : SetHeaders(length)
          \/ SendHeaders \/ Send
Next == Client \/ Server

Spec == Init /\ [][Next]_vars

(* The application calls the method whose turn it is again and again, and    *)
(* the network keeps delivering: no step below can be put off for ever.     *)
Progress ==
  \/ ReadRequest /\ wire' # wire
  \/ ParseRequest /\ stage' # stage
  \/ Recv /\ postRead' # postRead
  \/ \E length \in Lengths : SetHeaders(length) /\ stage' # stage
  \/ SendHeaders /\ stage' # stage
  \/ Send /\ <<stage, bodySent>>' # <<stage, bodySent>>

FairSpec == Spec /\ WF_vars(Progress)

-----------------------------------------------------------------------------
(* Properties. *)

Tokens == [t : Lines \cup Fields \cup {"CRLFCRLF", "unit"}, v : Nat, n : Nat]
LengthOrNone == Nat \cup {None}

(* Every field of the connection object has its C++ type. *)
TypeOK ==
  /\ link \in {"up", "closed", "broken"} /\ stage \in Stages
  /\ wire \in Seq(Tokens) /\ curBuf \in Seq(Tokens)
  /\ request \in Seq(Tokens) /\ body \in Seq(Tokens)
  /\ sent \in Seq(Kinds) /\ cur \in Nat
  /\ headers \in [length : LengthOrNone, close : BOOLEAN]
  /\ method \in Lines \cup Fields \cup {"none", "unit"}
  /\ postBytes \in Nat /\ postRead \in Nat
  /\ pHeaders \in LengthOrNone /\ outBuf \in LengthOrNone /\ bodySent \in Nat
  /\ out \in Seq([head : {"full", "part"}, length : LengthOrNone, body : Nat,
                  done : BOOLEAN])
  /\ last \in [call : Calls, msg : Msgs]
  /\ failed \in {"none", "ParseRequest", "SendHeaders"}

HeadOf(n) == LET text == Text(sent[n], n) IN SubSeq(text, 1, FirstEnd(text) - 1)
BodyOf(n) == [i \in 1 .. sent[n].body |-> Token("unit", 0, n)]

(* The server stays in step with the client: with no request in hand, the    *)
(* next token it will see starts the request after the last one it served,   *)
(* the lines ReadRequest hands to ParseRequest are exactly the head of that  *)
(* request, and while a body is due the next token belongs to that body.     *)
(* A byte lost, duplicated or left over by ReadPartialRequest or Recv on a   *)
(* kept-alive connection would be taken for part of another request.         *)
InStep ==
  LET rest == curBuf \o wire IN
  /\ stage = "RDY4_REQUEST" /\ rest # <<>> =>
       Head(rest) = Token(sent[cur + 1].line, 0, cur + 1)
  /\ stage = "RDY4_PARSE" /\ failed = "none" => request = HeadOf(cur + 1)
  /\ stage = "RDY4_RECV_POST" /\ rest # <<>> => Head(rest) = Token("unit", 0, cur)

(* What Recv has delivered is a prefix of the body the client sent with the  *)
(* request being served, and all of it once a response may start.            *)
BodyIsTheClients ==
  /\ stage = "RDY4_RECV_POST" => body = SubSeq(BodyOf(cur), 1, postRead)
  /\ stage = "RDY4_SET_HEADER" \/ Responding => body = BodyOf(cur)

(* MSG_TIMEOUT of ReadRequest means that the request has not been received   *)
(* in full, so that waiting for more is the right thing to do.               *)
TimeoutMeansPartial ==
  last = [call |-> "ReadRequest", msg |-> "MSG_TIMEOUT"] => EndOfHead(curBuf) = {}

(* On the wire, a response starts only when the one before it is complete,   *)
(* its body has exactly the Content-Length its head declared, and after a    *)
(* head that declared none no body follows (SetHeaders, mpo_httpd.cpp:343,   *)
(* and the room that Send computes).                                         *)
ResponsesFramed ==
  \A i \in 1 .. Len(out) :
    /\ i < Len(out) => out[i].done
    /\ out[i].body <= Meant(out[i].length)
    /\ out[i].done => out[i].head = "full" /\ out[i].body = Meant(out[i].length)

(* A client to which the connection stays open can tell where each response  *)
(* ends. Not so after a response of length 0: without a Content-Length a     *)
(* client of HTTP/1.1 takes all that follows for its body.                   *)
EndsKnown ==
  stage \notin {"RDY4_SEND_BODY", "RDY4_DISCONNECT"} =>
    \A i \in 1 .. Len(out) : out[i].done => out[i].length # None

Asks(n, field) == \E i \in DOMAIN sent[n].fields : sent[n].fields[i][1] = field

(* The connection does what Exchange promises: requests are served in the    *)
(* order they were sent, each response is the one to the request parsed last *)
(* and is complete before the next request is taken, and the connection is   *)
(* given up after a response exactly when its request carried "Connection:   *)
(* close" (Send, mpo_httpd.cpp:499). The beginning of a head that could not  *)
(* be written in full is no response.                                        *)
Phase ==
  CASE failed = "SendHeaders" \/ stage = "RDY4_DISCONNECT" -> "closed"
    [] stage \in {"RDY4_REQUEST", "RDY4_PARSE"} -> "waiting"
    [] stage = "RDY4_SEND_BODY" -> "responding"
    [] OTHER -> "serving"
Taken == IF Phase = "waiting" THEN Len(out) ELSE cur
Whole == IF Fragment THEN SubSeq(out, 1, Len(out) - 1) ELSE out
Closers == {k \in Kinds : \E i \in DOMAIN k.fields : k.fields[i][1] = "close"}
Served ==
  INSTANCE Exchange WITH
    phase <- Phase, cur <- Taken, out <- Whole, Requests <- Kinds, Closing <- Closers
ServesInOrder == Served!Spec

(* GetHeader finds a Content-Length only if the client sent one with the     *)
(* request being served.                                                     *)
LengthIsOwn ==
  /\ stage = "RDY4_RECV_POST" \/ stage = "RDY4_SET_HEADER" \/ Responding
  /\ headers.length # None
  => Asks(cur, "length")

(* The request that ParseRequest reports was read from a request line.       *)
MethodFromRequestLine ==
  last = [call |-> "ParseRequest", msg |-> "true"] /\ stage # "RDY4_REQUEST"
    => method \in Lines

(* When the whole body of a POST has been read the connection has moved on   *)
(* to the response.                                                          *)
ReadBodyMovesOn == stage = "RDY4_RECV_POST" => postRead < postBytes

(* Send says MSG_END on a working connection only when the response is       *)
(* complete.                                                                 *)
EndMeansComplete ==
  last = [call |-> "Send", msg |-> "MSG_END"] /\ link = "up"
    => stage # "RDY4_SEND_BODY"

(* A client that stays connected has every request answered, unless it asked *)
(* for the connection to be closed or sent something that is not HTTP.       *)
RequestsAnswered ==
  [](link = "up") =>
    \A n \in 1 .. MaxRequests :
      Len(sent) >= n ~> \/ Len(out) >= n /\ out[n].done
                        \/ stage = "RDY4_DISCONNECT" \/ failed # "none"

=============================================================================
