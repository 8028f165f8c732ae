----------------------------- MODULE HttpClient -----------------------------
(***************************************************************************)
(* The HTTP client: the class mpo_http, the stream it reads, the server at *)
(* the other end, and an application that calls its methods in the order   *)
(* of their documentation, one exchange after the other: Start, Send (for  *)
(* a POST), GetHeaders until MSG_OK, Receive until MSG_END. FillBuf is     *)
(* Receive called again until it returns something else than MSG_OK.       *)
(*                                                                         *)
(* Bytes are tokens: the text of a line, the end of a line, a unit of      *)
(* body. CR is left out: every place that reads lines ignores it before an *)
(* LF. A token also carries the number of the response that it belongs to  *)
(* and its value (a status, a length, the place of a unit in the body). A  *)
(* unit of body may be an LF; whoever reads a line takes it for its end.   *)
(* A response arrives in pieces of any size.                               *)
(***************************************************************************)
EXTENDS Integers, Sequences, SequencesExt

CONSTANTS
  Plans,      \* sequences of exchanges, see Exchanges
  Rooms,      \* room of the buffers given to Receive and Send
  SizeLimit   \* 2^w for the width w of size_t

(* An exchange: what is asked, and what the server answers. "body" are the   *)
(* pieces of the body, each a chunk of its own when it is sent in chunks;    *)
(* "feeds" are the places in the body that hold an LF.                       *)
Methods  == {"GET", "HEAD", "POST"}
Framings == {"length", "chunked", "close", "encoded"}
Exchanges ==
  [method : Methods, framing : Framings, post : Nat, body : Seq(Nat \ {0}),
   feeds : SUBSET Nat, etag : BOOLEAN, trailer : BOOLEAN]

ASSUME ClientAssumption ==
  /\ Plans \subseteq Seq(Exchanges)
  /\ Rooms \subseteq Nat \ {0}
  /\ SizeLimit \in Nat \ {0}

VARIABLES
  plan,       \* the exchanges of this connection
  asked,      \* requests started
  whole,      \* the writes of the last request all succeeded
  answered,   \* responses sent
  link,       \* "up", "closed" after a response, "cut" in one, "broken"
  wire,       \* tokens on their way
  arrived,    \* tokens the next read finds
  fatal,      \* m_bFatalError
  partial,    \* m_partial_header
  processed,  \* m_headers_processed
  code,       \* m_http_result_code, here the number of the response
  etag,       \* m_httpStrETag, the number of the response, 0 when empty
  length,     \* m_http_content_length
  index,      \* m_http_content_index
  chunked,    \* m_http_chunked
  stat,       \* m_chunk_stat
  sizeLine,   \* m_chunk_size_line
  chunkSize,  \* m_cur_chunk_size
  chunkIndex, \* m_cur_chunk_index
  postLength, \* m_http_post_length
  postIndex,  \* m_http_post_index
  pc,         \* "app", or the loop that a call is in
  room,       \* bytes_can_read
  got,        \* *bytes_read
  line,       \* buf of ReadUntilCRLF
  turn,       \* which method the application calls next
  last,       \* what the last call returned
  received    \* what Receive has delivered of this response

planVars   == <<plan, asked, whole>>
serverVars == <<answered, link, wire>>
headVars   == <<partial, processed, code, etag, length>>
chunkVars  == <<chunked, stat, sizeLine, chunkSize, chunkIndex>>
postVars   == <<postLength, postIndex>>
callVars   == <<pc, room, got, line, turn, last>>
vars == <<planVars, serverVars, arrived, fatal, headVars, index, chunkVars,
          postVars, callVars, received>>

Least(a, b) == IF a < b THEN a ELSE b
EndOfLine == "eol"
IsEnd(t) ==
  \/ t.kind = EndOfLine
  \/ t.kind = "unit" /\ t.val \in plan[t.resp].feeds
Exchange == plan[asked]

-----------------------------------------------------------------------------
(* What a server sends *)

(* How much comes before each piece, and before the end. *)
Before(sizes) ==
  LET upTo[i \in 1..(Len(sizes) + 1)] ==
        IF i = 1 THEN 0 ELSE upTo[i - 1] + sizes[i - 1]
  IN upTo
SumOf(sizes) == Before(sizes)[Len(sizes) + 1]
Of(n, kind, val) == [kind |-> kind, resp |-> n, val |-> val]
LineOf(n, kind, val) == <<Of(n, kind, val), Of(n, EndOfLine, 0)>>
Units(n, from, to) == [i \in 1..(to - from) |-> Of(n, "unit", from + i)]
Body(e, n) == Units(n, 0, SumOf(e.body))

Chunk(e, n, i) ==
  LET before == Before(e.body)[i]
      here   == e.body[i]
  IN LineOf(n, "size", here) \o Units(n, before, before + here)
       \o <<Of(n, EndOfLine, 0)>>

NoChunk(e, n) ==
  LineOf(n, "size", 0)
    \o (IF e.trailer THEN LineOf(n, "other", 0) ELSE <<>>)
    \o <<Of(n, EndOfLine, 0)>>

(* The chunks from the i-th on, and what follows the last. *)
ChunksFrom(e, n) ==
  LET end == Len(e.body) + 1
      from[i \in 1..end] ==
        IF i = end THEN NoChunk(e, n) ELSE Chunk(e, n, i) \o from[i + 1]
  IN from
Chunks(e, n) == ChunksFrom(e, n)[1]

HeadOf(e, n) ==
  LineOf(n, "status", n)
    \o (CASE e.framing = "length"  -> LineOf(n, "length", SumOf(e.body))
          [] e.framing = "chunked" -> LineOf(n, "chunked", 0)
          [] e.framing = "encoded" -> LineOf(n, "encoded", 0)
          [] e.framing = "close"   -> LineOf(n, "other", 0))
    \o (IF e.etag THEN LineOf(n, "etag", n) ELSE <<>>)
    \o <<Of(n, EndOfLine, 0)>>

(* The n-th response of a connection, to e. *)
ResponseTo(e, n) ==
  HeadOf(e, n) \o (IF e.method = "HEAD" THEN <<>>
                   ELSE IF e.framing = "chunked" THEN Chunks(e, n)
                   ELSE Body(e, n))

Init ==
  /\ plan \in Plans /\ asked = 0 /\ whole = FALSE
  /\ answered = 0 /\ link = "up" /\ wire = <<>> /\ arrived = <<>>
  /\ fatal = FALSE /\ partial = <<>> /\ processed = FALSE
  /\ code = 0 /\ etag = 0 /\ length = 0 /\ index = 0
  /\ chunked = FALSE /\ stat = "SIZE" /\ sizeLine = <<>>
  /\ chunkSize = 0 /\ chunkIndex = 0
  /\ postLength = 0 /\ postIndex = 0
  /\ pc = "app" /\ room = 0 /\ got = 0 /\ line = <<>>
  /\ turn = "start" /\ last = "OK" /\ received = <<>>

-----------------------------------------------------------------------------
(* The server and the network *)

(* The server answers a request that reached it whole. *)
Respond ==
  /\ link = "up" /\ answered < asked /\ whole /\ postIndex >= postLength
  /\ answered' = asked
  /\ wire' = wire \o ResponseTo(Exchange, asked)
  /\ link' = IF Exchange.framing = "close" THEN "closed" ELSE "up"
  /\ UNCHANGED <<planVars, arrived, fatal, headVars, index, chunkVars, postVars,
                 callVars, received>>

Deliver ==
  /\ wire # <<>> /\ link # "broken"
  /\ arrived' = Append(arrived, Head(wire)) /\ wire' = Tail(wire)
  /\ UNCHANGED <<planVars, answered, link, fatal, headVars, index, chunkVars,
                 postVars, callVars, received>>

(* The server goes away, perhaps with a response only partly sent. *)
HangsUp ==
  /\ link = "up" /\ link' = "cut"
  /\ \E k \in 0..Len(wire) : wire' = SubSeq(wire, 1, k)
  /\ UNCHANGED <<planVars, answered, arrived, fatal, headVars, index, chunkVars,
                 postVars, callVars, received>>

LinkBreaks ==
  /\ link # "broken" /\ link' = "broken"
  /\ wire' = <<>> /\ arrived' = <<>>
  /\ UNCHANGED <<planVars, answered, fatal, headVars, index, chunkVars,
                 postVars, callVars, received>>

(* A read for n bytes: how many it takes, and what GetLastMsg says then. *)
Taken(n) == Least(n, Len(arrived))
Found(n) == SubSeq(arrived, 1, Taken(n))
LastMsg(n) ==
  IF link = "broken" \/ n = 0 THEN "ERROR"
  ELSE IF arrived # <<>> THEN "OK"
  ELSE IF link = "up" \/ wire # <<>> THEN "TIMEOUT"
  ELSE "END"
Takes(n) ==
  /\ LastMsg(n) = "OK"
  /\ arrived' = SubSeq(arrived, Taken(n) + 1, Len(arrived))

-----------------------------------------------------------------------------
(* Requests *)

(* mutant: the ETag of the last response is kept *)
KeptETag == etag

ClearedETag == 0

(* The request goes out in one step: nothing else happens on the wire until  *)
(* it is answered. A failed write goes unnoticed, so it may be cut.          *)
Start ==
  /\ pc = "app" /\ turn = "start" /\ asked < Len(plan)
  /\ asked' = asked + 1
  /\ whole' \in BOOLEAN
  /\ LET e == plan[asked + 1]
     IN /\ postLength' = e.post
        /\ postIndex' = IF e.method = "POST" THEN 0 ELSE postIndex
        /\ turn' = IF e.method = "POST" THEN "send" ELSE "headers"
  /\ length' = 0 /\ index' = 0 /\ chunked' = FALSE
  /\ code' = 0 /\ etag' = ClearedETag
  /\ partial' = <<>> /\ processed' = FALSE
  /\ received' = <<>> /\ last' = "OK"
  /\ UNCHANGED <<plan, serverVars, arrived, fatal, stat, sizeLine, chunkSize,
                 chunkIndex, pc, room, got, line>>

(* Send: the stream takes some of what is left. *)
SendSome(n) ==
  /\ pc = "app" /\ turn = "send" /\ postIndex < postLength
  /\ link = "up"
  /\ \E k \in 1..Least(n, postLength - postIndex) : postIndex' = postIndex + k
  /\ last' = "OK"
  /\ UNCHANGED <<planVars, serverVars, arrived, fatal, headVars, index, chunkVars,
                 postLength, pc, room, got, line, turn, received>>

SendFails ==
  /\ pc = "app" /\ turn = "send" /\ postIndex < postLength
  /\ \/ link = "up" /\ last' = "TIMEOUT" /\ turn' = turn
     \/ link # "up" /\ last' = "ERROR" /\ turn' = "stop"
  /\ UNCHANGED <<planVars, serverVars, arrived, fatal, headVars, index, chunkVars,
                 postVars, pc, room, got, line, received>>

SendEnds ==
  /\ pc = "app" /\ turn = "send" /\ postIndex >= postLength
  /\ last' = "END" /\ turn' = "headers"
  /\ UNCHANGED <<planVars, serverVars, arrived, fatal, headVars, index, chunkVars,
                 postVars, pc, room, got, line, received>>

-----------------------------------------------------------------------------
(* GetHeaders reads one character in a turn of its loop. *)

InHeaders == pc \in {"app", "headers"} /\ turn = "headers"

HeaderText ==
  /\ InHeaders /\ Takes(1) /\ ~IsEnd(Head(arrived))
  /\ partial' = Append(partial, Head(arrived))
  /\ pc' = "headers"
  /\ UNCHANGED <<planVars, serverVars, fatal, processed, code, etag, length, index,
                 chunkVars, postVars, room, got, line, turn, last, received>>

(* ProcessHeader: its result, and what it does to the members. *)
Acceptable(header) == header.kind # "encoded"

ProcessHeader(header) ==
  /\ code' = IF header.kind = "status" THEN header.val ELSE code
  /\ length' = IF header.kind = "length" THEN header.val ELSE length
  /\ etag' = IF header.kind = "etag" THEN header.val ELSE etag
  /\ IF header.kind = "chunked"
     THEN /\ chunked' = TRUE /\ stat' = "SIZE" /\ sizeLine' = <<>>
          /\ chunkSize' = 0 /\ chunkIndex' = 0
     ELSE UNCHANGED chunkVars

ClearedPartial == <<>>

HeaderLine ==
  /\ InHeaders /\ Takes(1) /\ IsEnd(Head(arrived)) /\ partial # <<>>
  /\ ProcessHeader(Head(partial))
  /\ IF Acceptable(Head(partial))
     THEN /\ partial' = ClearedPartial /\ pc' = "headers"
          /\ UNCHANGED <<fatal, turn, last>>
     ELSE /\ partial' = partial /\ pc' = "app" /\ fatal' = TRUE
          /\ turn' = "stop" /\ last' = "ERROR"
  /\ UNCHANGED <<planVars, serverVars, processed, index, postVars, room, got, line,
                 received>>

AfterHeaders == IF Exchange.method = "HEAD" THEN "start" ELSE "body"

HeadersEnd ==
  /\ InHeaders /\ Takes(1) /\ IsEnd(Head(arrived)) /\ partial = <<>>
  /\ processed' = TRUE
  /\ pc' = "app" /\ turn' = AfterHeaders /\ last' = "OK"
  /\ UNCHANGED <<planVars, serverVars, fatal, partial, code, etag, length, index,
                 chunkVars, postVars, room, got, line, received>>

(* mutant: what is read of a line is dropped at a timeout *)
DroppedPartial == <<>>

KeptPartial == partial

FatalInHead(msg) == msg # "TIMEOUT"

HeadersWait ==
  /\ InHeaders /\ LastMsg(1) # "OK"
  /\ partial' = KeptPartial
  /\ fatal' = (fatal \/ FatalInHead(LastMsg(1)))
  /\ turn' = IF FatalInHead(LastMsg(1)) THEN "stop" ELSE turn
  /\ pc' = "app" /\ last' = LastMsg(1)
  /\ UNCHANGED <<planVars, serverVars, arrived, processed, code, etag, length,
                 index, chunkVars, postVars, room, got, line, received>>

-----------------------------------------------------------------------------
(* Receive *)

(* What the application does after a result: once more after MSG_OK and      *)
(* MSG_TIMEOUT, the next exchange after MSG_END, nothing after MSG_ERROR.    *)
TurnAfter(msg) ==
  CASE msg \in {"OK", "TIMEOUT"} -> "body"
    [] msg = "END"               -> "start"
    [] msg = "ERROR"             -> "stop"

Returns(msg) ==
  /\ pc' = "app" /\ turn' = TurnAfter(msg) /\ last' = msg
  /\ fatal' = (fatal \/ msg = "ERROR")

Refused ==
  /\ pc = "app" /\ turn = "stop" /\ fatal
  /\ last' = "ERROR"
  /\ UNCHANGED <<planVars, serverVars, arrived, fatal, headVars, index, chunkVars,
                 postVars, pc, room, got, line, turn, received>>

Called(framed) ==
  pc = "app" /\ turn = "body" /\ ~fatal /\ chunked = framed

Bounded(n) == IF length > 0 THEN Least(n, length - index) ELSE n

(* mutant: the content counts as complete one unit early *)
AllButOne == length > 0 /\ index + 1 >= length

AllReceived == length > 0 /\ index >= length

(* ReceiveNormal is one read, by length or until the server closes. *)
ReceiveNormalEnds(n) ==
  /\ Called(FALSE) /\ AllReceived
  /\ room' = n /\ got' = 0
  /\ Returns("END")
  /\ UNCHANGED <<planVars, serverVars, arrived, headVars, index, chunkVars,
                 postVars, line, received>>

ReceiveNormal(n) ==
  /\ Called(FALSE) /\ ~AllReceived
  /\ Takes(Bounded(n))
  /\ room' = n /\ got' = Taken(Bounded(n))
  /\ received' = received \o Found(Bounded(n))
  /\ index' = IF length > 0 THEN index + Taken(Bounded(n)) ELSE index
  /\ Returns("OK")
  /\ UNCHANGED <<planVars, serverVars, headVars, chunkVars, postVars, line>>

ReceiveNormalFails(n) ==
  /\ Called(FALSE) /\ ~AllReceived /\ LastMsg(Bounded(n)) # "OK"
  /\ room' = n /\ got' = 0
  /\ Returns(IF LastMsg(Bounded(n)) = "TIMEOUT" THEN "TIMEOUT"
             ELSE IF length > 0 THEN "ERROR" ELSE "END")
  /\ UNCHANGED <<planVars, serverVars, arrived, headVars, index, chunkVars,
                 postVars, line, received>>

(* ReceiveChunked goes round a loop until the buffer is full. *)
ReceiveChunked(n) ==
  /\ Called(TRUE)
  /\ room' = n /\ got' = 0 /\ pc' = "chunked"
  /\ UNCHANGED <<planVars, serverVars, arrived, fatal, headVars, index, chunkVars,
                 postVars, line, turn, last, received>>

InLoop(s) == pc = "chunked" /\ stat = s

(* The loop's condition, when a turn is over and the message is MSG_OK. *)
GoesOn(filled) ==
  IF filled < room
  THEN pc' = "chunked" /\ UNCHANGED <<turn, last, fatal>>
  ELSE Returns("OK")

(* A size that has not arrived is waited for: the timeout is not obeyed. A   *)
(* unit of body that is read here counts as a digit, its place in the body.  *)
SizeText ==
  /\ InLoop("SIZE") /\ Takes(1) /\ ~IsEnd(Head(arrived))
  /\ sizeLine' = Append(sizeLine, Head(arrived).val)
  /\ UNCHANGED <<planVars, serverVars, fatal, headVars, index, chunked, stat,
                 chunkSize, chunkIndex, postVars, callVars, received>>

HexOf(digits) ==
  LET value[i \in 0..Len(digits)] ==
        IF i = 0 THEN 0 ELSE 16 * value[i - 1] + digits[i]
  IN value[Len(digits)]

SizeEnd ==
  /\ InLoop("SIZE") /\ Takes(1) /\ IsEnd(Head(arrived))
  /\ chunkIndex' = 0 /\ chunkSize' = HexOf(sizeLine) /\ stat' = "DATA"
  /\ UNCHANGED <<planVars, serverVars, fatal, headVars, index, chunked, sizeLine,
                 postVars, callVars, received>>

SizeFails ==
  /\ InLoop("SIZE") /\ LastMsg(1) \in {"END", "ERROR"}
  /\ Returns("ERROR")
  /\ UNCHANGED <<planVars, serverVars, arrived, headVars, index, chunkVars,
                 postVars, room, got, line, received>>

(* The room is an unsigned difference, and takes no account of *bytes_read;  *)
(* more may be read than was asked for. The model goes on as if the caller's *)
(* buffer were large enough.                                                 *)
Remaining == chunkSize - chunkIndex
ToRead == Least((room - chunkIndex) % SizeLimit, Remaining)

(* The position in the chunk, which counts earlier reads, is compared with    *)
(* what was left before this one: the line end is looked for too early when  *)
(* they are the same before the chunk is over.                               *)
ChunkData ==
  /\ InLoop("DATA") /\ chunkSize > 0 /\ Takes(ToRead)
  /\ LET k == Taken(ToRead)
     IN /\ received' = received \o Found(ToRead)
        /\ chunkIndex' = chunkIndex + k
        /\ got' = got + k
        /\ line' = <<>>
        /\ IF chunkIndex + k = Remaining
           THEN pc' = "crlf" /\ UNCHANGED <<turn, last, fatal>>
           ELSE GoesOn(got + k)
  /\ UNCHANGED <<planVars, serverVars, headVars, index, chunked, stat, sizeLine,
                 chunkSize, postVars, room>>

ChunkFails ==
  /\ InLoop("DATA") /\ chunkSize > 0 /\ LastMsg(ToRead) # "OK"
  /\ Returns(IF LastMsg(ToRead) = "TIMEOUT" THEN "TIMEOUT" ELSE "ERROR")
  /\ UNCHANGED <<planVars, serverVars, arrived, headVars, index, chunkVars,
                 postVars, room, got, line, received>>

(* ReadUntilCRLF, for the line that must be empty after a chunk and for the  *)
(* lines of the trailer.                                                     *)
LineText ==
  /\ pc \in {"crlf", "trailer"} /\ Takes(1) /\ ~IsEnd(Head(arrived))
  /\ line' = Append(line, Head(arrived))
  /\ UNCHANGED <<planVars, serverVars, fatal, headVars, index, chunkVars, postVars,
                 pc, room, got, turn, last, received>>

ResetSize == <<>>

ChunkEnds ==
  /\ pc = "crlf" /\ Takes(1) /\ IsEnd(Head(arrived))
  /\ IF line = <<>>
     THEN stat' = "SIZE" /\ sizeLine' = ResetSize /\ GoesOn(got)
     ELSE UNCHANGED <<stat, sizeLine>> /\ Returns("ERROR")
  /\ UNCHANGED <<planVars, serverVars, headVars, index, chunked, chunkSize,
                 chunkIndex, postVars, room, got, line, received>>

ChunkEndFails ==
  /\ pc = "crlf" /\ LastMsg(1) # "OK"
  /\ Returns("ERROR")
  /\ UNCHANGED <<planVars, serverVars, arrived, headVars, index, chunkVars,
                 postVars, room, got, line, received>>

LastChunk ==
  /\ InLoop("DATA") /\ chunkSize = 0
  /\ stat' = "END" /\ line' = <<>> /\ pc' = "trailer"
  /\ UNCHANGED <<planVars, serverVars, arrived, fatal, headVars, index, chunked,
                 sizeLine, chunkSize, chunkIndex, postVars, room, got, turn, last,
                 received>>

TrailerLine ==
  /\ pc = "trailer" /\ Takes(1) /\ IsEnd(Head(arrived))
  /\ line' = <<>>
  /\ IF line = <<>> THEN Returns("OK") ELSE UNCHANGED <<pc, turn, last, fatal>>
  /\ UNCHANGED <<planVars, serverVars, headVars, index, chunkVars, postVars, room,
                 got, received>>

(* Whatever stops the trailer from being read is taken for its end. *)
TrailerStops ==
  /\ pc = "trailer" /\ LastMsg(1) # "OK"
  /\ Returns("OK")
  /\ UNCHANGED <<planVars, serverVars, arrived, headVars, index, chunkVars,
                 postVars, room, got, line, received>>

ChunksEnd ==
  /\ InLoop("END")
  /\ chunked' = FALSE
  /\ Returns("END")
  /\ UNCHANGED <<planVars, serverVars, arrived, headVars, index, stat, sizeLine,
                 chunkSize, chunkIndex, postVars, room, got, line, received>>

-----------------------------------------------------------------------------
Network == Respond \/ Deliver
Failure == HangsUp \/ LinkBreaks
Sending == SendFails \/ SendEnds \/ \E n \in Rooms : SendSome(n)
GetHeaders == HeaderText \/ HeaderLine \/ HeadersEnd \/ HeadersWait
Call == \E n \in Rooms :
          \/ ReceiveNormalEnds(n) \/ ReceiveNormal(n) \/ ReceiveNormalFails(n)
          \/ ReceiveChunked(n)
Chunked ==
  \/ SizeText \/ SizeEnd \/ SizeFails \/ ChunkData \/ ChunkFails
  \/ LineText \/ ChunkEnds \/ ChunkEndFails
  \/ LastChunk \/ TrailerLine \/ TrailerStops \/ ChunksEnd

Client == Sending \/ GetHeaders \/ Call \/ Chunked
Next == Start \/ Client \/ Refused \/ Network \/ Failure

(* What has begun goes on: the application repeats the call whose turn it    *)
(* is, as FillBuf and the loops of the tests do, and the network delivers.   *)
(* Nothing makes the application start, the server answer or the link fail.  *)
Fairness == WF_vars(Client) /\ WF_vars(Deliver)

Spec == Init /\ [][Next]_vars /\ Fairness

-----------------------------------------------------------------------------
(* Properties *)

Tokens == [kind : {"status", "length", "chunked", "encoded", "etag", "other",
                   "size", "unit", EndOfLine},
           resp : Nat, val : Nat]

(* The members keep their types, a chunk is never read beyond its end, nor a *)
(* body beyond its declared length, and a line under way is one text.        *)
TypeOK ==
  /\ plan \in Plans /\ asked \in 0..Len(plan) /\ answered \in 0..asked
  /\ whole \in BOOLEAN /\ link \in {"up", "closed", "cut", "broken"}
  /\ wire \in Seq(Tokens) /\ arrived \in Seq(Tokens) /\ received \in Seq(Tokens)
  /\ fatal \in BOOLEAN /\ processed \in BOOLEAN /\ chunked \in BOOLEAN
  /\ partial \in Seq(Tokens) /\ Len(partial) <= 1
  /\ code \in Nat /\ etag \in Nat /\ length \in Nat
  /\ index \in 0..length
  /\ stat \in {"SIZE", "DATA", "END"} /\ sizeLine \in Seq(Nat)
  /\ chunkSize \in Nat /\ chunkIndex \in 0..chunkSize
  /\ postLength \in Nat /\ postIndex \in Nat
  /\ pc \in {"app", "headers", "chunked", "crlf", "trailer"}
  /\ room \in Nat /\ got \in Nat /\ line \in Seq(Tokens)
  /\ turn \in {"start", "send", "headers", "body", "stop"}
  /\ last \in {"OK", "TIMEOUT", "END", "ERROR"}

(* When GetHeaders has said that all headers are there, the members hold     *)
(* those of the response to this request: nothing of an earlier one is left, *)
(* nothing was lost at a timeout in the middle of a line.                    *)
HeadersAsSent ==
  processed /\ turn = "body" =>
    /\ code = asked
    /\ etag = IF Exchange.etag THEN asked ELSE 0
    /\ length = IF Exchange.framing = "length" THEN SumOf(Exchange.body) ELSE 0
    /\ chunked = (Exchange.framing = "chunked")

(* What Receive delivers is the body the server sent in answer to this very  *)
(* request, in order and without a gap, however the response was cut up; and *)
(* when it has said MSG_END for a body whose end is marked, it has delivered *)
(* all of it: "returns MSG_END if 'buffer' is filled with complete file that *)
(* we were receiving" (mpo_http_internal.h:80). It holds only where no LF is *)
(* late in a chunk, see FeedsComeEarly in HttpClientProofs.                  *)
BodyAsSent ==
  asked > 0 /\ Exchange.method # "HEAD" =>
    /\ IsPrefix(received, Body(Exchange, asked))
    /\ turn = "start" /\ Exchange.framing \in {"length", "chunked"}
         => received = Body(Exchange, asked)

(* The client gives up only if the server or the link did, or if the body is *)
(* encoded. GetHeaders and Receive take a fatal error for parsing that is    *)
(* "totally out of sync" (mpo_http.cpp:432).                                 *)
ErrorMeansLost ==
  turn = "stop" => link \in {"cut", "broken"} \/ Exchange.framing = "encoded"

(* The same for all bodies that are not sent in chunks. *)
PlainErrorMeansLost ==
  turn = "stop" /\ Exchange.framing # "chunked" => ErrorMeansLost

(* A response that is under way is received to its end or given up: the      *)
(* application does not go on calling for ever.                              *)
ResponseReceived ==
  asked > 0 /\ answered = asked ~> turn \in {"start", "stop"}

(* "MSG_TIMEOUT, // timeout occurred before ANY data was transferred"        *)
(* (mpo_stream.h:16): FillBuf drops what comes with any result but MSG_OK.   *)
TimeoutMeansNoData == pc = "app" /\ turn = "body" /\ last = "TIMEOUT" => got = 0

(* "MSG_OK means at least 1 byte was received" (mpo_http_internal.h:75). *)
OkMeansData ==
  pc = "app" /\ turn = "body" /\ last = "OK" /\ received # <<>> => got > 0

(* Receive fills the buffer with no more than it was asked for. *)
FitsRoom == pc = "app" => got <= room
=============================================================================
