# mpolib2: models, checks and proofs

mpolib2 is a C++ library of network, process and file helpers. This directory
holds TLA+ models of its concurrent and stateful parts, TLC configurations that
check them on small instances, and proofs of the properties that matter most,
checked by TLAPS. Every action is translated from a function under `src/`;
`PROJECT.json` maps each definition to its lines.

## 1. The system

### Components, their state and their operations

| Component | State | Operations | What makes it correct | Here |
|---|---|---|---|---|
| `mpo_httpd`, one connection of the HTTP server | stage, unread bytes, request lines, header map, body counters, pointer to the response headers | `ReadRequest`, `ParseRequest`, `Recv`, `SetHeaders`, `SendHeaders`, `Send` | the byte stream stays in step with the client; responses pair with requests and have the length they declare; no call is stuck | `HttpdConn` |
| `mpo_httpd_listener`, its threads | quit flags, map from thread id to storage | create, destroy, listener loop, child thread | storage outlives the thread that uses it; one join for each thread; the destructor returns | `HttpdListener` |
| `MpoPipeEx`, pair of pipes with counters | the system's pipe, buffer counter, pending counter, mutex | `BlockingWrite`, `BlockingRead`, `NonBlockingRead`, `GetReadBufferSize`, `Close` | a non-blocking read does not block; the counter promises no more than there is | `PipeEx` |
| `MpoPipe` | two descriptors | create, read, write, close | as above | steps of `PipeEx` |
| `MpoProcess` | flags, descriptors, two buffers, two threads, process id | `Launch`, `Wait`, `ReadStdOutEx`, `ReadStdErrEx`, `WriteStdInEx`, `CloseStdIOThreads`, `RequestShutdown`, `Shutdown` | threads, descriptors and object do not outlive each other; output is complete; nobody waits for ever | `Process` (unix build) |
| `mpo_thread`, `MpoThreadMutex` | the thread, the lock | create, wait, lock, unlock | as used | inside the above |
| `StreamFull`, stream helpers | none | read and write in full, read a line | no byte lost on a timeout | write: in `HttpdConn`; line: in `HttpClient` |
| `mpo_net`, `mpo_net_stream` | socket, last message | receive, send, select | result codes | results: in `HttpdConn` and `HttpClient`; presenters: in `TcpConnect` |
| `mpo_server` | listening socket, initialised | `Initialize`, `accept_connection`, `Shutdown` | a descriptor has one owner; accepting does not block | `TcpConnect`; as the listener uses it, in `HttpdListener` |
| `mpo_http`, HTTP client | header and chunk state | start a request, `Send`, `GetHeaders`, `Receive`, `FillBuf` | headers and body delivered are those of the response to this request, whole and in order | `HttpClient` |
| `mpo_container` | table of contents, hash, blob position | write and read blobs | what is read is what was written, or is refused | `Container`, `BlobStore` |
| `mpo_memory_stream` | bytes, position | read, write, seek | a file in memory | `MemStream` |
| `mpo_client` | presenter of the socket, raw descriptor | `connect_to_host`, `connect_and_wait`, `wait_connect`, `GetStream` | success means connected; connecting comes to an end | `TcpConnect` |
| `mpo_numstr`, `mpo_timer`, text in `mpo_misc`, URLs, command lines | none | pure functions | right at the limits of their types; text taken apart loses nothing | `NumStr`, `Timer`, `Utf8`, `Text` |
| `mpo_nat_stream`, `mpo_udp` | handshake stage | think, send, receive | | no (see section 7) |
| files (`mpo_fileio`, `mpo_file_stream`, `mpo_file_finder`), the rest of `mpo_misc` | none of their own | operating-system calls | | no |
| `md5c`, third-party code, build files | | | vendored | no |

### How they interact

* An application creates a listener with a callback. The listener thread
  accepts connections (125 ms at a time), gives each a storage object with a
  stream and an `mpo_httpd`, and starts a child thread that runs the callback
  on raw pointers into that storage. Flags (`m_bParentRequestedQuit`,
  `m_bChildHasQuit`) go both ways without a lock.
* The callback drives the `mpo_httpd` by calling its methods in the order of
  the stages. The connection reads and writes through `INonblockingStream`.
* The two ends of an `MpoPipeEx` pair share, for each direction, a mutex and
  two counters that live in the writing end and that the reading end points to.
* `MpoProcess` forks a child, and a thread each empties its stdout and stderr
  into a string, up to a limit; beyond it the thread waits until the
  application has read the string.
* `mpo_client` and `MpoServer` know sockets by descriptor. A presenter
  (`mpo_socket_presenter`) owns one descriptor and closes it when the last
  reference to the presenter goes: the client has one reference, every stream
  made from it another. The client also keeps the bare number in `m_sock`, and
  the system hands out the numbers of closed sockets again.

### What is hard

Pipelined and cut-up requests on one connection; state that survives from one
request to the next; storage shared by raw pointer between threads; counters
that lag behind the pipe they count; a mutex held over a system call;
application, reader threads and child waiting for one another through pipes,
joins and flags; partial failure of `Launch`; connects that end after the call
that began them, and descriptors that are used again; responses that arrive cut anywhere,
and chunk arithmetic that has to survive it; a file format filled in backwards
through a stream that may be full, damaged or hold something older. The list
with the lines is "hazards" in `PROJECT.json`.

## 2. Plan

Done:

1. `HttpdConn`, one connection; it implements the abstract `Exchange` (refinement
   checked and proved), with the framing of responses, `InStep` and
   `BodyIsTheClients` proved.
2. `HttpdListener`, the threads, all its safety properties proved.
3. `PipeEx`, one direction of a pipe pair, all its safety properties proved:
   `SizeIsExact` for any threads, `SizeNotNegative` for one writer and any readers,
   `ReadWouldNotBlock` and `PromiseKept` for one reader and any writers.
4. `Process`, the unix build, all the safety properties of its run proved.
5. `HttpClient`: headers that arrive in pieces, receiving by length, until the
   end, and in chunks, against "a prefix of the body that was sent in answer to
   this request"; `HeadersAsSent` and `BodyAsSent` proved.
6. `Container` over `MemStream`, which implements the abstract `BlobStore`
   (refinement checked and proved), with `VerifyExact` and `KnowsTheFile` proved.
7. `NumStr`, `Utf8`, `Timer`, `Text`: pure functions against reference
   definitions; `NumbersRoundTrip`, `Utf8Exact` and `NeverLate` proved.
8. `TcpConnect`: `mpo_client` and `MpoServer`, non-blocking connect, presenters,
   descriptors that are used again; all its safety properties proved.

What would come next:

9. `HttpSession`: `HttpClient` and `HttpdConn` composed over one wire.
10. A byte queue that `PipeEx` implements.
11. `PlainErrorMeansLost` of `HttpClient`, proved.

Runs are few and each has its question; as components are added, runs and
properties that a theorem has made redundant give way.

## 3. The modules

### HttpdConn

Variables are the members of `mpo_httpd` (`stage` is `m_stage`, `curBuf` is
`m_strCurBuf`, ...) plus the wire, the client and history: `out`, the responses
on the wire, `body`, what `Recv` delivered, `last`, the result of the last call.
Bytes are tokens: a request line, a header line, the empty line that ends a
head, a unit of body. Each token carries the number of its request, which only
properties look at. A read returns any number of tokens up to `ReadMax` (the
code's 320 bytes), so a head or a body may be cut anywhere between tokens; a cut
*inside* the four bytes CRLFCRLF is not different from one before the token,
because the search runs over the whole of `m_strCurBuf`.

One action per method, including its early returns for the wrong stage. A turn
of the loop in `ReadRequest` is a step, because a turn that times out leaves
what it read in `m_strCurBuf`. `ParseRequest` keeps the code's order: lines are
consumed as they are looked at, the header map is added to and never cleared.
`SetHeaders` assigns `m_pHeaders` before it looks at the stage. `Send` computes
its room with the code's unsigned difference; when that wraps, "no bound" is
`MaxSend + 1`. `m_u64PostBytes` is not initialised by the constructor, but
nothing reads it before it is set.

The head of a response with a length of 0 declares none (`NewHeaders`; `outBuf`
is then `None`), and `Meant` is the length of body such a head stands for.

Left out: GET URIs and their unescaping, and the texts of headers.

`Habits` is what a run lets client and application do beyond the documented
order: "pipeline" (send before the last answer), "reparse", "resend" (call
`ParseRequest`, `SendHeaders` again after a failure), "restyle" (call
`SetHeaders` out of turn).

`Exchange` is the promise: requests are taken in the order they were sent, each
has one response at most, which is complete before the next request is taken,
and afterwards the connection is given up exactly if that request asked for it.
`HttpdConn!ServesInOrder` is that specification under a mapping that derives the
phase from `m_stage`. A head of which only the beginning was written is not a
response. While the connection waits, the number of the request is that of the
responses written, so that a request counts as taken when `ParseRequest` has
succeeded, not when it has looked at the first line.

### HttpdListener

`owner` runs the destructor, `pc` is the listener thread, `thread[t]` each child
thread. A child may run and end before its entry is in `mapThreads`. Thread ids
are handed out again once joined, as pthreads does. Whoever holds the last
`shared_ptr` to a storage object frees it: `Insert` (an overwritten entry),
`Reap`, `CreateFails` and the end of `ListenerThread`. The order in which the
code walks the map is left open. `std::map` and the flags are taken as atomic;
the flags are plain `bool`s in the code, and a stale read only delays a step.

### PipeEx

One direction: writers on one end, readers on the other, the pipe as the number
of bytes in it. A critical section without a blocking call is one step that
needs the mutex to be free; only `NonBlockingRead` keeps the mutex from one step
to another, because it calls the system's read inside it. `platform`, chosen at
the start, selects the two bodies of the `#ifdef`: select on unix, the two
counters on Windows. The
other direction is the same with variables of its own. Both ends are assumed to
outlive the calls (each holds plain pointers into the other), and a closed
descriptor is not reused.

### Process

The application (one thread), the reader threads, the child, the pipes. `ends`
is the set of descriptors the parent has open, which is what decides whether a
reader sees the end of the file and whether a writer gets a broken pipe.
`StdOutThread` and `StdErrThread` are the same code over two sets of members and
are one set of actions with the stream as parameter. `Shutdown` is the first
part of `Launch` and all of the destructor. `Habits`: "nofork" and "nopipe" let
the system calls fail, "relaunch" launches with a child still unreaped, "signal"
asks a child to shut down that may not exist.

The child writes `Output` bytes to each captured stream, reads its stdin to the
end and exits; this is the child of the library's own tests (`test_process.cpp`
runs programs that read stdin). It makes one blocking call at a time, in any
order (`ChildCalls`; `busy` is the pipe of that call): while it is stuck writing
to a full pipe it reads nothing, and while it waits for input it writes
nothing. Left out: the Windows build, `execvp` and the
splitting of the command line, descriptors inherited by other children.

### HttpClient

The object (`partial` is `m_partial_header`, `chunkIndex` is
`m_cur_chunk_index`, ...), the server's responses on `wire`, what has `arrived`
for the next read, and an application that calls `Start`, `Send`, `GetHeaders`,
`Receive` in the documented order, over several exchanges of one connection
(`plan`). Bytes are tokens: the text of a line, the end of a line, a unit of
body; CR is left out, because every reader of lines skips it. Each token carries
the number of its response, which only properties look at.

`GetHeaders` and the two loops of `ReceiveChunked` read one character in a turn,
and a turn is a step, so that the network and failures come between any two
reads. `ReceiveNormal` is one read and one step. `ToRead` keeps the code's
unsigned difference with the width of `size_t` (`SizeLimit`): the position in
the chunk is subtracted from the room of the buffer, and may be larger. When
that reads more than the caller's buffer holds the model goes on as if it had
fitted; `FitsRoom` (section 4) shows it. `FillBuf` is `Receive` called again.
What a server sends (`ResponseTo`) is made of recursive functions of the exchange
alone: `Before` adds up the pieces of a body, `ChunksFrom` is what is sent from
the i-th chunk on. `feeds` names the units of a body that are an LF, which
every reader of lines takes for the end of its line, as it does where the code
looks for the end of a chunk too early (`client_pieces`). A unit that is read as
the text of a size counts as the digit of its place in the body.

Left out: the text of requests, `Last-Modified` (it is kept and cleared like the
ETag), URI escaping, and responses of HTTP versions without a status line.

### MemStream, BlobStore, Container

`MemStream` has the operators of a stream of cells: read, write, seek. A write
that begins inside the stream replaces, one beyond the end pads. `Capacity` is
the room of a file; a memory stream has no limit.

`Container` is `MpoContainer` over such a stream. A cell is a field of a header,
an entry of the table or a byte of data, so the constants in bytes become
constants in cells (`HeaderCells`, `BlobHeader`, `Covered`). Each public method
is one action; `Close` is also what the destructor does, and `CreateInstance`
puts a new object on the same stream, with whatever an earlier container left
there. MD5 is the identity under a tag. `Damage` changes a byte of data in the
file. Variables marked "history" say what the caller knows.

`BlobStore` is the promise: a list of blobs is written once and then read; reads
of an undamaged store return prefixes of what was written; a blob that ends with
success was read whole and as written. `Container!Implements` is that
specification under a mapping that derives the phase from
`m_bHeaderNeedsUpdate` and the blob being read from `m_u64CurBlobIdx`.

### TcpConnect

The clients, the server, and the system's table of descriptors `fd`, which maps
each open descriptor to a socket and gives out the lowest that is free. A
presenter has the identity of the socket it was made for: `holds[s]` is who has
a reference to it, `pfd[s]` the number it will close. `client[c]` has the members
of an `mpo_client` (`sock` is `m_sock`, `pres` is `m_SockSPtr`) and where its call
is; `listen`, `initialized` and `accepting` are the server.

`connect_to_host` is cut where others can come between: the lookup, `socket`,
the presenter with `fcntl` and `connect` (no other thread knows the socket
before), and the wait in `select`, whose three outcomes are `Succeeds`, `Fails`
and `TimesOut`. `Closes` says what closing a descriptor does to the other end
and to connections not yet accepted. `Habits` lets `fcntl` fail ("nofcntl"), a
server be initialised twice ("reinit"), `wait_connect` follow an error ("late"),
and the system drop a connection whose client has gone between `select` and
`accept` ("aborted"; before `select` it always may).

Left out: the Windows build, hosts other than the server, `connect` that
succeeds at once, `inet_pton` (it does not fail for what `net_nslookup`
returned), failures of `getsockopt`, interrupted calls, and descriptors too large for an
`fd_set`.

### NumStr, Utf8, Timer, Text

Operators, one for each function, with a recursive function (in `Text` mostly a
fold) for each loop. Characters of numbers are the digits they stand for, `Minus` or `Other`;
`Half` is half of the number of values a number's type has (2^31 or 2^63 in the
code), and numbers wrap. The octets of UTF-8 are numbers, shifts and
masks divisions and remainders. The clock has its three sizes as constants (the
masked seconds as a remainder), because TLC's integers do not hold 32 unsigned
bits. `Text` has the functions
that take text apart: `get_first_word`, `get_first_line`, `trim`,
`standardize_path`, `net_parse_url`, and the making and reading of command
lines; letters and digits that are treated alike are one character. `MCPure` goes through all
inputs within bounds, one in each state.

## 4. Runs

| Run | Question | Bounds |
|---|---|---|
| `conn_pipeline` | do requests, bodies and responses stay in step, whatever the pieces; does the connection implement `Exchange`? | 2 requests of 6 kinds, reads of up to 5 tokens, responses of 0 to 2 units, pipelining, repeated parses |
| `conn_live` | is every request answered, and do the result codes mean what they say? | the same without pipelining and without empty bodies |
| `conn_stale` *(violation)* | a POST inherits the Content-Length of an earlier request | |
| `listener` | do storage and threads outlive each other; does the destructor return? | 4 connections, 2 thread ids |
| `pipe` | can the counters be trusted; does a non-blocking read block; is a write larger than the pipe drained? | unix and Windows; pipe of 3 bytes, writes of 1, 2 and 4, reads of 1 and 3 |
| `proc_safety` | do threads, descriptors and the object outlive each other? | 2 launches, both streams, buffers that are full at once, failing `fork` and `pipe` |
| `proc_live` | does every call return, though a child that writes does not read? | 1 launch, stdout captured, pipe of 1 byte, 3 bytes of output, 2 of input, a buffer that takes all of the output |
| `client` | are headers and body those of the response to this request, whole and in order, however it is cut? | 5 pairs of exchanges: POST, HEAD, GET, by length, until closed, in chunks of 3 and 1 with an LF in the middle and a trailer, encoded; room for 1 or 3 units |
| `client_pieces` *(violation)* | a chunk of 3 arrives as 1 and 1; its third unit, an LF, is taken for the line end after it, and `MSG_END` comes with 2 units of 3 | one response, one chunk of 3 |
| `tcp` | has each descriptor one owner; does success mean connected; is each connection accepted once; does every connect come to an end? | 1 client, a server, 3 descriptors, 5 sockets, a backlog of 1 |
| `container` | is what is read what was written, or refused? | 2 blobs of up to 2 bytes, 2 ids, a stream written twice, reads of 1 and 3, one damaged byte |
| `pure` | do the conversions and the clock do what they are for? | 12-bit numbers, padding up to one digit more than the assertions allow; text of 3 characters out of 13 limits, octets of 4 out of 22; a clock of 32 ticks; strings and paths of 7 characters, URLs of 6 after "http://" |

Why these bounds are enough. Two requests show everything that passes from one
request to the next, and a third adds no new neighbour. Two thread ids with
four connections make ids be used again while the other thread is in any of its
states. A pipe of 3 bytes with writes of 4 has every case of a write that
blocks half way, and writes that fit together but not with a third. A pipe of
one byte makes every process wait for every other. Two exchanges show what one
response leaves to the next; in the passing run a response in chunks comes
last (see `MCHttpClient_late_end`). Its chunk of three is the smallest that can be
looked for the end of too early (two pieces of one each), and its LF stands just
before that place; `client_pieces` has it in that place. Three descriptors are the server's, a client's and an accepted
one, so the next socket gets a number that was used before; five sockets are
enough for two connections from end to end. Two blobs have a first, a last and a neighbour, a second container
on the same stream meets what the first left behind, and one damaged byte can be
in any blob or in what is left over. The limits of UTF-8 are the first and last
characters of each length and around what is left out. Each bound is a constant
named in the `.cfg`.

`CHECK_DEADLOCK FALSE` is in all configurations: all these systems may
legitimately stop (a client that closed, an owner that is gone, a thread in a
blocking read that nobody will write to). That nobody stops by mistake is what
the liveness properties say.

Further deviations, for which no run is kept, can be reproduced. TLC finds the
property violated in the configuration named, with the changes named and that
property alone:

| Configuration | Change | Property | What it shows |
|---|---|---|---|
| `MCHttpdConn_timeout` | | `TimeoutMeansPartial` | a complete request that arrived with the one before it is reported as a timeout (mpo_httpd.cpp:37; mpo_httpd.h:44) |
| `MCHttpdConn_empty_post` | | `ReadBodyMovesOn` | a POST of length 0 never leaves `RDY4_RECV_POST` (266) |
| `MCHttpdConn_stale` | `Kinds <- BadKinds`, `Habits = {"reparse"}` | `MethodFromRequestLine` | `ParseRequest` called again takes a header line for the request line |
| `MCHttpdConn_stale` | `Kinds <- PostKinds`, `Lengths = {0}` | `EndMeansComplete` | a response of length 0 never leaves `RDY4_SEND_BODY` (448-451) |
| `MCHttpdConn_pipeline` | | `EndsKnown` | a response of length 0 goes out without Content-Length on a connection that is kept alive, where its client cannot tell the end of it (343-349) |
| `MCHttpdConn_stale` | `Kinds <- PostKinds`, `Habits = {"resend"}` | `ResponsesFramed` | a head that failed half way is sent again from its start (mpo_httpd.h:80 says to keep calling) |
| `MCHttpdConn_stale` | `Kinds <- PostKinds`, `Habits = {"restyle"}` | `ResponsesFramed` | a refused `SetHeaders` still changes the length `Send` obeys (332) |
| `MCPipeEx_two_writers` | | `SizeNotNegative` | with two writers the assertion of `BlockingWrite` fails (mpo_ipc.cpp:460), though its header says threads may share an end |
| `MCPipeEx` | | `PolledWriteReturns` | a writer whose bytes are read need not return: the polling reader may lock the mutex each time before it (388) |
| `MCPipeEx` | `Writers = {w1, w2}`, `Platforms = {"win32"}` | `PolledWriteDrains` | one writer clears the pending count of the other (442) |
| `MCProcess_two_streams` | | `ShutdownReturns` | with both streams captured `Shutdown` waits for the first thread while the child waits for the second (mpo_process.cpp:828; 717-718) |
| `MCProcess_full_buffer` | | `FinalReadReturns` | a final read waits for a thread that waits for the buffer to be read (mpo_process.cpp:574) |
| `MCProcess_full_buffer` | `Output = {4}` | `WriteReturns` | `WriteStdInEx` waits for a child that waits for a thread that waits for the buffer to be read (674) |
| `MCProcess_full_buffer` | `SPECIFICATION Spec`, `Output = {2}`, `MaxBuf = 3` | `FinalReadTakesAll` | a final read after `CloseStdIOThreads` misses output (mpo_process.h:41) |
| `MCProcess_safety` | | `NoChildForgotten` | a second `Launch` forgets a child that was not waited for |
| `MCProcess_safety` | | `DescriptorsClosed` | a failed `Launch` leaves descriptors open |
| `MCProcess_safety` | | `BuffersEmptied` | output of an earlier child is read as that of the next |
| `MCProcess_safety` | | `SignalReachesChild` | a failed `fork` is taken for a child, and process -1 is signalled |
| `MCHttpClient_late_end` | | `HeadersAsSent` | the empty line after the last chunk arrives late and is taken for the end of the next response's headers, whose code is then 0 (mpo_http.cpp:568) |
| `MCHttpClient_late_line` | | `ErrorMeansLost` | a chunk was read whole and its line end comes late: the timeout is taken for an error, though server and link are well (mpo_http.cpp:535; 432, 553) |
| `MCHttpClient_pieces` | `Plans <- OneEmpty` | `ResponseReceived` | a Content-Length of 0 is taken for none (602), and `Receive` waits for the server to close |
| `MCHttpClient_pieces` | `Plans <- TwoChunks` | `TimeoutMeansNoData` | `ReceiveChunked` returns MSG_TIMEOUT with data in the buffer (mpo_stream.h:16 says there is none), and `FillBuf` drops it |
| `MCHttpClient_pieces` | `Plans <- TwoChunks` | `OkMeansData` | it returns MSG_OK without data at the last chunk (mpo_http_internal.h:75) |
| `MCHttpClient_pieces` | `Plans <- OneThenTwo`, `Rooms <- OfTwoUnits` | `FitsRoom` | the second chunk of a call is read as if the buffer were still empty (495) |
| `MCTcpConnect` | `Dests = {"server", "noroute"}` | `OkMeansConnected` | an address that `connect` itself refuses leaves no error in the socket, so NET_OK is returned (mpo_client.cpp:111-120; mpo_client.h:44) |
| `MCTcpConnect` | `Habits = {"late"}` | `OkMeansConnected` | `m_sock` outlives the presenter, and `wait_connect` may ask about the socket that has its number now |
| `MCTcpConnect` | `Habits = {"nofcntl"}` | `DescriptorsOwned` | an accepted socket is forgotten when `fcntl` fails (mpo_server.cpp:139) |
| `MCTcpConnect` | `Habits = {"reinit"}` | `DescriptorsOwned` | a second `Initialize` overwrites `m_listening_socket` |
| `MCTcpConnect` | `Fds <- FromZero` | `DescriptorsOwned` | descriptor 0 is taken for a failure and left open |
| `MCTcpConnect` | | `ErrorMeansNothingHeld` | a lookup that fails keeps the presenter of an earlier connection (mpo_client.cpp:153-160) |
| `MCTcpConnect_aborted` | | `AcceptReturns` | a client leaves between `select` and `accept`, the system drops its connection, and `Accept` waits for somebody else (mpo_server.cpp:127 and the TODO at 128; mpo_server.h:50) |
| `MCContainer_full` | | `Implements` | a short write is hashed as a whole, so the blob is refused when it is read (mpo_container.cpp:340) |
| `MCContainer` | | `InPlaceAfterVerify` | `VerifyContainer` leaves the stream at its end (mpo_container.h:52) |
| `MCContainer` | `Habits = {"reuse"}` | `ClosedIsFinal` | blobs can be written after `Close`, behind the table of contents (438) |
| `MCPure` | | `ElapsedExact` | a difference of times across the wrap of the clock is wrong, every 48 days (mpo_timer.cpp:55) |
| `MCPure` | `Half = 8388608`, `Values <- LargeValues`, `Bases = {2, 10}` | `DigitsFit` | 20 digits do not fit the 20 characters of `UToStr` (mpo_numstr.cpp:254); shown in base 2, in base 10 the numbers from 10^19 on |
| `MCPure` | | `HexStops` | in base 16 other text does not end a number (mpo_numstr.h:112) |
| `MCPure` | | `StaysInString` | a sequence of octets cut by the end of the string is followed one beyond it (mpo_misc.cpp:321) |
| `MCPure` | | `LineEndsGone` | a line at least as long as what follows it leaves its line end behind, and the next line is then empty (589) |
| `MCPure` | | `TrimsBothEnds` | space at the end stays if there is none at the front (623), and in a text of nothing but spaces the search goes on before its beginning (631; mpo_misc.h:184) |
| `MCPure` | | `SameFile` | a dot at the end of a name is dropped with the separator, so that "a./b" becomes "ab" and "../b" becomes ".b" (378; mpo_misc.h:155) |
| `MCPure` | | `RootStaysRoot` | "/." becomes the empty path (426) |
| `MCPure` | | `DotAtEndIsNothing` | "a/" stays as it is while "a/." becomes "a", so two ways to write one directory stay different (426; mpo_misc.h:155) |
| `MCPure` | | `UrlParts` | a colon in the uri ends the host, so that "http://h/a:b" has the host "h/a" (mpo_net.cpp:298; mpo_net.h:95) |

The passing runs avoid these only where a constant says so (`Habits`, `Lengths`,
`Streams`, `MaxBuf`, `Plans`, `Capacity`, `Dests`, `Fds`), and the property
concerned is not in their list.

Properties that hold as well, and are not in a run because others say more or a
theorem says the same: `TypeOK` of every module, in `MCHttpdConn_pipeline`,
`MCPipeEx`, `MCHttpClient`, `MCProcess_safety`, `MCContainer`, `HttpdListener` and
`MCTcpConnect` (there with all habits); `EndMeansComplete` in `MCHttpdConn_live`,
`PlainErrorMeansLost` in `MCHttpClient`.
`MCTcpConnect` with two clients and 4 sockets (1.19 million states) satisfies
the safety properties too.

## 5. Fairness

* `HttpdConn`: `WF(Progress)`. The application calls the method whose turn it is
  again and again (the loop of every callback in the tests) and the network
  delivers what was sent. Client actions are not fair. `RequestsAnswered` is
  conditional on the client staying connected.
* `HttpdListener`: weak fairness for the listener thread, the owner's waiting
  and each child; a callback returns only once it was asked to quit, which is
  the contract of `IHttpdThreadComm`. The owner need never start the
  destructor. Connections are finite: while they keep arriving a child that has
  quit could wait for a pass of its own, since a pass reaps one at most.
* `PipeEx`: threads inside a call are scheduled (WF). `PollingSpec` adds that
  the reader calls `NonBlockingRead` again and again. Nothing is assumed of the
  mutex: `mpo_ipc.cpp:388` says that a thread may lock it again before one that
  waits for it does. So the run claims that a write is drained and not that the
  call returns (`PolledWriteReturns`, section 4).
* `HttpClient`: weak fairness for the application's current call, repeated as
  `FillBuf` and the loops of the tests repeat it, and for the network's
  delivery. Nothing makes the application start a request, the server answer or
  a link fail.
* `TcpConnect`: weak fairness for calls in progress, for `accept` once `select`
  has found a connection, and for the system, which answers each connection or
  gives it up. Nothing makes the application begin a call or accept.
  In `MCTcpConnect_aborted` this fairness does not help, as the backlog stays empty.
* `Process`: weak fairness for what is inside a call, for the child and for each
  thread; none for the calls themselves.

## 6. Proofs

`HttpdListenerProofs` proves, for any sets of connections and thread ids:
`TypeOK`, `NoUseAfterFree`, `JoinsOnlyItsThread`, `NothingOutlivesOwner`,
`NoEntryOverwritten` and `ReleasedAfterJoin`. The properties are not inductive:
that storage is alive while a thread uses it follows from who holds it
(`HeldInv`: storage is live exactly while the map or the local variable has it),
from every thread having its entry or being the one about to be inserted
(`OwnedInv`), from no two holders of one connection (`DistinctInv`), and from
where the loops are (`LocalsInv`, `EntriesInv`, `ScanInv`, `QuitInv`). Their
conjunction `IInv` is inductive; one step per action.

`PipeExProofs` proves, on either platform, for any sizes and any capacity:
`SizeIsExact` for any threads, `SizeNotNegative` for one writer and any number of
readers, `ReadWouldNotBlock` and `PromiseKept` for one reader and any number of
writers. Each restriction is needed: with two writers the first of these is
false (`MCPipeEx_two_writers`), and with two readers one takes the bytes that the
other was promised. The heart is the `Ledger`: bytes in the pipe plus bytes read
and not yet subtracted equal the counter plus bytes written and not yet counted;
a write that fails on Windows makes an inequality of it, but only for a pipe
that nobody reads, and with one writer only after the call. What all threads together
owe is a sum over a set of any size; it is stated without a fold, as the
cardinality of a set with one element for each byte (`Owed`), and lemmas say how
a step of one thread changes it.

`HttpdConnProofs` has three parts. The first proves `ResponsesFramed` for any requests, lengths, reads and
number of requests, if the application neither sends a failed head again nor
sets headers out of turn (both are false otherwise, see section 4). The
invariant says that every response but the last is complete, that the last is in
flight exactly in `RDY4_SEND_BODY`, with its declared length equal to the one
`Send` looks at and its length so far equal to `m_u64BodyBytesSent`. A length of 0
is never declared; of a head without a length it is proved that nothing follows it.

The second part proves `InStep` and `BodyIsTheClients` for any habits, if
requests are `Tidy`: a POST has a body, of the length its one Content-Length
says, and no line without a colon, and nothing else has a body (the first two
are what the findings and `MCHttpdConn_empty_post` and `MCHttpdConn_stale` are
about). `Starts` describes what is still to come by the position at which each
request begins, zero or less once it has been read in part; a read of k tokens
takes k off every position (`Dropped`), a lost link cuts the end off (`CutOff`), a
new request adds a position (`OneMore`). `Due` says where in this the server is at
each stage: at the start of the next request, at the first unit of a body, or
between them.

The third part proves that `HttpdConn` implements `Exchange`
(`ServesInOrder`) for tidy requests, none of which asks both for the connection to
be closed and to be kept, and an application that calls as documented; clients may
pipeline. Besides the invariants of the first two parts it needs `ServeInv`: the
number of the request in hand is that of the response due, and `Connection: close`
is in the header map exactly if that request had it, which holds only because
the connection is given up as soon as it was there once. All of `PipelineKinds`
are such requests.

`ProcessProofs` proves `TypeOK`, `ThreadsAccountedFor`, `ReadsOpenEnd`,
`ObjectOutlivesThreads`, `BufferBounded` and `FinalReadComplete` for any streams,
sizes and number of launches, with all habits. The invariant says which
children may still hold the other end of a pipe (`KidsInv`); that a thread
runs exactly while the object has a handle to join, and where the application
stands when it does not (`ThreadInv`); that a thread's pipe is open, because the
code that closes it joins first (`EndsInv`); that a thread appends only after it
has seen room (`BoundInv`); and what a final read may assume once the thread
has stopped (`FinalInv`).

`TcpConnectProofs` proves `TypeOK` in all cases, and `DescriptorsOwned` for any
number of clients, descriptors and sockets, if `fcntl` does not fail, no server
is initialised twice and descriptor 0 is not free (all three are needed, see
section 4). The invariant has a part for each owner (`PresentersInv`,
`OpenersInv`, `ListenInv`), says that the table is injective (`TableInv`) and that
references are those of existing presenters (`RefsInv`), and that an open
descriptor belongs to somebody (`NoLeakInv`). Two owners of one number would be
owners of one socket, and each kind of owner is told from the others by the
state the socket is in.

It also proves `OkMeansConnected` with any failures, if `wait_connect`
is only called after a timeout or success and no address is refused by
`connect` itself. It says of every client that waits or may wait again that the
number it remembers is that of its presenter's socket (`AttemptInv`), that
this socket is in an attempt to connect and has an error if that failed, and
that no two clients have one presenter (`ApartInv`); `SocketMoves` lists what a
step of anybody may do to a socket whose presenter stays.

Last it proves `AcceptedOnce` if `fcntl` does not fail and descriptor 0 is not free
(`Presenting`; the first would lose an accepted connection, the second one whose
presenter holds number 0), with every other habit: initialising twice, waiting
after an error, connections that vanish before `accept`. That one connection is
not accepted twice, nor accepted while it waits, is not inductive: it needs that
an accepted socket names the client's socket it was made for and no two name the
same (`FromInv`), that the backlog has no duplicate and holds only sockets that
nobody has accepted (`QueueInv`), and that a socket that stands is in one of the
two places (`StandsInv`).

`ContainerProofs` proves four things of the container file, for any blobs, ids,
sizes and habits of reading.

* `VerifyExact` with no hypothesis at all: also when the medium is too small, when
  the caller writes on after `Close`, and with any damage. Its invariant
  `SumInv` says that a file that was closed has in its second cell the digest of
  what it covered at that moment (`Sealed`) while one that is being written has not
  been closed, that a writer never goes back before the cells that the digest
  covers but to fill in the header (`WriterInv`), and that a reader holds the
  digest of the file.
* `KnowsTheFile`, `TypeOK` and that `Container` implements `BlobStore`, under
  `Roomy`: no blob is written after `Close`, and the stream has room for the header
  and for `MaxBlobs` blobs with their headers and table entries. Both are needed:
  `ClosedIsFinal` fails without the first (section 4), and on a medium that fills
  up the table of contents is cut short, so that a reader learns something else
  than what was written, and short writes are hashed as if whole
  (`MCContainer_full`).

The invariant `FileInv(offs)` has a witness `offs`, the place of each blob in
the file. `Layout` says that the blobs lie there one behind the other, each with
its header, and (but for one damaged byte) its bytes and the digest of them;
`WriteInv` what the writer knows of them before `Close`, when sizes, table and
header are still blank; `ClosedInv` what stands in table and header after it;
`ReadInv` what the reader has learnt and where the stream stands for it. The
file is filled in backwards with seeks in between, so each write is shown to
change its own cells and to leave what `Layout` says of all others. Step by step:
`WriteHeader` is `Begin` of `BlobStore`, `StartWriteBlob`, `WriteToBlob` and
`EndWriteBlob` are `StartWrite`, `Write` and `EndWrite`, `Close` is `Close` or a
stutter, `CreateInstance` is `Close` and a new reader or `Reopen`; `ReadHeader`,
`JumpToBlob` and `VerifyContainer` are stutters, `StartReadBlob` is `OpenBlob` or
a stutter, `ReadFromBlob` is `Read`, `EndReadBlob` ends well or badly, and
`Damage` is `Damage`.

`HttpClientProofs` proves `HeadersAsSent`, `BodyAsSent` and `TypeOK` for any
exchanges on a connection, any bodies and pieces, any rooms, and any order of
arrivals and failures, if what the server sends is `WellSent`: a response in
chunks is the last of its connection (`ChunksComeLast`; `MCHttpClient_late_end`
shows `HeadersAsSent` false without that, because the trailer of such a response
may be left unread), and no unit of a chunk that is an LF stands past its middle and
the unit after that (`FeedsComeEarly`; `client_pieces` shows `BodyAsSent` false
without that). All plans of the passing run satisfy both. What was sent and not yet read is `Rest`, arrived or on
the wire, and `Ahead(Rest, q, k)` says that it is what comes after the first k
tokens of q, or a beginning of that: a read of n tokens takes k to k + n (`Took`),
a lost link only shortens `Rest` (`LostKeeps`), and nothing else touches it. The
invariant `ClientInv` says where in the response the parser stands, for each
place it can be in:

* in the head (`HeadInv`), after p tokens, which determines every member that
  `ProcessHeader` sets, `m_partial_header` included; before the answer p is 0 and
  nothing is left of an earlier response;
* in a plain body (`PlainInv`), after as many units as were delivered;
* in chunks (`ChunksInv`), at the i-th chunk, before or after the text of its size
  (`AtSize`), or some units into it (`AtData`). The line end of a chunk is looked
  for too early only when more than half of the chunk was read, so under
  `FeedsComeEarly` what is found there is text: it is kept in `line`, and only an
  error can follow;
* between two exchanges (`StartInv`), with nothing left, or with the plan at its end.

`HeadMeans`, `ChunkAhead` and `ResponseMeans` say which token stands where in what
a server sends. That the recursive functions in it exist at all is proved, since the
induction theorems of the library cannot be used, from a least counterexample
(`LeastOne`, `Iterates`).

`PureProofs` proves three properties of the pure functions, for inputs of any size.
Each loop of the code is a recursive function in the model. That such a
function exists, and that what holds at 0 and passes from each number to the next
holds everywhere, is proved from a least counterexample (`LeastOf`, `UpTo`,
`Loops`), since the induction theorems of the library cannot be used.

* `NumbersRoundTrip` for types of any width, wherever the text fits the buffers of
  20 and 21 characters and the assertions let the padding through (`UToStrFits`,
  `IToStrFits`; `DigitsFit` in section 4 is what goes wrong elsewhere). `Spells(ds, u, base)`
  says that the digits `ds`, read from the left, make `u`: one more digit
  (`SpellsMore`), zeros in front (`SpellsPadded`) and the digits that are written
  (`DigitsSpell`) do. On its way through them the loop that reads never holds more
  than the whole (`Growing`), so nothing wraps; and it finds a number that
  stands in other text if no digit is before it and none directly after it
  (`IntFound`, `UintFound`; in base 16, none at all). The smallest number, whose
  magnitude is not a number of the type, comes back because both directions wrap
  (`SignedAgain`).
* `Utf8Exact` for texts and strings of any length. The octets of a character are
  its digits in base 64 with marks on top, which one turn of the loop in
  `FromUTF8` takes off again (`OctetsRead`, `TurnReads`); and what a turn accepts is
  what `Octets` makes of the character it read (`OctetsBack`, `TurnIs`). Text to
  octets and back is then a run of such turns (`TextComesBack`); so is octets to text and
  back, for what is accepted and consists of whole characters, since every turn that is accepted begins where
  the rewriting of the turns before it ends (`OctetsComeBack`).
* `NeverLate` for any length of a second, any number of seconds kept and any width
  of the result that holds them: the clock is the time less a whole number of
  periods (`ClockIs`), so two readings less than a period apart differ by the time
  between them, or by a period less; in unsigned arithmetic the second is at least
  as large, because a period is not longer than the range of the result
  (`TimerAssumption`).

The proofs use the named assumptions on constants (`ConnAssumption`,
`ListenerAssumption`, `PipeAssumption`, `ProcessAssumption`, `TcpAssumption`,
`ContainerAssumption`, `ClientAssumption`, `NumAssumption`, `TimerAssumption`,
`PureAssumption`), which TLC evaluates in the runs.

Only model-checked: all liveness; of `HttpClient` what an error means and
connections that go on after a response in chunks; of the pure functions
`TextExact`, the words, lines, paths, URLs and command lines; `Container` on a medium
that fills up, where only `VerifyExact` is proved. What those functions on text
compute for every input are folds over the text with several states, and the
library has no theorem about its folds; each would need to be proved equal to
a run of turns first, as `PureProofs` does it for the loops that are recursive
functions. TLC goes through all of their inputs within bounds instead.

## 7. Not modelled

* **`mpo_nat_stream`, `mpo_udp`, `mpo_udp_internal`.** The handshake is unfinished:
  `ThinkRecv` throws "unimplemented" after the first answer, the answer is read
  at offsets that count `int`s where the sender counts bytes, the socket blocks
  so that `ThinkRecv` waits before anything is sent, `m_bVersionMismatch` is never
  read, and the test is commented out. There is no behaviour to state a property of.
* **Files** (`mpo_fileio`, `mpo_file_stream`, `mpo_file_finder`) and the rest of
  `mpo_misc`: one system call each, and wide-character variants of it.
* **The Windows builds** of `MpoProcess`, `mpo_net` and `mpo_thread`. `PipeEx` has both,
  because there the two differ in their algorithm.
* **`md5c`, googletest, build files**: third-party or without behaviour.
  googletest is by far the largest body of code in the tree (the library itself is
  about 13,400 lines, tests included), so a share of all lines says little here.

## 8. Conventions

Definitions that change one line of the code the way a bug would (a dropped
reset, a swapped order) stand before the definition they change, marked
"mutant"; `PROJECT.json` names for each property of a passing run the one that
breaks it. They are used nowhere in the specifications.
