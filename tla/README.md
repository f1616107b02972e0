# A TLA+ model of 42.webserv

This directory specifies the web server whose code is in `src/` in TLA+: modules
that model its parts, configurations with which TLC checks them on small
instances, and proofs that TLAPS checks for every value of the constants.

The server is one thread. `WebServer::runServer` takes up to `MAX_EVENTS` events
from `kevent()` and handles them one after the other; each event carries a raw
pointer to the `Request` of its connection. What is hard about it is not
computing a response but *when* things happen: a batch of events was collected
before its first event is handled; a descriptor's number may be closed and handed
out again inside a batch; the client, the CGI script and the timer each end a
wait in their own way and any two may do so together.

## 1. Inventory

| Part | Code | State | Operations | Talks to |
|---|---|---|---|---|
| Event loop | `srcs/WebServer.cpp` | `evList`, the listening sockets, the kqueue | `runServer`, `newClient`, `readRequest`, `sendResponse`, `handleTimeout`, `closeClient`, `addFilter`, `removeFilter`, `cleanAddFilterFail` | everything; the `Request` by `udata` |
| Request | `RequestParser.hpp`, `RequestData` | `_headerDone`, `_doneParsing`, `_httpStatus`, `_redirection`, body, counters | constructor, getters | owned by its connection, freed by `closeClient` |
| Request reader | `RequestParser.cpp` 291-400 | `_temp`, `_clientBytesSoFar`, `_reqBody` | `appendToRequest`, `appendLastChunkToBody`, `appendToBody` | called by `readRequest` |
| Header parser | `RequestParser.cpp` 73-228 | method, path, version, server name | `storeWordsFromFirstLine`, `storeWordsFromOtherLine`, `setSpecificServer`, `parseHeaderAndPath` | routing |
| Routing | `RequestParserURLpath.cpp` 189-556 | `_isFolder`, `_autoIndex`, `_isCgi`, status | `parsePath_*`, `checkMethods`, `checkRedirection`, `checkIfPathExists` | the location blocks, the disk |
| CGI | `CgiData.cpp`, `RequestParserURLpath.cpp` 14-185 | `_fd_in`, `_fd_out`, `_childPid`, `_isCgi` | `createPipes`, `runExecve`, `closePipes` | the kqueue, the script |
| Response | `ResponseData.cpp`, `autoIndex.cpp` | `_fullResponse`, `_responseDone` | `createResponse`, `setResponseStatus`, `getSpecificErrorPage`, `setImage`, `streamFile`, `storeFolderContent` | the `Request`, the disk |
| Listening sockets, virtual servers | `WebServer.cpp` 3-64, `ServerData.cpp` 316-359, `RequestParser.cpp` 183-206 | `_servers`, `_listening_socket` | constructor, `checkExistingSocket`, `setListeningSocket`, `setSpecificServer` | the configuration, the header parser |
| Configuration file | `ConfigFileParser.cpp`, `Parser.cpp`, `ServerData.cpp`, `ServerLocation.cpp` | blocks and directives | `handleFile`, `parseFileServerBlock`, `parseFileLocationBlock`, the setters | the disk; read once, at start |
| Start and shutdown | `main.cpp`, `SigHandler.cpp`, `WebServer.cpp` 66-76, 158-170, `ServerData.cpp` 50-65 | `signalCall`, one per translation unit | `main`, `endSignal`, `exitProgram`, the destructors | the event loop |

What makes each part correct, and what is hard about it:

* **Event loop** – no filter keeps a pointer to a freed `Request`; no event of the
  batch that is still to be handled is taken for another connection's; every
  socket has exactly one owner; a client that is there is answered, once, with its
  own response, unless an image it asked for has vanished; nobody waits in the accept
  queue unnoticed. Hard: stale events,
  reused descriptors, edges of an `EV_CLEAR` filter, partial sends.
* **CGI** – the pipes and the script never outlive the `Request`; output is
  answered whole. Hard: the script may exit, stop reading or run past the timer at
  any point; `pipe`, `fork` and `kevent` may fail half way; numbers of closed pipes
  are kept.
* **Request reader** – the body that is accepted is the one declared, a rejected
  one deserved it, memory is bounded, no needless wait. Hard: TCP cuts the request
  anywhere.
* **Routing and response** – a method the location does not list gets no content;
  an error stays an error; the page names the status. Hard: six places set the
  status at different times, `createResponse` changes it up to three times, files
  may go in between, and a page is chosen by digits anywhere in its path.
* **Configuration** – each block has its own settings and nothing of another's; what
  is out of range is refused. Hard: three loops read one stream, a keyword is found
  anywhere in a line, and what a setter looks for on the disk depends on the lines
  before it.
* **Virtual servers** – a request is given the block of its own address and name;
  equal addresses share a socket. Hard: host and port are compared as text, the comparing
  loop never increments its counter, and `bind` compares addresses.
* **Start and shutdown** – no listening socket is closed as long as the server runs.
  Hard: a signal may come anywhere, and every `Request` holds copies of the blocks whose
  destructors can close the sockets.

## 2. Modules

| Module | Models | Used by |
|---|---|---|
| `Kernel` | what the loop uses of kqueue, descriptors and pipes (external) | `WebServer` |
| `RequestState` | what the loop knows of a `Request`, and what parsing and `createResponse` may make of it | `WebServer`, `RequestReader`, `Exchange` |
| `WebServer` | the event loop, the CGI pipes and the script, clients and their resets | |
| `WebServerProperties` | the properties of `WebServer` and the invariant of the proofs | |
| `WebServer_proofs` | type correctness for every configuration | |
| `WebServer_static_proofs` | the invariants where no location is a CGI, the accept queue, and that `WebServer` without CGI implements `Connections` | |
| `WebServer_scripts_proofs` | scripts, pipes and the reasons to answer, for every configuration | |
| `WebServer_output_proofs` | which descriptors a complete CGI request still waits for | |
| `Connections` | what the event loop promises a client (abstract) | `WebServerProperties` |
| `RequestReader`, `RequestReader_proofs` | the bytes of one request, and its proofs | |
| `Routing` | what the header alone makes of a request, as operators | `Exchange` |
| `Exchange` | how the status, body and page of one answer come about | |
| `Exchange_proofs` | who may get content and that errors are final, for every server | |
| `Configuration` | the configuration file, line by line, and the setters | `Program` |
| `VirtualServers` | shared sockets and the block of a request, as operators | `Program` |
| `Program` | from `main` to the end: configuration, sockets, signal, shutdown | |
| `ProgramProperties` | what a configuration file means, and the properties of `Program` | |
| `Program_proofs` | types, sockets and the block of a request for every configuration file | |
| `Configuration_proofs` | that the blocks are those the file means, for every tidy file in order, and the right block for a request in any order | |
| `MCWebServer`, `MCRequestReader`, `MCExchange`, `MCProgram` | values of the constants for TLC | |

`WebServer` abstracts a request's bytes to what the loop tests (`headerDone`,
`done`, `isCgi`, the class of the status). What may become of these is `RequestState`:
`Parsed` is `appendToRequest`, `Answerable` and `StartsCgi` are the two tests of
`readRequest`, `CreateResponse` is `createResponse`. `RequestReader` and `Exchange` have the
detail behind these operators, and instantiate `RequestState` to say that each of their steps is
one of those the loop allows for (`ReadAsTheLoopExpects`, `RoutedAsTheLoopExpects`,
`RespondsAsTheLoopExpects`): the abstraction
the loop's properties rest on leaves out nothing its parts do. The other direction is not claimed; the
loop's model may allow more. `Program` turns
it round: of the event loop it keeps one connection and the batches, and it has the
blocks, the signal and the end of the program that `WebServer` leaves out.

### Kernel and WebServer

`kernel.desc` is the descriptor table, `kernel.knote` the filters, one per pair of
descriptor and filter kind with its `udata`; closing a descriptor removes its
READ and WRITE filters but not its timer, which is not tied to a descriptor. A
new descriptor gets the lowest free number. `req` holds the `Request` objects,
`batch` the rest of `evList`. One action is one handler with one outcome of its
system calls: `AcceptOne`, `AcceptFault`, `ReceiveMore`, `ReceiveLast`,
`StartScript`, `StartWithoutPipes`, `StartDelete`, `ReadPipe`, `PipeEof`,
`WritePipeAll`, `WritePipeFailed`, `SendPart`, `SendAll`, `HandleTimeout` and so
on. `Kevent` takes a batch: all that is pending, or as many as fit, in any order
of handling. Between two handlers a client may connect, send, close or reset and
a script may write or exit.

Reading or writing through a freed `Request` is undefined behaviour; `TouchFreed`
sends the process to the state `"undefined"`, where it stops. `SIGPIPE` is neither
handled nor ignored by the code; `Killed` is its effect. A header line that ends at
its key, or a `Content-Length` that is no number, ends the server or is undefined:
`HeaderBreaks`.

### Connections

A connection as its client could describe it: `away`, `waiting` in the accept queue,
`receiving`, `answering`, `ended`; whether the client has hung up; and what it was sent.
Between `receiving` and `answering` there is `serving`: the request was accepted, and
its content has yet to be looked for. `Answer` ends the connection with exactly one
response, its own; `Drop` ends it without if the client has hung up; `Vanish` ends it
without while its client is there, and only from `serving`. That is the code's
`setImage`: if the image cannot be opened any more, `_fullResponse` is empty, `send` of
nothing is taken for everything sent, and the client is closed without a byte. A rejected
or timed out request and a response of which a part was sent are `answering` and cannot
end so. `WebServerProperties` maps the event loop
to it (`Promised`): the stage follows from the accept queue, the life of the `Request`,
the WRITE filter and the status. Partial sends, batches, stale events and reused descriptors are
stutters or part of these steps.

### RequestReader

A byte is its position in what the client sends, so that the body can be compared
with what it should be. `Recv` takes any number of bytes below `BufferSize`
(`BUFFER_SIZE - 1` are asked for). `HeaderPiece`, `HeaderEnd`, `BodyPiece` and
`BodyRejected` are the branches of `appendToRequest` and of the two functions
below it. `early` is a history variable: the bytes that came before the piece
with the header's end. A header that contains a NUL byte is left out (the code
reads the piece as a C string and would stop there).

### Routing and Exchange

A path is abstracted to its kind, a location block to what it stands for, the
methods it lists, its listing and redirection, and what the disk holds where it
would look. `Verdicts` is `parseHeaderAndPath`; a set, because what the disk holds
for internal paths is not part of the block. `Exchange` then follows the status:
`Header` and `BodyPiece` (with any outcome of the reader), `ScriptOutput`,
`ScriptEnd`, `Timeout`, and `createResponse` as `Responses`, run by `Answer` on the
first WRITE event and by `PipeWriteFailed` when a write to the script fails. `pipes` are
the script's pipes that may still have an event: the timer closes them, but their events of
the same batch are handled all the same, so that the write may fail, and the output end,
before or after the timer. Files may vanish between `checkIfPathExists` and the opening.
`streamFile` then has no content, which `Fallback` makes a 404 (for a folder, whose path is
an index file's or an error page's by then) or a 500 with its page; `setImage` (`Images`)
opens for reading and writing and makes an empty response of any failure, without even a
header. `FullResponse` is how a response is added to `_fullResponse`: an image, found or
not, replaces what is there. `ErrorPages` are the configured pages. Of their names the model has
the statuses whose digits they contain, of the path to them `RootDigits`; `PageFor` is
`getSpecificErrorPage`, the first page that contains the digits anywhere and is there.
`_formDataHasDelete` is read without being initialised, so `Init` gives it either value.

### Configuration, VirtualServers and Program

A line of the file is what the parser looks for in it: the keywords it contains
anywhere, its mark (a brace, a value, only blanks, nothing, a comment), and the value
as a number. The order in which the code tests for keywords is `ServerOrder` and
`LocationOrder`: the first that occurs decides. One action is one line in one of the
three loops (`OpenServer`, `ServerDirective`, `CloseLocation`, `EndOfFile`, ...). `SetServer`
and `SetLocation` are the setters; what they look up is looked up below the root the
block has at that line (`Missing` says what the disk lacks). Body sizes saturate at
`LongMax`, as `strtol` does, and are then taken modulo `UintRange`, as by an `unsigned int`.

`Blocks` of `ProgramProperties` says independently what a whole file means: each block has the
value of the last line of each keyword between its own braces, wherever that stands, and what
is looked up is looked up below the root the block has in the end; a location has the root
and the index file its block has in the end. A file is `Tidy` if its braces balance, there
is one thing to a line, each setting stands in a kind of block that knows it, with one
keyword and no comment behind it, nothing stands outside the blocks, and no body size is beyond an
`unsigned int`. The parser does not read a file as a whole, so that it keeps to this meaning
only in a file that is also `InOrder`: the root of a block above its `index_file`, `error_page` and
`upload_directory`, root and index file above the locations, and a location's root above its
index file. That is what `BlocksRead` is about. What the repository says of files in any
order (`SettingsInAnyOrder`) the code does not do; its own
`standard_complete.conf` has a location with its index file above its root (200-203). Which
block a request is given does not depend on paths, so `RightServer` is about every tidy file.

`OpenSocket` is one turn of the constructor's loop: the socket `checkExistingSocket`
finds, a new one if `bind` lets it (`MayListen`), or an exception. `Address` is what
`getaddrinfo` makes of a host; two spellings may be one address. `flag` has one
`signalCall` for each translation unit, because the header declares it `static`;
`EndSignal` sets the one of `SigHandler.cpp`. `ParseHeader` chooses the block by
`SpecificServer`, `DestroyBlocks` is `~ServerData` for the copies in a `Request`, and
`ExitProgram` deletes once for each event of the batch. `StayOrClose` on an event of a script's
pipe deletes the `Request` and leaves the client's timer armed (the life `"left"`): `Armed`
lets it expire, and `StaleEvent` is what follows. The code then adds a WRITE filter with the
freed pointer, whose event deletes the `Request` a second time; the model stops at the first
use of the freed memory, from which on anything may happen.

## 3. What TLC checks

Every run uses `CHECK_DEADLOCK FALSE`: a server with nothing to do, and a request
that was answered, may stop.

| Run | Instance | Distinct states | Question |
|---|---|---|---|
| `Static` | 2 clients, 2 descriptors, 3 events per batch, no CGI | 273,254 | stale events, socket ownership, one own response, accept queue, `StaticInv` (the invariant that is proved), and the refinement of `Connections` |
| `Cgi` | 1 client, 5 descriptors, 4 events, CGI, every call may fail, fair | 3,607 | pipes, script and answers whatever fails half way, nothing read into a complete request, and that a connection that has the server to itself ends |
| `CgiTwo` | 2 clients, 5 descriptors, 2 events, CGI | 1,312,933 | two scripts compete for descriptors; numbers pass from one to the other; nobody is answered early |
| `Reader` | headers of 1..6 bytes, bodies of 0..8, declared -2..7, buffer 5, limit 3 | 45,503 | exact, bounded, rightly rejected bodies; the loop's view of them |
| `Exchange` | 144 single blocks and 36 pairs, 3 configured pages, all kinds of requests | 180,450 | who may get content, errors are final, pages fit; the loop's view of it |
| `Program` | 1033 files of up to three blocks (981 tidy, 839 of them in order), 6 headers | 736,161 | blocks are read right, sockets shared right, the right block for a request, signal and shutdown |

`MaxFd = 5` is what one CGI request needs (a socket and four pipe ends), so two
clients must share it: the second one's pipes fail or reuse numbers. `MaxFd = 2`
with two clients has a free number only after a close, which is when reuse
happens. Three events per batch are enough for the timer and the READ of one
client together with an event of the other, or with the listening socket. The
lengths of `Reader` lie on both sides of the buffer, the limit and the declared
length. In `Exchange` all combinations of kind of path, method, block and file
appear; a second block is only there to be hidden by the first, so pairs vary
less. Of the default pages only that of 500 is missing, as on disk (see below); of the configured ones one
has gone, one stands for two statuses and one cannot be opened, and the root's path
contains 403. The files of `Program`
are built by what can go wrong: two and three blocks over all pairs of address and name
lines, with two spellings of one address; blocks of up to three lines that depend on each
other (roots, and paths looked up below them) in every order, and of up to two with values at the limits;
a location above and below a server's lines; files that are not tidy. `UintRange` is 4096 instead
of 2^32 and `LongMax` 16383 instead of 2^63 - 1 so that body sizes wrap and saturate at small
numbers; `PortRange` is the real 65535. One connection is enough: blocks and sockets do not depend on others.

Runs that end in a violation state what the repository says and the code does not do:

| Run | Says | Happens |
|---|---|---|
| `DrainedBug` | `WebServer.cpp:118` "specifically for ret = 0 && EV_EOF" | `EV_EOF` comes with bytes still in the pipe; they are dropped |
| `WriteEofBug` | `WebServer.cpp:139` "client closed connection before response" | it is the script's pipe; the `Request` is freed, the socket and its timer stay |
| `ClosePipesBug` | `CgiData.hpp:15-16`, the pipes of this request | numbers kept after `close` belong to another client's socket by then |
| `SplitHeaderBug` | `RequestParser.cpp:303` "the start of body" | an offset into all bytes is used in the last piece |
| `ListingBug` | `RequestParserURLpath.cpp:473` "405 ... will be returned" | a listing replaces the 405 by 200 |
| `OrderBug` | `standard_complete.conf:42-43`, pages are searched "inside the directory $server.$root_directory/error_pages" | below the root at that line, not the one the block has in the end |

Other places where the code does not do what the repository says, without a run of their own:

* `ConfigFileParser.cpp:162-164`: the block's index file "applies to all locations" of it. A location
  copies it at its own line (124), so that one further down does not reach it. This is the other half
  of `SettingsInAnyOrder`, `IndexForAllLocations`.
* `standard_complete.conf:71`: the default root of a location is `$server.$root_directory.$uri_path`. The
  server's root is taken as it is at the location's line, not as it is in the end.
* `ResponseData.cpp:67-69`: for an image header and body are created and "ready to be sent". If the file
  cannot be opened any more nothing is, and the client is closed without a byte; `NoEmptyAnswer` and
  `AnsweredBeforeDeleted` say that this is the only such case.
* `standard_complete.conf:41`: the status of a page is in "the name of the file (or part of it)". The digits are
  searched in the whole path: below a root directory with 403 in its name the first page of the
  list that is there is sent for every 403. `RightPage` says what is left.
* `standard_complete.conf:36`: `client_max_body_size` is the "max size (in bytes) for the request's body". The
  last piece is not counted before it is accepted; `BodyBounded` says how far beyond the limit
  a body may be.
* `standard_complete.conf:37`: "Max: INT_MAX". The size is cut to an unsigned int first: a larger value that wraps below
  the maximum is accepted.
* `standard_complete.conf:3`: the server responds only to requests for the `server_name` provided. A request
  with another name is given the first block of its address, as line 6 of the same file says of the
  default server; `RightServer` follows line 6.

Other behaviour met while modelling, kept in the model as it is: a client that
closes while its CGI request is still being received takes the branch meant for
the script's pipe; a failed write to the script, before or after the timer of the same batch, leads to two responses in
`_fullResponse` (both errors: `ErrorsWin`); an image the server may not write to is
never sent, because `setImage` opens it for both; a client whose header came in pieces may get a 408 although
it has sent everything (`SplitHeaderBug` is why); a DELETE on a CGI location, and a CGI
request whose pipes could not be opened, are answered by the timer only;
`createResponse` may refuse with 405 because of an uninitialised flag; the code
names `500InternarServerError.html`, which is not in `_server_default_status`.
A SIGINT that arrives while a handler runs is lost, since the handler's `signalCall` is not
the loop's; had they been one variable, every closed connection would close the listening
sockets (the mutant `SignalEverywhere`). A `Request` can be deleted twice: an `EV_EOF` on a
script's pipe deletes it (`WriteEofBug`) and leaves the client's timer, whose event adds WRITE with
the freed pointer (`handleTimeout`), and the event of that filter ends in `closeClient`
again. A header line `Host:`, `Accept:`, `Cookie:`, `Content-Type:` or `Content-Length:` without a
value is read past its end. Port 65535 is refused; port 0 gives each spelling of a host a port of its own;
a location without `allow_methods` allows none, whatever `ServerLocation.cpp:150` calls
its default; a `#` behind a value drops the line; a file that ends inside a block loses the
block; a file of comments gives a server that listens nowhere; a `Content-Length` that is no number
ends the program for everybody.

### Fairness

Only `EventuallyClosed` needs it, and it is checked for one connection. For two it is false, in
the model and in the code: let a script's input pipe be closed, its number stay in `_fd_in[0]`
of the first request and be handed out as the second client's socket; the first one's timer
runs `closePipes`, which closes that socket, and with it its filters; the second one's timer
then fails the test of `fcntl` (`WebServer.cpp:185`), adds no filter, and its `Request`
stays for ever. The first step of this is `ClosePipesBug`. `WF_vars(RunServer)`: the thread keeps running,
it has no lock to wait for and no handler blocks. The three strong fairness
conditions are about what is outside the program: an armed timer expires in the
end, a socket whose client is there gets room, and the client takes the whole
response. They are strong because `kevent` may report other events first and a
send may be partial any number of times. Without the last one the connection of a
client that never reads stays for ever: the timer only adds a WRITE filter. No
fairness is assumed of scripts; the timer does without.

## 4. What TLAPS proves

For any number of connections, descriptors and events per batch:

* `TypeCorrect` – `TypeOK` of `WebServer`, for every configuration, CGI and faults
  included. It rests on typing lemmas for the operators of `Kernel` and for each
  helper (`CreatePipesType`, `CloseClientType`, `AddWriteOrCleanType`, ...), then one
  lemma per handler. It says in particular that no filter or event ever names a
  descriptor outside the table.
* `StaticCorrect`, with `StaleEvents`, `SocketsOwned`, `FiltersOwned`, `ConnectionsWatched`,
  `ReadingEnds` and `OwnResponses` as corollaries, and `ClientsAnswered`, which says of the step that deletes
  a `Request` that it sends the end of the response, or finds the image gone – under `Plain`, that is, no location is a CGI and
  the calls that set up a connection do not fail. The invariants of the loop are
  not inductive one by one: that an event of the batch still names its own
  descriptor needs that there is at most one event besides the timer's per
  connection, that its filter was armed and only its own handler removes it, that
  a closed client stays closed, and that every socket has one owner. `StaticInv`
  is their conjunction with these facts (`PlainRequests`, `EventsStillTrue`). The proof
  says first what every handler is (`HandleEffect`): it closes the connection of its
  event or keeps it, and in both cases what it may change is written down once
  (`Closes`, `Stays`); `ClosesKeepsInv` and `StaysKeepsInv` do the rest.
* `NobodyWaitsForNothing` – under `Plain` and for a finite `Conn`, from `StaticInv`: `accept` runs
  out of numbers only if every descriptor has a live owner of its own, and then who waits
  would be one client too many (`NumberForEveryone`, an injection from `Fd`).
* `ScriptsStopped` and `PipesRemembered` – for every configuration, CGI and faults
  included. The first needs that nobody who has not been accepted has a `Request` or a
  script (`ScriptsOwned`); the second that only a complete request has pipes
  (`PipesOwned`), so that `createPipes` never overwrites a number that is still open. Both
  hold although `closePipes` closes remembered numbers that may be someone else's by then.
* `AnswersDeserved` – for every configuration; where the calls that set up a connection may
  fail, `newClient`'s own 500 (`Refused`) is the exception. At an end of file met while a CGI request is still
  being received, the branch for pipes goes on to ask for room to write; that this never
  succeeds is because it has just closed the same descriptor, since such a request can have
  READ filters and events of its own socket only (`ReasonsGiven`).
* `OutputBeforeAnswer`, `NothingReadWhenDone` and `NothingLeftBehind` – for every configuration, CGI
  and faults included. With CGI a number that was closed and used again may be anyone's,
  so `FlowInv` says what a complete request still waits for: it reads from `pipe["out0"]`
  only, its socket has none of its pipes' numbers, and while its output pipe is open it waits for
  room to write on `pipe["in1"]` only (but for `newClient`'s 500). This needs that `kevent` reports each filter
  once a batch (`OneEventEach`), for a second READ event collected before the last bytes
  of a request were read would outlive its filter. `NothingLeftBehind` says that no such event
  exists; it is why `Received`, the guard of the actions that parse, may ask for a request that is not complete
  without leaving anything out.
* `LoopImplementsConnections` – under `Plain`, `Spec => ConnectionSpec`. It uses the same
  two effects: `Closes` is `Answer`, `Vanish` or, if the client has hung up, `Drop`; `Stays` is `Complete`,
  `Settle` or a stutter. That a WRITE event of a live `Request` is never older than its WRITE filter
  (part of `EventsStillTrue`) is what makes an answer come after `Complete`.

For any buffer size, limit, header and declared length and any cut of the bytes:

* `ReaderCorrect`, with `BodyComplete`, `AnsweredInTime`, `BodyLimited` and `RejectionDeserved`. `ReaderInv`
  says that the bytes counted are those received after the header, less what came
  early, and that the body is the segment of the stream counted. `RejectionDeserved` includes the
  time-out for headers that came in one piece; for others it would be false.
* `ReadingAbstracted` – each `recv` is a step the event loop's `Parsed` allows for, from the
  part of `ReaderInv` that says a request that is being read is neither complete nor rejected.

For any set of configuration files, of headers, and whatever is on the disk and `getaddrinfo`
returns:

* `TypesHold`, `NoListenerCloses`, `OneSocketAnAddress` and
  `BlockByAddress`, which is `RightServer` in terms of the blocks that were read, whatever the
  file. The invariant (`ProgramInv`) says that nobody sets the flags the loop and the destructors test;
  that each open socket is the one of the block that opened it and `socket[socket[i]] =
  socket[i]`; that blocks with one socket have the same text and blocks with the same
  address (but port 0) the same socket; and that every connection came in by an open one. The
  block `checkExistingSocket` finds has the same text as the one it is for, itself included
  (`ExistingHasSameText`), which is why its missing `i++` does no harm; `bind` does the rest for
  hosts spelled differently.

* `BlocksAsWritten`, for every tidy file in order, and `ServerAsWritten`, for every tidy file, of any
  length. What a file means (`Blocks`) looks at the file as a
  whole; what the three loops have is only what they have read. The invariant (`ReadSoFar`)
  therefore says it of the lines so far, for every tidy file and with each setting as it is at its line: the depth of the braces is that of the loop; the
  block in progress is `ServerUpTo` the line, and the location in it `LocationUpTo`; all lines
  since its brace are `Inside` it, so that the closing one is the end `Blocks` looks for; and
  the finished blocks are those that began before (`BlocksUpTo`), the n-th of them found by
  counting. One lemma per setter says what one more line changes (`ServerSet`,
  `LocationSet`); `TidyLines` decides which of the actions a line allows at each depth, so
  that the file cannot end inside a block. The loops thus make `BlocksInLineOrder` of a file;
  `OrderMakesNoDifference` shows that for a file in order this is `Blocks`: where all lines a setting
  depends on are above it, what the block has at that line is what it has in the end
  (`ServerInOrder`, `LocationInOrder`). `RightServer` follows with `BlockByAddress`, in any
  order, because name, port and host depend on no other line.

For any set of servers, of requests, of configured pages and of missing ones:

* `ExchangeCorrect`, with `ExchangeTyped`, `NotServedUnlessAllowed` and `ErrorsFinal`. Neither of the last two is
  inductive: that content goes out for an allowed method only needs that, until the
  response is created, a status of 200 stands for a method the block lists; that an
  error is answered with an error needs that every status but 200 and a redirection's
  is one `setResponseStatus` has a page for. `ExchangeInv` adds both, and when a response
  may already have been appended. `VerdictsAllowed` shows the first fact of routing,
  `ContentOfOk` and `ErrorOfError` say what `createResponse` makes of such a status.
* `AnswersHaveBodies` and `PagesFit`, from `ResponsesFit`: what `createResponse` returns has
  a body or a reason for none and a page with the digits of its own status in its path, for any
  `Request`; and no response at all is left only by a vanished image.
* `RoutingAbstracted` and `ResponsesAbstracted` – routing, the body, the timer and
  `createResponse` stay within what the event loop's model allows for. The first needs that
  nothing is complete before it has been read (`Unread`), for the loop lets the end of the
  body and an error come in one step only together with the header's end; the second that an image,
  the one response that replaces what was there, is never a script's (`ImageOfOk`).

The proofs assume the `ASSUME`s of the modules and nothing else. With CGI the
hypothesis `Plain` cannot be dropped: the three violation runs of the event loop
are counterexamples to parts of `StaticInv`. Of the properties of the passing runs only
`EventuallyClosed` is model-checked without a theorem: for more than one connection it does not
hold (see Fairness), and for one, liveness under fairness is outside
what the prover does here. Files that are not tidy are left to the runs: what
`Program` says of them (types, sockets) is proved as well, but no text says what
they should mean.

## 5. Not modelled

* The text of headers, pages and listings, the environment of a script, logging.
* The characters of the configuration's values: which of them a setter refuses is
  `Malformed`. Paths that begin with `.` or `/`, leading zeros of ports (`08080` and `8080`
  are different text; `bind` then refuses the second) and the list in one `error_page`
  line are left out.
* A header's cookies, content types and `multipart` form data.
* What a SIGINT does while a call of the kernel is being made in a handler.
* Pages and scripts under `resources`.

## 6. Plan

1. Event loop, kernel, static proofs – done.
2. Request reader with proofs – done.
3. Routing and exchange, all its properties as theorems – done.
4. `Connections` and the refinement, checked and proved – done.
5. Configuration, virtual servers, start and shutdown with proofs – done.
6. `NoOrphanScript`, `NoPipeLeak`, `NoEarlyAnswer` for every configuration, `NobodyForgotten`
   under `Plain`, and the block of a request, as theorems – done.
7. `AnswerAfterOutput`, `NotReadWhenDone` and `NothingLeftToRead` with CGI and with failing
   calls, as theorems – done.
8. `BlocksRead` and the rest of `RightServer` as theorems – done.
9. What the event loop assumes of parsing and of responses, checked and proved of the modules
   that have the detail – done.
10. Vanished images from `createResponse` to the client's view, the choice among configured
    pages, and the meaning of a configuration file in any order – done.
