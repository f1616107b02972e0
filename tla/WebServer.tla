------------------------------ MODULE WebServer ------------------------------
(***************************************************************************)
(* The event loop of 42.webserv (srcs/WebServer.cpp, srcs/CgiData.cpp and  *)
(* Request::runExecve): one thread that takes a batch of events from       *)
(* kevent() and handles them one after the other, while clients and CGI    *)
(* scripts act in between.                                                 *)
(*                                                                         *)
(* A request's bytes are abstracted to what the loop tests (RequestState): *)
(* headerDone, done, isCgi and the class of _httpStatus, where "OK" stands *)
(* for NO_STATUS and OK and "ERROR" for every other status the parser or   *)
(* createResponse sets.                                                    *)
(***************************************************************************)
EXTENDS Kernel, RequestState

CONSTANTS MaxEvents,     \* MAX_EVENTS: the length of evList
          KernelMayFail  \* TRUE iff EV_ADD on an open descriptor, fcntl or fork may fail

ASSUME MaxEventsAssumption == MaxEvents \in Nat \ {0}
ASSUME KernelMayFailAssumption == KernelMayFail \in BOOLEAN

VARIABLES
    kernel,     \* descriptor table and kqueue filters, see Kernel
    req,        \* the Request object of each connection
    batch,      \* the events of evList still to be handled
    accepting,  \* newClient is between two calls of accept
    lready,     \* the EV_CLEAR filter of the listening socket has an edge to report
    proc,       \* the server process
    peer,       \* each client's end of its connection
    rx,         \* the client's socket has bytes the server has not read
    child,      \* the CGI script of each connection
    output,     \* the script's stdout pipe has bytes the server has not read
    inbox       \* what was sent to this client completely: pairs of the connection
                \* it was meant for and the number of responses it consisted of

vars == <<kernel, req, batch, accepting, lready, proc, peer, rx, child, output, inbox>>

Status == {"OK", "ERROR", "REQUEST_TIMEOUT", "GATEWAY_TIMEOUT"}

Request == [life : {"unborn", "live", "freed"}, fd : Fd \cup {NoFd},
            pipe : [PipeEnd -> Fd \cup {NoFd}],
            isCgi : BOOLEAN, headerDone : BOOLEAN, done : BOOLEAN,
            status : Status, responseDone : BOOLEAN, responses : Nat]

NoPipes == [p \in PipeEnd |-> NoFd]

(* The constructor; responses counts what createResponse has appended to   *)
(* _fullResponse.                                                          *)
NewRequest(f) ==
    [life |-> "live", fd |-> f, pipe |-> NoPipes,
     isCgi |-> FALSE, headerDone |-> FALSE, done |-> FALSE,
     status |-> "OK", responseDone |-> FALSE, responses |-> 0]

Unborn == [NewRequest(NoFd) EXCEPT !.life = "unborn"]
Freed  == [NewRequest(NoFd) EXCEPT !.life = "freed"]

Event == [ident : Fd, filter : Filter, eof : BOOLEAN, udata : Conn]

ListenReady == [ident |-> ListenFd, filter |-> "READ", eof |-> FALSE, udata |-> NoConn]

Init ==
    /\ kernel = EmptyKernel
    /\ req = [c \in Conn |-> Unborn]
    /\ batch = {}
    /\ accepting = FALSE
    /\ lready = FALSE
    /\ proc = "running"
    /\ peer = [c \in Conn |-> "away"]
    /\ rx = [c \in Conn |-> FALSE]
    /\ child = [c \in Conn |-> "none"]
    /\ output = [c \in Conn |-> FALSE]
    /\ inbox = [c \in Conn |-> {}]

-----------------------------------------------------------------------------
(* What the descriptors say to read, write and kevent.                      *)

Desc(f) == kernel.desc[f]
Scripting(c) == child[c] \in {"running", "signalled"}
HoldsEnd(end, c) == \E f \in Fd : Desc(f) = Pipe(end, c)
HoldsSocket(c) == \E f \in Fd : Desc(f) = Sock(c)

(* Nobody holds the other end: the script is gone and so is the parent's   *)
(* copy, which runExecve closes only after a successful fork.              *)
NoWriter(c) == ~Scripting(c) /\ ~HoldsEnd("out1", c)
NoReader(c) == ~Scripting(c) /\ ~HoldsEnd("in0", c)

HasData(f) == \/ Desc(f).role = "sock" /\ rx[Desc(f).conn]
              \/ Desc(f).role = "out0" /\ output[Desc(f).conn]

(* EV_EOF. A READ filter of a socket reports the client's FIN; a WRITE     *)
(* filter only a connection that was reset.                                *)
Eof(f, t) ==
    LET c == Desc(f).conn
    IN  \/ Desc(f).role = "sock" /\ t = "READ"  /\ peer[c] \in {"closed", "reset"}
        \/ Desc(f).role = "sock" /\ t = "WRITE" /\ peer[c] = "reset"
        \/ Desc(f).role = "out0" /\ t = "READ"  /\ NoWriter(c)
        \/ Desc(f).role = "in1"  /\ t = "WRITE" /\ NoReader(c)

(* read and recv: what comes back from a descriptor, also one that has     *)
(* been closed or reused since the event was collected.                    *)
ReadSucceeds(f) == IsOpen(kernel, f) /\ HasData(f)
ReadReturnsZero(f) == IsOpen(kernel, f) /\ ~HasData(f) /\ Eof(f, "READ")
ReadFails(f) == \/ ~IsOpen(kernel, f)
                \/ ~HasData(f) /\ ~Eof(f, "READ")
                \/ Desc(f).role = "sock" /\ peer[Desc(f).conn] = "reset"

(* write and send. A write end nobody reads, and a connection that was     *)
(* reset, raise SIGPIPE, which the program neither handles nor ignores.    *)
WriteAccepted(f) == IsOpen(kernel, f) /\ Desc(f).role \notin {"in0", "out0"} /\ ~Eof(f, "WRITE")
WriteRaises(f) == IsOpen(kernel, f) /\ Eof(f, "WRITE")
WriteFails(f) == \/ ~IsOpen(kernel, f)
                 \/ Desc(f).role \in {"in0", "out0"}
                 \/ Desc(f).role = "sock" /\ Eof(f, "WRITE")

(* The last bytes meant for c, n responses in all, are written to f.       *)
Deliver(f, c, n) ==
    IF Desc(f).role = "sock" /\ peer[Desc(f).conn] = "open"
    THEN inbox' = [inbox EXCEPT ![Desc(f).conn] = @ \cup {<<c, n>>}]
    ELSE UNCHANGED inbox

-----------------------------------------------------------------------------
(* Clients and scripts, as far as the server can notice: what a client does*)
(* with a connection the server has closed, bytes that arrive when nothing *)
(* will read them any more, and a script none of whose pipes the server    *)
(* holds, change nothing.                                                  *)

World == <<kernel, req, batch, accepting, proc>>

Connect(c) ==
    /\ peer[c] = "away"
    /\ peer' = [peer EXCEPT ![c] = "queued"]
    /\ lready' = TRUE
    /\ UNCHANGED <<World, rx, child, output, inbox>>

Send(c) ==
    /\ peer[c] \in {"queued", "open"} /\ ~rx[c]
    /\ peer[c] = "open" =>
          \E f \in Fd : Desc(f) = Sock(c) /\ kernel.knote[<<f, "READ">>] = c
    /\ rx' = [rx EXCEPT ![c] = TRUE]
    /\ UNCHANGED <<World, lready, peer, child, output, inbox>>

Disconnect(c) ==
    /\ HoldsSocket(c)
    /\ \/ peer[c] = "open" /\ peer' = [peer EXCEPT ![c] = "closed"]
       \/ peer[c] \in {"open", "closed"} /\ peer' = [peer EXCEPT ![c] = "reset"]
    /\ UNCHANGED <<World, lready, rx, child, output, inbox>>

ChildOutput(c) ==
    /\ Scripting(c) /\ ~output[c]
    /\ HoldsEnd("out0", c)
    /\ output' = [output EXCEPT ![c] = TRUE]
    /\ UNCHANGED <<World, lready, peer, rx, child, inbox>>

ChildExit(c) ==
    /\ Scripting(c)
    /\ HoldsEnd("out0", c) \/ HoldsEnd("in1", c)
    /\ child' = [child EXCEPT ![c] = "exited"]
    /\ UNCHANGED <<World, lready, peer, rx, output, inbox>>

Environment ==
    /\ proc = "running"
    /\ \E c \in Conn : Connect(c) \/ Send(c) \/ Disconnect(c) \/ ChildOutput(c) \/ ChildExit(c)

-----------------------------------------------------------------------------
(* kevent                                                                   *)

KeventVars == <<kernel, req, accepting, peer, rx, child, output, inbox>>

Reported(k) ==
    [ident |-> k[1], filter |-> k[2], eof |-> Eof(k[1], k[2]), udata |-> kernel.knote[k]]

(* What kevent must report unless evList is full: a descriptor with bytes  *)
(* to read or at its end. Whether a timer has expired or a buffer has room *)
(* is not known.                                                           *)
Pending == {k \in Registered(kernel) :
               k[2] # "TIMER" /\ (Eof(k[1], k[2]) \/ (k[2] = "READ" /\ HasData(k[1])))}
Possible == {k \in Registered(kernel) : k[2] # "READ"} \cup Pending

AcceptQueue == {c \in Conn : peer[c] = "queued"}
ListenPending == IF lready /\ AcceptQueue # {} THEN {ListenReady} ELSE {}

(* The call takes the whole batch at once; whatever happens to a           *)
(* descriptor or a Request after that is not seen by the events already    *)
(* taken.                                                                  *)
Kevent ==
    /\ proc = "running" /\ batch = {} /\ ~accepting
    /\ \E S \in SUBSET Possible, L \in SUBSET ListenPending :
          /\ batch' = {Reported(k) : k \in S} \cup L
          /\ batch' # {}
          /\ Cardinality(S) + Cardinality(L) <= MaxEvents
          /\ \/ Pending \subseteq S /\ L = ListenPending
             \/ Cardinality(S) + Cardinality(L) = MaxEvents
          /\ lready' = (lready /\ L = {})
    /\ UNCHANGED <<KeventVars, proc>>

(* SIGINT while the loop waits: kevent returns -1 and exitProgram exits.   *)
Interrupted ==
    /\ proc = "running" /\ batch = {} /\ ~accepting
    /\ proc' = "exited"
    /\ UNCHANGED <<KeventVars, batch, lready>>

-----------------------------------------------------------------------------
(* newClient, one call of accept at a time                                  *)

AcceptVars == <<batch, rx, child, output, inbox>>

ListenEvent ==
    /\ proc = "running" /\ ~accepting
    /\ ListenReady \in batch
    /\ batch' = batch \ {ListenReady}
    /\ accepting' = TRUE
    /\ UNCHANGED <<kernel, req, lready, proc, peer, rx, child, output, inbox>>

Accept(c, f) ==
    /\ proc = "running" /\ accepting
    /\ c \in AcceptQueue
    /\ f \in Lowest(Unused(kernel), 1)
    /\ peer' = [peer EXCEPT ![c] = "open"]

(* Mutant of AcceptOne: one connection per event of the listening socket.  *)
AcceptOnlyOne(c) ==
    \E f \in Fd :
       /\ Accept(c, f)
       /\ kernel' = Add(Add(Open(kernel, f, Sock(c)), f, "READ", c), f, "TIMER", c)
       /\ req' = [req EXCEPT ![c] = NewRequest(f)]
       /\ accepting' = FALSE
       /\ UNCHANGED <<AcceptVars, lready, proc>>

AcceptOne(c) ==
    \E f \in Fd :
       /\ Accept(c, f)
       /\ kernel' = Add(Add(Open(kernel, f, Sock(c)), f, "READ", c), f, "TIMER", c)
       /\ req' = [req EXCEPT ![c] = NewRequest(f)]
       /\ UNCHANGED <<AcceptVars, accepting, lready, proc>>

(* protectFirstFilterAdd after fcntl, the READ or the TIMER filter failed: *)
(* a prepared 500 response and a WRITE filter, or nothing at all. newClient*)
(* returns, so the rest of the queue stays until the listening socket has  *)
(* its next edge.                                                          *)
AcceptFault(c) ==
    \E f \in Fd, readAdded \in BOOLEAN :
       LET K == IF readAdded THEN Add(Open(kernel, f, Sock(c)), f, "READ", c)
                             ELSE Open(kernel, f, Sock(c))
       IN  /\ KernelMayFail
           /\ Accept(c, f)
           /\ \/ /\ kernel' = Add(K, f, "WRITE", c)
                 /\ req' = [req EXCEPT ![c] = [NewRequest(f) EXCEPT !.responses = 1]]
              \/ /\ kernel' = Close(K, {f})
                 /\ req' = [req EXCEPT ![c] = Freed]
           /\ accepting' = FALSE
           /\ UNCHANGED <<AcceptVars, lready, proc>>

(* accept returns -1: EWOULDBLOCK or EMFILE.                               *)
AcceptDone ==
    /\ proc = "running" /\ accepting
    /\ AcceptQueue = {} \/ Unused(kernel) = {}
    /\ accepting' = FALSE
    /\ UNCHANGED <<AcceptVars, kernel, req, lready, proc, peer>>

-----------------------------------------------------------------------------
(* What the handlers share                                                  *)

Live(c) == req[c].life = "live"

(* Event e reaches its handler. The order inside evList is the kernel's, so*)
(* any event of the batch may be the next.                                 *)
Handling(e, filter) ==
    /\ proc = "running" /\ ~accepting
    /\ e.filter = filter
    /\ batch' = batch \ {e}
    /\ UNCHANGED <<accepting, lready, peer>>

(* closePipes: whatever is now open under the four remembered numbers.     *)
PipeFdsButOut(c) == {req[c].pipe[p] : p \in PipeEnd \ {"out0"}}   \* mutant
PipeFds(c) == {req[c].pipe[p] : p \in PipeEnd}
KillForgotten(c) == UNCHANGED child                               \* mutant
Kill(c) == child' = [child EXCEPT ![c] = IF @ = "running" THEN "signalled" ELSE @]

DeleteMarks(c) == req' = [req EXCEPT ![c].life = "deleted"]        \* mutant
Delete(c) == req' = [req EXCEPT ![c] = Freed]

(* Mutants of CloseClient: the timer stays armed; the socket stays open.   *)
CloseClientKeepsTimer(K, e) ==
    /\ kernel' = Close(K, PipeFds(e.udata) \cup {e.ident})
    /\ Kill(e.udata)
    /\ Delete(e.udata)

CloseClientKeepsSocket(K, e) ==
    /\ kernel' = Del(Close(K, PipeFds(e.udata)), e.ident, "TIMER")
    /\ Kill(e.udata)
    /\ Delete(e.udata)

CloseClient(K, e) ==
    LET K1 == Close(K, PipeFds(e.udata))
        K2 == IF IsOpen(K1, e.ident) THEN Del(K1, e.ident, "TIMER") ELSE K1
    IN  /\ kernel' = Close(K2, {e.ident})
        /\ Kill(e.udata)
        /\ Delete(e.udata)

(* addFilter(fd, EVFILT_WRITE) for c, whose Request has become r, or       *)
(* cleanAddFilterFail(fd).                                                 *)
AddWriteOrClean(K, fd, c, r) ==
    \/ /\ IsOpen(K, fd)
       /\ kernel' = Add(K, fd, "WRITE", c)
       /\ req' = [req EXCEPT ![c] = r]
       /\ UNCHANGED child
    \/ /\ ~IsOpen(K, fd) \/ KernelMayFail
       /\ kernel' = Close(K, PipeFds(c) \cup {fd})
       /\ Kill(c)
       /\ Delete(c)

-----------------------------------------------------------------------------
(* Timers and ends of file                                                  *)

(* An event whose Request was deleted by an earlier event of the batch, or *)
(* whose filter outlived it: the handler works on freed memory.            *)
TouchFreed(e) ==
    /\ proc = "running" /\ ~accepting
    /\ req[e.udata].life = "freed"
    /\ batch' = batch \ {e}
    /\ proc' = "undefined"
    /\ UNCHANGED <<kernel, req, accepting, lready, peer, rx, child, output, inbox>>

(* Mutant of HandleTimeout: the status is set but nothing sends it.        *)
HandleTimeoutSilent(e) ==
    LET c == e.udata
        K1 == IF req[c].done THEN kernel ELSE Del(kernel, e.ident, "READ")
    IN  /\ Handling(e, "TIMER")
        /\ kernel' = Close(K1, PipeFds(c))
        /\ req' = [req EXCEPT ![c].status = "GATEWAY_TIMEOUT"]
        /\ Kill(c)
        /\ UNCHANGED <<proc, rx, output, inbox>>

(* Mutant of HandleTimeout: the connection is closed, nothing is sent.     *)
HandleTimeoutCloses(e) ==
    /\ Handling(e, "TIMER")
    /\ CloseClient(kernel, e)
    /\ UNCHANGED <<proc, rx, output, inbox>>

(* handleTimeout. When its addFilter fails, the log statement at the end   *)
(* reads the Request just deleted.                                         *)
HandleTimeout(e) ==
    LET c == e.udata
        K1 == IF req[c].done THEN kernel ELSE Del(kernel, e.ident, "READ")
        K2 == Close(K1, PipeFds(c))
        r == [req[c] EXCEPT !.status = IF req[c].done THEN "GATEWAY_TIMEOUT"
                                                      ELSE "REQUEST_TIMEOUT"]
    IN  /\ Handling(e, "TIMER")
        /\ \/ /\ IsOpen(K2, e.ident)
              /\ kernel' = Add(K2, e.ident, "WRITE", c)
              /\ req' = [req EXCEPT ![c] = r]
              /\ UNCHANGED proc
           \/ /\ ~IsOpen(K2, e.ident)
              /\ kernel' = K2
              /\ req' = [req EXCEPT ![c] = r]
              /\ UNCHANGED proc
           \/ /\ IsOpen(K2, e.ident) /\ KernelMayFail
              /\ kernel' = Close(K2, {e.ident})
              /\ Delete(c)
              /\ proc' \in {"running", "undefined"}
        /\ Kill(c)
        /\ UNCHANGED <<rx, output, inbox>>

(* READ with EV_EOF. The branch is chosen by isCgi alone, so it is taken   *)
(* for the client's socket too while a CGI request is still being received.*)
PipeEof(e) ==
    /\ Handling(e, "READ")
    /\ e.eof /\ req[e.udata].isCgi
    /\ AddWriteOrClean(Close(Del(kernel, e.ident, "READ"), {e.ident}),
                       req[e.udata].fd, e.udata, req[e.udata])
    /\ UNCHANGED <<proc, rx, output, inbox>>

ClientEof(e) ==
    /\ Handling(e, "READ")
    /\ e.eof /\ ~req[e.udata].isCgi
    /\ CloseClient(Del(kernel, e.ident, "READ"), e)
    /\ UNCHANGED <<proc, rx, output, inbox>>

WriteEof(e) ==
    /\ Handling(e, "WRITE")
    /\ e.eof
    /\ CloseClient(Del(kernel, e.ident, "WRITE"), e)
    /\ UNCHANGED <<proc, rx, output, inbox>>

-----------------------------------------------------------------------------
(* readRequest                                                              *)

ReadEvent(e) == Handling(e, "READ") /\ ~e.eof
OnPipeOut(e) == e.ident = req[e.udata].pipe["out0"]
OnClient(e) == ~OnPipeOut(e) /\ e.ident = req[e.udata].fd

(* The bytes are taken from whatever the number refers to now.             *)
Drain(f) ==
    LET c == Desc(f).conn
    IN  IF Desc(f).role = "sock"
        THEN rx' = [rx EXCEPT ![c] = FALSE] /\ UNCHANGED output
        ELSE output' = [output EXCEPT ![c] = FALSE] /\ UNCHANGED rx

(* Mutant of ReadPipe: the first bytes of the script are answered at once. *)
ReadPipeAnswers(e) ==
    /\ ReadEvent(e) /\ OnPipeOut(e)
    /\ ReadSucceeds(e.ident) /\ Drain(e.ident)
    /\ AddWriteOrClean(kernel, req[e.udata].fd, e.udata, req[e.udata])
    /\ UNCHANGED <<proc, inbox>>

ReadPipe(e) ==
    /\ ReadEvent(e) /\ OnPipeOut(e)
    /\ \/ ReadSucceeds(e.ident) /\ Drain(e.ident)
       \/ ReadReturnsZero(e.ident) /\ UNCHANGED <<rx, output>>
    /\ UNCHANGED <<kernel, req, child, proc, inbox>>

ReadPipeFailed(e) ==
    /\ ReadEvent(e) /\ OnPipeOut(e)
    /\ ReadFails(e.ident)
    /\ AddWriteOrClean(Del(kernel, e.ident, "READ"), req[e.udata].fd, e.udata,
                       [req[e.udata] EXCEPT !.status = "ERROR"])
    /\ UNCHANGED <<proc, rx, output, inbox>>

RecvFailed(e) ==
    /\ ReadEvent(e) /\ OnClient(e)
    /\ ReadFails(e.ident) \/ ReadReturnsZero(e.ident)
    /\ CloseClient(Del(Del(kernel, e.ident, "READ"), e.ident, "TIMER"), e)
    /\ UNCHANGED <<proc, rx, output, inbox>>

(* recv returned bytes and appendToRequest made r of the Request. Once done*)
(* is set the READ filter is gone, so done is still FALSE here.            *)
Received(e, r) ==
    /\ ReadEvent(e) /\ OnClient(e)
    /\ ReadSucceeds(e.ident) /\ Drain(e.ident)
    /\ ~req[e.udata].done
    /\ r \in Parsed(req[e.udata])
    /\ UNCHANGED <<proc, inbox>>

ReceiveMore(e) ==
    \E r \in Parsed(req[e.udata]) :
       /\ Received(e, r)
       /\ ~Answerable(r) /\ ~r.done
       /\ req' = [req EXCEPT ![e.udata] = r]
       /\ UNCHANGED <<kernel, child>>

(* parseHeader throws, if a Content-Length is no number, and nobody but    *)
(* main catches; or it reads behind a line that ends at its key.           *)
HeaderBreaks(e) ==
    /\ ReadEvent(e) /\ OnClient(e)
    /\ ReadSucceeds(e.ident) /\ Drain(e.ident)
    /\ ~req[e.udata].done /\ ~req[e.udata].headerDone
    /\ proc' \in {"exited", "undefined"}
    /\ UNCHANGED <<kernel, req, child, inbox>>

(* Mutant of ReceiveLast: the READ filter stays.                           *)
ReceiveLastKeepsRead(e) ==
    \E r \in Parsed(req[e.udata]) :
       /\ Received(e, r)
       /\ Answerable(r)
       /\ AddWriteOrClean(kernel, e.ident, e.udata, r)

ReceiveLast(e) ==
    \E r \in Parsed(req[e.udata]) :
       /\ Received(e, r)
       /\ Answerable(r)
       /\ AddWriteOrClean(Del(kernel, e.ident, "READ"), e.ident, e.udata, r)

(* A DELETE only removes the file: no filter is added, no script started.  *)
StartDelete(e) ==
    \E r \in Parsed(req[e.udata]) :
       /\ Received(e, r) /\ StartsCgi(r)
       /\ kernel' = Del(kernel, e.ident, "READ")
       /\ req' = [req EXCEPT ![e.udata] = r]
       /\ UNCHANGED child

(* createPipes: the pipes that could be opened and the filters that could *)
(* be added, ok iff both filters were. What was done before a failure      *)
(* stays done.                                                             *)
CreatePipes(K, c) ==
    LET in == NewPipe(K)
        KI == Open(Open(K, in[1], Pipe("in0", c)), in[2], Pipe("in1", c))
        out == NewPipe(KI)
        KO == Open(Open(KI, out[1], Pipe("out0", c)), out[2], Pipe("out1", c))
        KW == Add(KO, in[2], "WRITE", c)
        Outcome(possible, K2, ok) ==
            IF possible THEN {[kernel |-> K2, in |-> in, out |-> out, ok |-> ok]} ELSE {}
    IN       Outcome(IsOpen(KO, in[2]) /\ IsOpen(KO, out[1]), Add(KW, out[1], "READ", c), TRUE)
        \cup Outcome(~IsOpen(KO, in[2]) \/ KernelMayFail, KO, FALSE)
        \cup Outcome(IsOpen(KO, in[2]) /\ (~IsOpen(KO, out[1]) \/ KernelMayFail), KW, FALSE)

WithPipes(r, o) ==
    [r EXCEPT !.pipe = [in0 |-> o.in[1], in1 |-> o.in[2], out0 |-> o.out[1], out1 |-> o.out[2]]]

(* runExecve without its pipes: the request becomes a 500 that no WRITE    *)
(* filter will send.                                                       *)
StartWithoutPipes(e) ==
    \E r \in Parsed(req[e.udata]) :
    /\ Received(e, r) /\ StartsCgi(r)
    /\ \E o \in CreatePipes(Del(kernel, e.ident, "READ"), e.udata) :
       /\ ~o.ok
       /\ kernel' = o.kernel
       /\ req' = [req EXCEPT ![e.udata] =
                     [WithPipes(r, o) EXCEPT !.status = "ERROR", !.isCgi = FALSE]]
       /\ UNCHANGED child

(* fork: the parent closes the script's two ends; when fork fails nothing  *)
(* is closed and nothing else is done.                                     *)
StartScript(e) ==
    \E r \in Parsed(req[e.udata]) :
    /\ Received(e, r) /\ StartsCgi(r)
    /\ \E o \in CreatePipes(Del(kernel, e.ident, "READ"), e.udata) :
       /\ o.ok
       /\ req' = [req EXCEPT ![e.udata] = WithPipes(r, o)]
       /\ \/ /\ kernel' = Close(o.kernel, {o.out[2], o.in[1]})
             /\ child' = [child EXCEPT ![e.udata] = "running"]
          \/ /\ KernelMayFail
             /\ kernel' = o.kernel
             /\ UNCHANGED child

-----------------------------------------------------------------------------
(* sendResponse                                                             *)

WriteEvent(e) == Handling(e, "WRITE") /\ ~e.eof
OnPipeIn(e) == e.ident = req[e.udata].pipe["in1"]
OnClientWrite(e) == ~OnPipeIn(e) /\ e.ident = req[e.udata].fd

(* The body goes to the script, in as many writes as the pipe makes of it. *)
WritePipePart(e) ==
    /\ WriteEvent(e) /\ OnPipeIn(e)
    /\ WriteAccepted(e.ident)
    /\ UNCHANGED <<kernel, req, child, proc, rx, output, inbox>>

WritePipeAll(e) ==
    /\ WriteEvent(e) /\ OnPipeIn(e)
    /\ WriteAccepted(e.ident)
    /\ Deliver(e.ident, e.udata, 0)
    /\ kernel' = Close(Del(kernel, e.ident, "WRITE"), {e.ident})
    /\ UNCHANGED <<req, child, proc, rx, output>>

(* The response is created here and responseDone is not set. The pipe's    *)
(* filter is removed only if the client's could be added.                  *)
WritePipeFailed(e) ==
    /\ WriteEvent(e) /\ OnPipeIn(e)
    /\ WriteFails(e.ident)
    /\ \E r \in CreateResponse([req[e.udata] EXCEPT !.status = "ERROR"]) :
          AddWriteOrClean(Del(kernel, e.ident, "WRITE"), req[e.udata].fd, e.udata, r)
    /\ UNCHANGED <<proc, rx, output, inbox>>

(* SIGPIPE is neither handled nor ignored.                                 *)
Killed(e) ==
    /\ WriteEvent(e) /\ (OnPipeIn(e) \/ OnClientWrite(e))
    /\ WriteRaises(e.ident)
    /\ proc' = "killed"
    /\ UNCHANGED <<kernel, req, child, rx, output, inbox>>

(* createResponse runs on the first WRITE event of the client, never again.*)
ResponsesEachTime(r) == CreateResponse(r)                          \* mutant
Responses(r) ==
    IF r.responseDone THEN {r}
    ELSE {[s EXCEPT !.responseDone = TRUE] : s \in CreateResponse(r)}

(* Mutant of SendPart: any number of bytes sent counts as all of them.     *)
SendPartCloses(e) ==
    /\ WriteEvent(e) /\ OnClientWrite(e)
    /\ WriteAccepted(e.ident)
    /\ CloseClient(Del(kernel, e.ident, "WRITE"), e)
    /\ UNCHANGED <<proc, rx, output, inbox>>

(* Some of the response is left to be sent: an empty one is always "all".  *)
SendPart(e) ==
    \E r \in Responses(req[e.udata]) :
       /\ WriteEvent(e) /\ OnClientWrite(e)
       /\ WriteAccepted(e.ident)
       /\ r.responses # 0
       /\ req' = [req EXCEPT ![e.udata] = r]
       /\ UNCHANGED <<kernel, child, proc, rx, output, inbox>>

(* send took as many bytes as _fullResponse has, be it none: the client of *)
(* an image that has vanished is closed with nothing sent.                 *)
SendAll(e) ==
    /\ WriteEvent(e) /\ OnClientWrite(e)
    /\ WriteAccepted(e.ident)
    /\ \E r \in Responses(req[e.udata]) :
          IF r.responses = 0 THEN UNCHANGED inbox
                             ELSE Deliver(e.ident, e.udata, r.responses)
    /\ CloseClient(Del(kernel, e.ident, "WRITE"), e)
    /\ UNCHANGED <<proc, rx, output>>

SendFailed(e) ==
    /\ WriteEvent(e) /\ OnClientWrite(e)
    /\ WriteFails(e.ident)
    /\ CloseClient(Del(kernel, e.ident, "WRITE"), e)
    /\ UNCHANGED <<proc, rx, output, inbox>>

-----------------------------------------------------------------------------
ReadRequest(e) ==
    \/ ReadPipe(e) \/ ReadPipeFailed(e) \/ RecvFailed(e)
    \/ ReceiveMore(e) \/ ReceiveLast(e) \/ HeaderBreaks(e)
    \/ StartDelete(e) \/ StartWithoutPipes(e) \/ StartScript(e)

SendResponse(e) ==
    \/ WritePipePart(e) \/ WritePipeAll(e) \/ WritePipeFailed(e)
    \/ SendPart(e) \/ SendAll(e) \/ SendFailed(e)
    \/ Killed(e)

Handle(e) ==
    \/ HandleTimeout(e)
    \/ PipeEof(e) \/ ClientEof(e) \/ WriteEof(e)
    \/ ReadRequest(e) \/ SendResponse(e)

NewClient ==
    \/ ListenEvent \/ AcceptDone
    \/ \E c \in Conn : AcceptOne(c) \/ AcceptFault(c)

RunServer ==
    \/ Kevent \/ NewClient
    \/ \E e \in batch \ {ListenReady} : TouchFreed(e) \/ (Live(e.udata) /\ Handle(e))

Next == RunServer \/ Interrupted \/ Environment

Spec == Init /\ [][Next]_vars

-----------------------------------------------------------------------------
(* The thread keeps running. Of the rest only what lies outside the program*)
(* is assumed: an armed timer expires, a client that is there makes room   *)
(* for its response, and takes all of it in the end.                       *)
KeventReports(c, filter) ==
    Kevent /\ \E e \in batch' : e.udata = c /\ e.filter = filter /\ e.ident = req[c].fd

SentToClient(c) ==
    \E e \in batch \ {ListenReady} :
       e.udata = c /\ Live(c) /\ e.ident = req[c].fd /\ (SendAll(e) \/ SendFailed(e) \/ Killed(e))

Fairness ==
    /\ WF_vars(RunServer)
    /\ \A c \in Conn :
          /\ SF_vars(KeventReports(c, "TIMER"))
          /\ SF_vars(KeventReports(c, "WRITE"))
          /\ SF_vars(SentToClient(c))

FairSpec == Spec /\ Fairness
=============================================================================
