------------------------- MODULE WebServerProperties -------------------------
(***************************************************************************)
(* What the event loop should guarantee.                                   *)
(***************************************************************************)
EXTENDS WebServer

(* Every variable keeps its type: in particular a filter and a collected   *)
(* event always name a descriptor of the table and a Request.              *)
TypeOK ==
    /\ kernel \in KernelState
    /\ req \in [Conn -> Request]
    /\ batch \in SUBSET (Event \cup {ListenReady})
    /\ accepting \in BOOLEAN
    /\ lready \in BOOLEAN
    /\ proc \in {"running", "exited", "killed", "undefined"}
    /\ peer \in [Conn -> {"away", "queued", "open", "closed", "reset"}]
    /\ rx \in [Conn -> BOOLEAN]
    /\ child \in [Conn -> {"none", "running", "signalled", "exited"}]
    /\ output \in [Conn -> BOOLEAN]
    /\ inbox \in [Conn -> SUBSET (Conn \X Nat)]

Events == batch \ {ListenReady}

(* c's own socket is watched for room to answer.                           *)
Answering(c) == Live(c) /\ kernel.knote[<<req[c].fd, "WRITE">>] = c

-----------------------------------------------------------------------------
(* A deployment whose configuration has no CGI location                     *)

(* A filter never outlives the Request its udata points to: closeClient    *)
(* runs on the client's own descriptor and removes the timer before it     *)
(* frees the Request.                                                      *)
NoDanglingFilter ==
    \A k \in Registered(kernel) :
       LET c == kernel.knote[k] IN Live(c) /\ req[c].fd = k[1]

(* Of the events runServer has collected but not handled yet, only a       *)
(* timer's may point to a Request deleted by an earlier event of the same  *)
(* batch, and those of live Requests still name their own descriptor.      *)
OnlyTimersGoStale ==
    \A e \in Events :
       IF Live(e.udata) THEN e.ident = req[e.udata].fd ELSE e.filter = "TIMER"

(* Every open descriptor is the socket of a live Request and every live    *)
(* Request has its socket: none leaks, none is closed under its owner.     *)
DescriptorsOwned ==
    /\ \A f \in Fd : IsOpen(kernel, f) =>
          \E c \in Conn : Live(c) /\ req[c].fd = f /\ Desc(f) = Sock(c)
    /\ \A c \in Conn : Live(c) => Desc(req[c].fd) = Sock(c)

(* A live connection waits either for bytes or for room to answer, never   *)
(* both and never neither, and its timer is armed.                         *)
LiveIsWatched ==
    \A c \in Conn : Live(c) =>
       LET f == req[c].fd IN
       /\ kernel.knote[<<f, "TIMER">>] = c
       /\ kernel.knote[<<f, "READ">>] = c <=> kernel.knote[<<f, "WRITE">>] # c

(* Once a request is complete nothing more is read from its client.        *)
NotReadWhenDone ==
    \A c \in Conn : (Live(c) /\ req[c].done) => kernel.knote[<<req[c].fd, "READ">>] # c

(* What a client is sent is its own response, created once however many    *)
(* WRITE events it takes to send it.                                       *)
OwnSingleResponse == \A c \in Conn : inbox[c] \subseteq {<<c, 1>>}

(* The response to c is certain to be more than nothing: it is an error, or*)
(* it has been created and a part of it sent. What an accepted request is  *)
(* answered with is not, as long as its file has not been looked for.      *)
Owed(r) == r.status # "OK" \/ r.responseDone
Serving(c) == Answering(c) /\ ~Owed(req[c])

(* A Request is deleted while its client is there only with the step that  *)
(* sends the last bytes of its response. There is one exception: a request *)
(* that was accepted and waits for its answer, whose image has vanished    *)
(* when the first WRITE event looks for it, is closed without a word. No   *)
(* timer, no rejection, no response that was begun and no connection still *)
(* being received ends like that.                                          *)
AnsweredBeforeDeleted ==
    [][\A c \in Conn :
          (Live(c) /\ req'[c].life = "freed" /\ peer[c] = "open")
             => (inbox'[c] # {} \/ Serving(c))]_vars

(* With a descriptor for everyone, no client is left in the queue of the   *)
(* listening socket, which reports one edge for several connections: while *)
(* one waits, the edge is still to come, is being handled, or newClient is *)
(* in its accept loop.                                                     *)
NobodyForgotten ==
    (AcceptQueue # {} /\ Cardinality(Conn) <= MaxFd)
       => (lready \/ ListenReady \in batch \/ accepting)

(* What makes the above inductive. A request of a deployment without CGI   *)
(* never has pipes or a script; the events collected for a connection are  *)
(* its timer's and at most one other; and what such an event reported still*)
(* holds when it is handled, because only the handler of that event may    *)
(* consume the bytes, a connection that was closed stays closed, and one   *)
(* that waits for room to answer never reads again.                        *)
PlainRequests ==
    \A c \in Conn :
       /\ child[c] = "none"
       /\ req[c].life = "unborn" <=> peer[c] \in {"away", "queued"}
       /\ Live(c) => /\ req[c].fd \in Fd
                     /\ req[c].pipe = NoPipes
                     /\ ~req[c].isCgi
                     /\ req[c].responses = IF req[c].responseDone THEN 1 ELSE 0

EventsStillTrue ==
    /\ \A e \in Events :
          LET c == e.udata IN
          /\ req[c].life # "unborn"
          /\ e.eof => peer[c] \in (IF e.filter = "READ" THEN {"closed", "reset"} ELSE {"reset"})
          /\ (e.filter = "READ" /\ ~e.eof) => rx[c]
          /\ (e.filter = "WRITE" /\ Live(c)) => Answering(c)
    /\ \A e1, e2 \in Events :
          (e1.udata = e2.udata /\ e1.filter # "TIMER" /\ e2.filter # "TIMER") => e1 = e2

StaticInv ==
    /\ PlainRequests /\ EventsStillTrue
    /\ NoDanglingFilter /\ OnlyTimersGoStale /\ DescriptorsOwned
    /\ LiveIsWatched /\ NotReadWhenDone
    /\ OwnSingleResponse

(* The stage of a connection, as its client could tell it.                 *)
StageOf(c) ==
    IF peer[c] = "away" THEN "away"
    ELSE IF peer[c] = "queued" THEN "waiting"
    ELSE IF ~Live(c) THEN "ended"
    ELSE IF Serving(c) THEN "serving"
    ELSE IF Answering(c) THEN "answering" ELSE "receiving"

Promised == INSTANCE Connections WITH
    Client <- Conn,
    stage  <- [c \in Conn |-> StageOf(c)],
    gone   <- [c \in Conn |-> peer[c] \in {"closed", "reset"}],
    sent   <- inbox

(* The event loop implements what Connections promises: whatever the order *)
(* inside a batch, a reused descriptor or a timer that fires in between,   *)
(* each client is answered at most once, at the end of its connection, and *)
(* ends without an answer only if it has hung up, or if what it asked for  *)
(* has vanished between its acceptance and the first WRITE event.          *)
ConnectionSpec == Promised!Spec

-----------------------------------------------------------------------------
(* Any deployment                                                           *)

(* Every pipe end that is open belongs to a Request that is still there and*)
(* remembers its number, so that its closePipes will close it.             *)
NoPipeLeak ==
    \A f \in Fd : Desc(f).role \in PipeEnd =>
       LET c == Desc(f).conn IN Live(c) /\ req[c].pipe[Desc(f).role] = f

(* A script is told to stop before its Request is deleted.                 *)
NoOrphanScript == \A c \in Conn : req[c].life = "freed" => child[c] # "running"

(* Once a request is complete, no event to read from its client is left in *)
(* the batch: what the client sends next is not parsed into it.            *)
NothingLeftToRead ==
    \A e \in Events : (e.filter = "READ" /\ Live(e.udata) /\ req[e.udata].done)
                         => e.ident # req[e.udata].fd

(* newClient has prepared a response itself, as a call failed: to the 500  *)
(* it asks room for, anything the client does may still happen.            *)
Refused(r) == KernelMayFail /\ r.responses > 0

(* The server answers only what is complete, rejected or timed out, or was *)
(* refused by newClient.                                                   *)
NoEarlyAnswer ==
    \A c \in Conn : Answering(c) => (req[c].done \/ req[c].status # "OK" \/ Refused(req[c]))

(* The output of a script becomes a response only after the server has met *)
(* the end of it and closed the pipe, unless newClient's 500 is going out. *)
AnswerAfterOutput ==
    \A c \in Conn : (Answering(c) /\ req[c].isCgi /\ req[c].status = "OK")
                       => (~HoldsEnd("out0", c) \/ Refused(req[c]))

(* A request that has the server to itself is closed in the end, CGI or    *)
(* not, answered or timed out: the timer leads every wait to a response.   *)
(* This is for one connection. With two it does not hold: the timer of one *)
(* runs closePipes, which may close the socket of the other by a number    *)
(* that was kept (SocketsClosedByOwner); the other's timer then finds no   *)
(* open descriptor in handleTimeout, adds no filter, and nothing follows.  *)
EventuallyClosed ==
    \A c \in Conn : Live(c) ~> (~Live(c) \/ proc # "running")

-----------------------------------------------------------------------------
(* What the repository says of the program and the program does not do.     *)

(* WebServer.cpp:118 on the branch for a pipe's EV_EOF: "this is           *)
(* specifically for ret = 0 && EV_EOF", that is, the script's output has   *)
(* been read.                                                              *)
PipeEofMeansDrained ==
    [][\A e \in Events : (Live(e.udata) /\ Desc(e.ident).role = "out0" /\ PipeEof(e))
                            => ~output[e.udata]]_vars

(* WebServer.cpp:139 on EV_EOF of a WRITE filter: "client closed connection*)
(* before response".                                                       *)
WriteEofIsTheClient ==
    [][\A e \in Events : (Live(e.udata) /\ WriteEof(e)) => e.ident = req[e.udata].fd]_vars

(* CgiData.hpp:15-16: _fd_in and _fd_out are the pipes of this request's   *)
(* script. What closePipes closes should be these pipes, so no socket of   *)
(* another client.                                                         *)
SocketsClosedByOwner ==
    [][\A c \in Conn : (Live(c) /\ Desc(req[c].fd) = Sock(c) /\ kernel'.desc[req[c].fd] = Closed)
          => \E e \in Events \ batch' : e.udata = c]_vars
=============================================================================
