------------------------------- MODULE Program -------------------------------
(***************************************************************************)
(* The program from main to its end (srcs/main.cpp, SigHandler.cpp, the    *)
(* constructor, the destructor, runServer and exitProgram of WebServer.cpp,*)
(* the destructor of ServerData.cpp): it reads the configuration, opens the*)
(* listening sockets and serves, and SIGINT may come at any time. Of what  *)
(* it serves there is one connection, and of that only what the blocks, the*)
(* signal and the end of the program have to do with; the event loop itself*)
(* is in WebServer.                                                        *)
(***************************************************************************)
EXTENDS Configuration, VirtualServers, FiniteSets

CONSTANT Headers   \* the headers the client may send

ASSUME HeadersAssumption == Headers \subseteq Seq(HeaderLine)

VARIABLES
    phase,    \* where main is
    socket,   \* _listening_socket of each block, a number for each socket()
    open,     \* the listening sockets that are open
    flag,     \* signalCall, of which every translation unit has its own
    batch,    \* the events of evList still to be handled
    conn      \* the Request of the connection

vars == <<parser, phase, socket, open, flag, batch, conn>>

(* WebServer.hpp declares signalCall static: each file that includes it has*)
(* a variable of its own. These are the ones that use it.                  *)
Unit == {"main", "SigHandler", "WebServer", "ServerData"}

(* life is "left" if the Request has been deleted by way of a pipe's ident,*)
(* with the client's timer still armed. server is the index of             *)
(* _specificServer, 0 until the header has been parsed.                    *)
Connection == [life : {"none", "live", "deleted", "left"},
               via : Nat, header : Headers \cup {<<>>}, server : Nat]

NoConnection == [life |-> "none", via |-> 0, header |-> <<>>, server |-> 0]

Init ==
    /\ ParserInit
    /\ phase = "reading"
    /\ socket = <<>>
    /\ open = {}
    /\ flag = [u \in Unit |-> FALSE]
    /\ batch = {}
    /\ conn = NoConnection

-----------------------------------------------------------------------------
(* main until runServer. An exception of the parser or of the constructor, *)
(* also if the file cannot be opened or kqueue fails, is caught by main,   *)
(* which then returns.                                                     *)

ReadFile ==
    /\ phase = "reading"
    /\ ReadConfiguration
    /\ UNCHANGED <<phase, socket, open, flag, batch, conn>>

NoConfiguration ==
    /\ phase = "reading"
    /\ context = "refused" \/ pos = 1
    /\ phase' = "ended"
    /\ UNCHANGED <<parser, socket, open, flag, batch, conn>>

FileRead ==
    /\ phase = "reading" /\ context = "read"
    /\ phase' \in {"opening", "ended"}
    /\ socket' = [i \in DOMAIN servers |-> NoSocket]
    /\ UNCHANGED <<parser, open, flag, batch, conn>>

ToOpen == {i \in DOMAIN servers : socket[i] = NoSocket}

(* The constructor's loop for its next block n: the socket of an earlier   *)
(* block, a new one (the n-th), or an exception.                           *)
OpenSocket ==
    /\ phase = "opening" /\ ToOpen # {}
    /\ LET n == First(ToOpen)
           existing == ExistingSocket(servers, socket, n)
       IN  \/ /\ existing # NoSocket
              /\ socket' = [socket EXCEPT ![n] = existing]
              /\ UNCHANGED <<phase, open>>
           \/ /\ existing = NoSocket
              /\ MayListen(servers, socket, n)
              /\ socket' = [socket EXCEPT ![n] = n]
              /\ open' = open \cup {n}
              /\ UNCHANGED phase
           \/ /\ existing = NoSocket
              /\ phase' = "ended"
              /\ UNCHANGED <<socket, open>>
    /\ UNCHANGED <<parser, flag, batch, conn>>

RunServer ==
    /\ phase = "opening" /\ ToOpen = {}
    /\ phase' = "waiting"
    /\ UNCHANGED <<parser, socket, open, flag, batch, conn>>

-----------------------------------------------------------------------------
(* SIGINT. endSignal sets the variable of its own unit; the call of kevent *)
(* it interrupts returns -1, and exitProgram exits. Anywhere else nothing  *)
(* has changed that the loop would look at.                                *)

SignalEverywhere == flag' = [u \in Unit |-> TRUE]                   \* mutant
EndSignal == flag' = [flag EXCEPT !["SigHandler"] = TRUE]

Signal ==
    /\ phase \in {"reading", "opening", "waiting", "handling"}
    /\ EndSignal
    /\ phase' = IF phase = "waiting" THEN "ended" ELSE phase
    /\ UNCHANGED <<parser, socket, open, batch, conn>>

-----------------------------------------------------------------------------
(* runServer                                                                *)

(* ~ServerData, run for each copy of the blocks a Request held, and for the*)
(* copies its constructor was given.                                       *)
DestroyBlocks ==
    open' = IF flag["ServerData"] THEN open \ {socket[i] : i \in DOMAIN socket} ELSE open

(* exitProgram deletes what the udata of each event points to; that is     *)
(* undefined for the second event of a Request and for a deleted one.      *)
ExitProgram(events) ==
    /\ phase' = IF Cardinality(events) > (IF conn.life = "live" THEN 1 ELSE 0)
                THEN "undefined" ELSE "ended"
    /\ conn' = IF events = {} THEN conn ELSE [conn EXCEPT !.life = "deleted"]
    /\ UNCHANGED <<open, batch>>

(* What may be reported: the listening sockets; for a connection that is   *)
(* there bytes or its end, the timer, and once its block is known the pipe *)
(* to its script; for a Request that is gone the timer if it was left.     *)
Armed(filter) ==
    \/ conn.life = "live" /\ (filter = "PIPE" => conn.server # 0)
    \/ conn.life = "left" /\ filter = "TIMER"

Possible == ({"LISTEN"} \X open) \cup ({f \in {"READ", "TIMER", "PIPE"} : Armed(f)} \X {0})

Kevent ==
    /\ phase = "waiting"
    /\ \E events \in SUBSET Possible \ {{}} :
       IF flag["WebServer"]
       THEN ExitProgram({e \in events : e[1] # "LISTEN"})
       ELSE /\ phase' = "handling"
            /\ batch' = events
            /\ UNCHANGED <<open, conn>>
    /\ UNCHANGED <<parser, socket, flag>>

NextEvent(e) ==
    /\ phase = "handling" /\ e \in batch
    /\ batch' = batch \ {e}
    /\ UNCHANGED <<parser, socket, flag>>

BatchDone ==
    /\ phase = "handling" /\ batch = {}
    /\ phase' = "waiting"
    /\ UNCHANGED <<parser, socket, open, flag, batch, conn>>

(* newClient, for this client or for others.                               *)
NewClient(e) ==
    /\ NextEvent(e) /\ e[1] = "LISTEN"
    /\ DestroyBlocks
    /\ \/ /\ conn.life = "none"
          /\ \E h \in Headers :
                conn' = [NoConnection EXCEPT !.life = "live", !.via = e[2], !.header = h]
       \/ UNCHANGED conn
    /\ UNCHANGED phase

(* parseHeaderAndPath, once: the block is chosen, or an exception leaves   *)
(* runServer. Then ~WebServer closes every listening socket.               *)
ParseHeader(e) ==
    /\ NextEvent(e) /\ e[1] = "READ"
    /\ conn.life = "live" /\ conn.server = 0
    /\ \/ /\ Unread(conn.header) = {}
          /\ conn' = [conn EXCEPT !.server =
                         SpecificServer(servers, socket, conn.via, HostName(conn.header))]
          /\ UNCHANGED <<phase, open>>
       \/ /\ HeaderThrows(conn.header)
          /\ phase' = "ended"
          /\ open' = {}
          /\ UNCHANGED conn
       \/ /\ HeaderUndefined(conn.header)
          /\ phase' = "undefined"
          /\ UNCHANGED <<open, conn>>

(* Any other handler: the connection stays, or closeClient deletes it. At  *)
(* the end of the pipe it looks for a timer of the pipe's number, which it *)
(* has closed by then: the client's timer stays.                           *)
StayOrClose(e) ==
    /\ NextEvent(e) /\ e[1] # "LISTEN"
    /\ conn.life = "live"
    /\ \/ UNCHANGED <<open, conn>>
       \/ /\ e[1] \in {"READ", "PIPE"}
          /\ conn' = [conn EXCEPT !.life = IF e[1] = "READ" THEN "deleted" ELSE "left"]
          /\ DestroyBlocks
    /\ UNCHANGED phase

(* An event of a Request that has been deleted, of this batch or of the    *)
(* timer left behind: see TouchFreed in WebServer. A second delete is one  *)
(* of the outcomes: the timer adds WRITE, and that event closes again.     *)
StaleEvent(e) ==
    /\ NextEvent(e) /\ e[1] # "LISTEN"
    /\ conn.life # "live"
    /\ phase' = "undefined"
    /\ UNCHANGED <<open, conn>>

Loop ==
    \/ Kevent \/ BatchDone
    \/ \E e \in batch : NewClient(e) \/ ParseHeader(e) \/ StayOrClose(e) \/ StaleEvent(e)

Next ==
    \/ ReadFile \/ NoConfiguration \/ FileRead \/ OpenSocket \/ RunServer
    \/ Signal
    \/ Loop

Spec == Init /\ [][Next]_vars
=============================================================================
