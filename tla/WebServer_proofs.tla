--------------------------- MODULE WebServer_proofs ---------------------------
(***************************************************************************)
(* Theorems about the event loop, for every number of connections,         *)
(* descriptors and events per batch.                                       *)
(***************************************************************************)
EXTENDS WebServerProperties, TLAPS

-----------------------------------------------------------------------------
(* The kernel's operations keep its type.                                  *)

LEMMA AddType ==
    ASSUME NEW K \in KernelState, NEW f, NEW t, NEW c \in Conn \cup {NoConn}
    PROVE  Add(K, f, t, c) \in KernelState
BY DEF Add, KernelState

(* EV_DELETE keeps the type.                                               *)
LEMMA DelType ==
    ASSUME NEW K \in KernelState, NEW f, NEW t
    PROVE  Del(K, f, t) \in KernelState
BY AddType DEF Del

(* Opening a descriptor keeps the type.                                    *)
LEMMA OpenType ==
    ASSUME NEW K \in KernelState, NEW f, NEW d \in Descriptor
    PROVE  Open(K, f, d) \in KernelState
BY DEF Open, KernelState

(* Closing descriptors keeps the type.                                     *)
LEMMA CloseType ==
    ASSUME NEW K \in KernelState, NEW S
    PROVE  Close(K, S) \in KernelState
BY DEF Close, KernelState, Descriptor, Closed, Role

(* Sockets and pipe ends are descriptors.                                  *)
LEMMA DescriptorType ==
    ASSUME NEW c \in Conn
    PROVE  /\ Sock(c) \in Descriptor
           /\ \A end \in PipeEnd : Pipe(end, c) \in Descriptor
BY DEF Sock, Pipe, Descriptor, Role, PipeEnd

(* pipe() returns two descriptors or leaves two NoFd.                      *)
LEMMA NewPipeType ==
    ASSUME NEW K \in KernelState
    PROVE  NewPipe(K) \in (Fd \cup {NoFd}) \X (Fd \cup {NoFd})
<1> DEFINE S == Lowest(Unused(K), 2)
           P == {p \in S \X S : p[1] < p[2]}
<1>1. S \subseteq Fd
  BY DEF Lowest, Unused
<1>2. CASE P = {}
  BY <1>2 DEF NewPipe
<1>3. CASE P # {}
  <2>1. (CHOOSE p \in P : TRUE) \in P
    BY <1>3
  <2>2. NewPipe(K) \in P
    BY <1>3, <2>1 DEF NewPipe
  <2> QED
    BY <2>2, <1>1
<1> QED
  BY <1>2, <1>3

-----------------------------------------------------------------------------
(* Type correctness                                                         *)

(* The values a Request goes through.                                      *)
LEMMA RequestTypes ==
    /\ \A f \in Fd : NewRequest(f) \in Request
    /\ Freed \in Request /\ Unborn \in Request
    /\ \A r \in Request : /\ Parsed(r) \subseteq Request
                          /\ CreateResponse(r) \subseteq Request
                          /\ Responses(r) \subseteq Request
<1>1. NoPipes \in [PipeEnd -> Fd \cup {NoFd}]
  BY DEF NoPipes
<1>2. \A f \in Fd \cup {NoFd} : NewRequest(f) \in Request
  BY <1>1 DEF NewRequest, Request, Status
<1>3. Freed \in Request /\ Unborn \in Request
  BY <1>2 DEF Freed, Unborn, Request
<1>4. ASSUME NEW r \in Request
      PROVE  CreateResponse(r) \subseteq Request
  BY DEF CreateResponse, Request
<1>5. ASSUME NEW r \in Request
      PROVE  Responses(r) \subseteq Request
  <2>1. \A s \in CreateResponse(r) : [s EXCEPT !.responseDone = TRUE] \in Request
    BY <1>4 DEF Request
  <2> QED
    BY <2>1 DEF Responses
<1>6. ASSUME NEW r \in Request
      PROVE  Parsed(r) \subseteq Request
  <2> DEFINE H == [isCgi : {FALSE, HasCgi}, status : {r.status, "ERROR"}, done : BOOLEAN]
  <2>2. r.status \in Status /\ "ERROR" \in Status
    BY DEF Request, Status
  <2>1. ASSUME NEW h \in H
        PROVE  HeaderRead(r, h) \in Request
    <3>1. h.isCgi \in BOOLEAN /\ h.status \in Status /\ h.done \in BOOLEAN
      BY <2>2, HasCgiAssumption
    <3> QED
      BY <3>1 DEF HeaderRead, Request
  <2>3. /\ [r EXCEPT !.done = TRUE] \in Request
        /\ [r EXCEPT !.status = "ERROR"] \in Request
    BY <2>2 DEF Request
  <2>4. CASE r.headerDone
    BY <2>3, <2>4 DEF Parsed
  <2>5. CASE ~r.headerDone
    <3>1. Parsed(r) = {r} \cup {HeaderRead(r, h) : h \in H}
      BY <2>5 DEF Parsed
    <3> QED
      BY <2>1, <3>1
  <2> QED
    BY <2>4, <2>5
<1> QED
  BY <1>2, <1>3, <1>4, <1>5, <1>6

(* createPipes leaves a kernel and four numbers.                           *)
LEMMA CreatePipesType ==
    ASSUME NEW K \in KernelState, NEW c \in Conn, NEW o \in CreatePipes(K, c)
    PROVE  /\ o.kernel \in KernelState
           /\ o.in \in (Fd \cup {NoFd}) \X (Fd \cup {NoFd})
           /\ o.out \in (Fd \cup {NoFd}) \X (Fd \cup {NoFd})
<1> DEFINE in == NewPipe(K)
           KI1 == Open(K, in[1], Pipe("in0", c))
           KI == Open(KI1, in[2], Pipe("in1", c))
           out == NewPipe(KI)
           KO1 == Open(KI, out[1], Pipe("out0", c))
           KO == Open(KO1, out[2], Pipe("out1", c))
           KW == Add(KO, in[2], "WRITE", c)
           KR == Add(KW, out[1], "READ", c)
<1>1. KI1 \in KernelState
  BY OpenType, DescriptorType DEF PipeEnd
<1>2. KI \in KernelState
  BY <1>1, OpenType, DescriptorType DEF PipeEnd
<1>3. KO1 \in KernelState
  BY <1>2, OpenType, DescriptorType DEF PipeEnd
<1>4. KO \in KernelState
  BY <1>3, OpenType, DescriptorType DEF PipeEnd
<1>5. KW \in KernelState
  BY <1>4, AddType
<1>6. KR \in KernelState
  BY <1>5, AddType
<1>7. in \in (Fd \cup {NoFd}) \X (Fd \cup {NoFd})
  BY NewPipeType
<1>8. out \in (Fd \cup {NoFd}) \X (Fd \cup {NoFd})
  BY <1>2, NewPipeType
<1>9. /\ o.kernel \in {KR, KO, KW}
      /\ o.in = in /\ o.out = out
  <2> HIDE DEF in, KO, KW, KR, out
  <2>1. o \in {[kernel |-> KR, in |-> in, out |-> out, ok |-> TRUE],
               [kernel |-> KO, in |-> in, out |-> out, ok |-> FALSE],
               [kernel |-> KW, in |-> in, out |-> out, ok |-> FALSE]}
    <3>1. CreatePipes(K, c) \subseteq
              {[kernel |-> KR, in |-> in, out |-> out, ok |-> TRUE],
               [kernel |-> KO, in |-> in, out |-> out, ok |-> FALSE],
               [kernel |-> KW, in |-> in, out |-> out, ok |-> FALSE]}
      BY Zenon DEF CreatePipes, in, KI, KI1, out, KO1, KO, KW, KR
    <3> QED
      BY <3>1
  <2> QED
    BY <2>1
<1> QED
  BY <1>4, <1>5, <1>6, <1>7, <1>8, <1>9

(* The Request remembers the numbers of its pipes.                         *)
LEMMA WithPipesType ==
    ASSUME NEW r \in Request, NEW K \in KernelState, NEW c \in Conn,
           NEW o \in CreatePipes(K, c)
    PROVE  WithPipes(r, o) \in Request
<1>1. /\ o.in \in (Fd \cup {NoFd}) \X (Fd \cup {NoFd})
      /\ o.out \in (Fd \cup {NoFd}) \X (Fd \cup {NoFd})
  BY CreatePipesType
<1>2. [in0 |-> o.in[1], in1 |-> o.in[2], out0 |-> o.out[1], out1 |-> o.out[2]]
         \in [PipeEnd -> Fd \cup {NoFd}]
  BY <1>1 DEF PipeEnd
<1> QED
  BY <1>2 DEF WithPipes, Request

(* The part of the state the handlers write through their shared helpers.  *)
HandledType ==
    /\ kernel \in KernelState
    /\ req \in [Conn -> Request]
    /\ child \in [Conn -> {"none", "running", "signalled", "exited"}]

(* closeClient keeps the types.                                            *)
LEMMA CloseClientType ==
    ASSUME HandledType, NEW K \in KernelState, NEW e \in Event, CloseClient(K, e)
    PROVE  HandledType'
<1> DEFINE K1 == Close(K, PipeFds(e.udata))
           K2 == IF IsOpen(K1, e.ident) THEN Del(K1, e.ident, "TIMER") ELSE K1
<1>1. K1 \in KernelState
  BY CloseType
<1>2. K2 \in KernelState
  BY <1>1, DelType
<1>3. kernel' \in KernelState
  <2>1. kernel' = Close(K2, {e.ident})
    BY DEF CloseClient
  <2> QED
    BY <1>2, <2>1, CloseType
<1>4. child' \in [Conn -> {"none", "running", "signalled", "exited"}]
  BY DEF CloseClient, Kill, HandledType
<1>5. req' \in [Conn -> Request]
  BY RequestTypes DEF CloseClient, Delete, HandledType
<1> QED
  BY <1>3, <1>4, <1>5 DEF HandledType

(* addFilter or cleanAddFilterFail keeps the types.                        *)
LEMMA AddWriteOrCleanType ==
    ASSUME HandledType, NEW K \in KernelState, NEW fd, NEW c \in Conn, NEW r \in Request,
           AddWriteOrClean(K, fd, c, r)
    PROVE  HandledType'
<1>1. CASE /\ kernel' = Add(K, fd, "WRITE", c)
           /\ req' = [req EXCEPT ![c] = r]
           /\ UNCHANGED child
  BY <1>1, AddType DEF HandledType
<1>2. CASE /\ kernel' = Close(K, PipeFds(c) \cup {fd})
           /\ Kill(c)
           /\ Delete(c)
  BY <1>2, CloseType, RequestTypes DEF HandledType, Kill, Delete
<1> QED
  BY <1>1, <1>2 DEF AddWriteOrClean

(* The rest of the state.                                                  *)
LoopType ==
    /\ batch \in SUBSET (Event \cup {ListenReady})
    /\ accepting \in BOOLEAN
    /\ lready \in BOOLEAN
    /\ proc \in {"running", "exited", "killed", "undefined"}

WorldType ==
    /\ peer \in [Conn -> {"away", "queued", "open", "closed", "reset"}]
    /\ rx \in [Conn -> BOOLEAN]
    /\ output \in [Conn -> BOOLEAN]
    /\ inbox \in [Conn -> SUBSET (Conn \X Nat)]

(* TypeOK in three parts.                                                  *)
LEMMA TypeParts == TypeOK <=> (HandledType /\ LoopType /\ WorldType)
BY DEF TypeOK, HandledType, LoopType, WorldType

(* The program starts well typed.                                          *)
LEMMA TypeInit == Init => TypeOK
<1> SUFFICES ASSUME Init PROVE TypeOK
  OBVIOUS
<1>1. kernel \in KernelState
  BY DEF Init, EmptyKernel, KernelState, Closed, Descriptor, Role
<1>2. req \in [Conn -> Request]
  BY RequestTypes DEF Init
<1> QED
  BY <1>1, <1>2 DEF Init, TypeOK

(* EV_EOF is a flag.                                                       *)
LEMMA EofType == ASSUME NEW f, NEW t PROVE Eof(f, t) \in BOOLEAN
BY DEF Eof

(* Clients and scripts keep the types.                                     *)
LEMMA EnvironmentType == TypeOK /\ Environment => TypeOK'
<1> SUFFICES ASSUME TypeOK, NEW c \in Conn,
                    Connect(c) \/ Send(c) \/ Disconnect(c) \/ ChildOutput(c) \/ ChildExit(c)
             PROVE  TypeOK'
  BY DEF Environment
<1>1. CASE Connect(c)
  BY <1>1 DEF Connect, TypeOK, World
<1>2. CASE Send(c)
  BY <1>2 DEF Send, TypeOK, World
<1>3. CASE Disconnect(c)
  BY <1>3 DEF Disconnect, TypeOK, World
<1>4. CASE ChildOutput(c)
  BY <1>4 DEF ChildOutput, TypeOK, World
<1>5. CASE ChildExit(c)
  BY <1>5 DEF ChildExit, TypeOK, World
<1> QED
  BY <1>1, <1>2, <1>3, <1>4, <1>5

(* kevent fills evList with events.                                        *)
LEMMA KeventType == TypeOK /\ Kevent => TypeOK'
<1> SUFFICES ASSUME TypeOK, Kevent PROVE TypeOK'
  OBVIOUS
<1>1. \A k \in Registered(kernel) : Reported(k) \in Event
  BY EofType DEF Registered, Reported, Event, TypeOK, KernelState, Filter
<1>2. PICK S \in SUBSET Possible, L \in SUBSET ListenPending :
         /\ batch' = {Reported(k) : k \in S} \cup L
         /\ lready' = (lready /\ L = {})
  BY DEF Kevent
<1>3. S \subseteq Registered(kernel)
  BY DEF Possible, Pending
<1>4. L \subseteq {ListenReady}
  BY DEF ListenPending
<1>5. batch' \in SUBSET (Event \cup {ListenReady})
  BY <1>1, <1>2, <1>3, <1>4
<1>6. lready' \in BOOLEAN
  BY <1>2 DEF TypeOK
<1> QED
  BY <1>5, <1>6 DEF Kevent, KeventVars, TypeOK

(* newClient keeps the types.                                              *)
LEMMA NewClientType == TypeOK /\ NewClient => TypeOK'
<1> SUFFICES ASSUME TypeOK, NewClient PROVE TypeOK'
  OBVIOUS
<1>1. CASE ListenEvent
  BY <1>1 DEF ListenEvent, TypeOK
<1>2. CASE AcceptDone
  BY <1>2 DEF AcceptDone, AcceptVars, TypeOK
<1>3. ASSUME NEW c \in Conn, AcceptOne(c) PROVE TypeOK'
  <2>1. PICK f \in Fd :
           /\ Accept(c, f)
           /\ kernel' = Add(Add(Open(kernel, f, Sock(c)), f, "READ", c), f, "TIMER", c)
           /\ req' = [req EXCEPT ![c] = NewRequest(f)]
           /\ UNCHANGED <<AcceptVars, accepting, lready, proc>>
    BY <1>3 DEF AcceptOne
  <2> DEFINE K1 == Open(kernel, f, Sock(c))
             K2 == Add(K1, f, "READ", c)
  <2>2. K1 \in KernelState
    BY OpenType, DescriptorType DEF TypeOK
  <2>3. K2 \in KernelState
    BY <2>2, AddType
  <2>4. kernel' \in KernelState
    BY <2>1, <2>3, AddType
  <2>5. req' \in [Conn -> Request]
    BY <2>1, RequestTypes DEF TypeOK
  <2> QED
    BY <2>1, <2>4, <2>5 DEF Accept, AcceptVars, TypeOK
<1>4. ASSUME NEW c \in Conn, AcceptFault(c) PROVE TypeOK'
  <2>1. PICK f \in Fd, readAdded \in BOOLEAN :
          LET K == IF readAdded THEN Add(Open(kernel, f, Sock(c)), f, "READ", c)
                                ELSE Open(kernel, f, Sock(c))
          IN  /\ Accept(c, f)
              /\ \/ /\ kernel' = Add(K, f, "WRITE", c)
                    /\ req' = [req EXCEPT ![c] = [NewRequest(f) EXCEPT !.responses = 1]]
                 \/ /\ kernel' = Close(K, {f})
                    /\ req' = [req EXCEPT ![c] = Freed]
              /\ accepting' = FALSE
              /\ UNCHANGED <<AcceptVars, lready, proc>>
    BY <1>4 DEF AcceptFault
  <2> DEFINE K1 == Open(kernel, f, Sock(c))
             K == IF readAdded THEN Add(K1, f, "READ", c) ELSE K1
  <2>2. K1 \in KernelState
    BY OpenType, DescriptorType DEF TypeOK
  <2>3. K \in KernelState
    BY <2>2, AddType
  <2>4. kernel' \in KernelState
    BY <2>1, <2>3, AddType, CloseType
  <2>5. [NewRequest(f) EXCEPT !.responses = 1] \in Request
    BY RequestTypes DEF Request
  <2>6. req' \in [Conn -> Request]
    BY <2>1, <2>5, RequestTypes DEF TypeOK
  <2> QED
    BY <2>1, <2>4, <2>6 DEF Accept, AcceptVars, TypeOK
<1> QED
  BY <1>1, <1>2, <1>3, <1>4 DEF NewClient

(* What every handler does to the loop's own variables.                    *)
LEMMA HandlingType ==
    ASSUME TypeOK, NEW e, NEW filter, Handling(e, filter), UNCHANGED proc
    PROVE  LoopType'
BY DEF Handling, LoopType, TypeOK

(* read and recv keep the types.                                           *)
LEMMA DrainType ==
    ASSUME TypeOK, NEW f, Drain(f)
    PROVE  rx' \in [Conn -> BOOLEAN] /\ output' \in [Conn -> BOOLEAN]
BY DEF Drain, TypeOK

(* write and send keep the types.                                          *)
LEMMA DeliverType ==
    ASSUME TypeOK, NEW f, NEW c \in Conn, NEW n \in Nat, Deliver(f, c, n)
    PROVE  inbox' \in [Conn -> SUBSET (Conn \X Nat)]
<1>1. CASE inbox' = [inbox EXCEPT ![Desc(f).conn] = @ \cup {<<c, n>>}]
  <2>1. CASE Desc(f).conn \in Conn
    <3>1. inbox[Desc(f).conn] \cup {<<c, n>>} \in SUBSET (Conn \X Nat)
      BY <2>1 DEF TypeOK
    <3> QED
      BY <1>1, <3>1 DEF TypeOK
  <2>2. CASE Desc(f).conn \notin Conn
    BY <1>1, <2>2 DEF TypeOK
  <2> QED
    BY <2>1, <2>2
<1> QED
  BY <1>1 DEF Deliver, TypeOK

(* handleTimeout keeps the types.                                          *)
LEMMA HandleTimeoutType ==
    ASSUME TypeOK, NEW e \in Event, HandleTimeout(e) PROVE TypeOK'
<1> DEFINE c == e.udata
           K1 == IF req[c].done THEN kernel ELSE Del(kernel, e.ident, "READ")
           K2 == Close(K1, PipeFds(c))
           s == IF req[c].done THEN "GATEWAY_TIMEOUT" ELSE "REQUEST_TIMEOUT"
           r == [req[c] EXCEPT !.status = s]
<1>1. c \in Conn
  BY DEF Event
<1>2. K1 \in KernelState
  BY DelType DEF TypeOK
<1>3. K2 \in KernelState
  BY <1>2, CloseType
<1>4. Add(K2, e.ident, "WRITE", c) \in KernelState /\ Close(K2, {e.ident}) \in KernelState
  BY <1>1, <1>3, AddType, CloseType
<1>5. r \in Request
  <2>1. req[c] \in Request /\ s \in Status
    BY <1>1 DEF TypeOK, Status
  <2> HIDE DEF s
  <2> QED
    BY <2>1 DEF Request
<1>6. /\ kernel' \in {Add(K2, e.ident, "WRITE", c), K2, Close(K2, {e.ident})}
      /\ req' = [req EXCEPT ![c] = r] \/ Delete(c)
      /\ proc' \in {proc, "running", "undefined"}
      /\ Handling(e, "TIMER")
      /\ Kill(c)
      /\ UNCHANGED <<rx, output, inbox>>
  <2> HIDE DEF K2
  <2> QED
    BY DEF HandleTimeout, K2
<1>7. kernel' \in KernelState
  BY <1>3, <1>4, <1>6
<1>8. req' \in [Conn -> Request]
  BY <1>5, <1>6, RequestTypes DEF Delete, TypeOK
<1>9. child' \in [Conn -> {"none", "running", "signalled", "exited"}]
  BY <1>6 DEF Kill, TypeOK
<1> QED
  BY <1>6, <1>7, <1>8, <1>9 DEF Handling, TypeOK

(* The branches for EV_EOF keep the types.                                 *)
LEMMA EofHandlersType ==
    ASSUME TypeOK, NEW e \in Event, PipeEof(e) \/ ClientEof(e) \/ WriteEof(e)
    PROVE  TypeOK'
<1>1. e.udata \in Conn
  BY DEF Event
<1>2. LoopType'
  BY HandlingType DEF PipeEof, ClientEof, WriteEof
<1>3. WorldType'
  BY DEF PipeEof, ClientEof, WriteEof, Handling, WorldType, TypeOK
<1>4. HandledType
  BY TypeParts
<1>5. req[e.udata] \in Request
  BY <1>1 DEF TypeOK
<1>6. CASE PipeEof(e)
  <2>1. Close(Del(kernel, e.ident, "READ"), {e.ident}) \in KernelState
    BY DelType, CloseType DEF TypeOK
  <2>2. HandledType'
    BY <1>1, <1>4, <1>5, <1>6, <2>1, AddWriteOrCleanType DEF PipeEof
  <2> QED
    BY <1>2, <1>3, <2>2, TypeParts, PTL
<1>7. CASE ClientEof(e)
  <2>1. Del(kernel, e.ident, "READ") \in KernelState
    BY DelType DEF TypeOK
  <2>2. HandledType'
    BY <1>4, <1>7, <2>1, CloseClientType DEF ClientEof
  <2> QED
    BY <1>2, <1>3, <2>2, TypeParts, PTL
<1>8. CASE WriteEof(e)
  <2>1. Del(kernel, e.ident, "WRITE") \in KernelState
    BY DelType DEF TypeOK
  <2>2. HandledType'
    BY <1>4, <1>8, <2>1, CloseClientType DEF WriteEof
  <2> QED
    BY <1>2, <1>3, <2>2, TypeParts, PTL
<1> QED
  BY <1>6, <1>7, <1>8

(* readRequest keeps the types.                                            *)
LEMMA ReadRequestType ==
    ASSUME TypeOK, NEW e \in Event, ReadRequest(e)
    PROVE  TypeOK'
<1>1. e.udata \in Conn
  BY DEF Event
<1>2. HandledType
  BY TypeParts
<1>3. req[e.udata] \in Request
  BY <1>1 DEF TypeOK
<1> DEFINE K == Del(kernel, e.ident, "READ")
<1>4. K \in KernelState
  BY DelType DEF TypeOK
<1>5. \A r \in Parsed(req[e.udata]) : r \in Request
  BY <1>3, RequestTypes
<1>6. CASE ReadPipe(e)
  <2>1. LoopType'
    BY <1>6, HandlingType DEF ReadPipe, ReadEvent
  <2>2. WorldType'
    BY <1>6, DrainType DEF ReadPipe, ReadEvent, Handling, WorldType, TypeOK
  <2>3. HandledType'
    BY <1>2, <1>6 DEF ReadPipe, HandledType
  <2> QED
    BY <2>1, <2>2, <2>3, TypeParts, PTL
<1>7. CASE ReadPipeFailed(e)
  <2>1. LoopType'
    BY <1>7, HandlingType DEF ReadPipeFailed, ReadEvent
  <2>2. WorldType'
    BY <1>7 DEF ReadPipeFailed, ReadEvent, Handling, WorldType, TypeOK
  <2>3. [req[e.udata] EXCEPT !.status = "ERROR"] \in Request
    BY <1>3 DEF Request, Status
  <2>4. HandledType'
    BY <1>1, <1>2, <1>4, <1>7, <2>3, AddWriteOrCleanType DEF ReadPipeFailed
  <2> QED
    BY <2>1, <2>2, <2>4, TypeParts, PTL
<1>8. CASE RecvFailed(e)
  <2>1. LoopType'
    BY <1>8, HandlingType DEF RecvFailed, ReadEvent
  <2>2. WorldType'
    BY <1>8 DEF RecvFailed, ReadEvent, Handling, WorldType, TypeOK
  <2>3. Del(K, e.ident, "TIMER") \in KernelState
    BY <1>4, DelType
  <2>4. HandledType'
    BY <1>2, <1>8, <2>3, CloseClientType DEF RecvFailed
  <2> QED
    BY <2>1, <2>2, <2>4, TypeParts, PTL
<1>9. ASSUME NEW r \in Parsed(req[e.udata]), Received(e, r)
      PROVE  LoopType' /\ WorldType'
  <2>1. LoopType'
    BY <1>9, HandlingType DEF Received, ReadEvent
  <2>2. WorldType'
    BY <1>9, DrainType DEF Received, ReadEvent, Handling, WorldType, TypeOK
  <2> QED
    BY <2>1, <2>2
<1>10. CASE ReceiveMore(e)
  <2>1. PICK r \in Parsed(req[e.udata]) :
           /\ Received(e, r)
           /\ req' = [req EXCEPT ![e.udata] = r]
           /\ UNCHANGED <<kernel, child>>
    BY <1>10 DEF ReceiveMore
  <2>2. HandledType'
    BY <1>2, <1>5, <2>1 DEF HandledType
  <2> QED
    BY <1>9, <2>1, <2>2, TypeParts, PTL
<1>11. CASE ReceiveLast(e)
  <2>1. PICK r \in Parsed(req[e.udata]) :
           Received(e, r) /\ AddWriteOrClean(K, e.ident, e.udata, r)
    BY <1>11 DEF ReceiveLast
  <2>2. HandledType'
    BY <1>1, <1>2, <1>4, <1>5, <2>1, AddWriteOrCleanType
  <2> QED
    BY <1>9, <2>1, <2>2, TypeParts, PTL
<1>12. CASE StartDelete(e)
  <2>1. PICK r \in Parsed(req[e.udata]) :
           /\ Received(e, r)
           /\ kernel' = K
           /\ req' = [req EXCEPT ![e.udata] = r]
           /\ UNCHANGED child
    BY <1>12 DEF StartDelete
  <2>2. HandledType'
    BY <1>2, <1>4, <1>5, <2>1 DEF HandledType
  <2> QED
    BY <1>9, <2>1, <2>2, TypeParts, PTL
<1>13. CASE StartWithoutPipes(e)
  <2>1. PICK r \in Parsed(req[e.udata]), o \in CreatePipes(K, e.udata) :
           /\ Received(e, r)
           /\ kernel' = o.kernel
           /\ req' = [req EXCEPT ![e.udata] =
                         [WithPipes(r, o) EXCEPT !.status = "ERROR", !.isCgi = FALSE]]
           /\ UNCHANGED child
    BY <1>13 DEF StartWithoutPipes
  <2>2. WithPipes(r, o) \in Request
    BY <1>1, <1>4, <1>5, WithPipesType
  <2>3. [WithPipes(r, o) EXCEPT !.status = "ERROR", !.isCgi = FALSE] \in Request
    BY <2>2 DEF Request, Status
  <2>4. o.kernel \in KernelState
    BY <1>1, <1>4, CreatePipesType
  <2>5. HandledType'
    BY <1>2, <2>1, <2>3, <2>4 DEF HandledType
  <2> QED
    BY <1>9, <2>1, <2>5, TypeParts, PTL
<1>14. CASE StartScript(e)
  <2>1. PICK r \in Parsed(req[e.udata]), o \in CreatePipes(K, e.udata) :
           /\ Received(e, r)
           /\ req' = [req EXCEPT ![e.udata] = WithPipes(r, o)]
           /\ \/ /\ kernel' = Close(o.kernel, {o.out[2], o.in[1]})
                 /\ child' = [child EXCEPT ![e.udata] = "running"]
              \/ /\ kernel' = o.kernel
                 /\ UNCHANGED child
    BY <1>14 DEF StartScript
  <2>2. WithPipes(r, o) \in Request
    BY <1>1, <1>4, <1>5, WithPipesType
  <2>3. o.kernel \in KernelState
    BY <1>1, <1>4, CreatePipesType
  <2>4. kernel' \in KernelState
    BY <2>1, <2>3, CloseType
  <2>5. HandledType'
    BY <1>2, <2>1, <2>2, <2>4 DEF HandledType
  <2> QED
    BY <1>9, <2>1, <2>5, TypeParts, PTL
<1>15. CASE HeaderBreaks(e)
  <2>1. LoopType'
    BY <1>15 DEF HeaderBreaks, ReadEvent, Handling, LoopType, TypeOK
  <2>2. WorldType'
    BY <1>15, DrainType DEF HeaderBreaks, ReadEvent, Handling, WorldType, TypeOK
  <2>3. HandledType'
    BY <1>2, <1>15 DEF HeaderBreaks, HandledType
  <2> QED
    BY <2>1, <2>2, <2>3, TypeParts, PTL
<1> QED
  BY <1>6, <1>7, <1>8, <1>10, <1>11, <1>12, <1>13, <1>14, <1>15 DEF ReadRequest

(* sendResponse keeps the types.                                           *)
LEMMA SendResponseType ==
    ASSUME TypeOK, NEW e \in Event, SendResponse(e)
    PROVE  TypeOK'
<1>1. e.udata \in Conn
  BY DEF Event
<1>2. HandledType
  BY TypeParts
<1>3. req[e.udata] \in Request
  BY <1>1 DEF TypeOK
<1> DEFINE K == Del(kernel, e.ident, "WRITE")
<1>4. K \in KernelState
  BY DelType DEF TypeOK
<1>5. \A r \in Responses(req[e.udata]) : r \in Request /\ r.responses \in Nat
  BY <1>3, RequestTypes DEF Request
<1>6. CASE WritePipePart(e)
  BY <1>6 DEF WritePipePart, WriteEvent, Handling, TypeOK
<1>7. CASE WritePipeAll(e)
  <2>1. LoopType'
    BY <1>7, HandlingType DEF WritePipeAll, WriteEvent
  <2>2. WorldType'
    BY <1>1, <1>7, DeliverType DEF WritePipeAll, WriteEvent, Handling, WorldType, TypeOK
  <2>3. HandledType'
    BY <1>2, <1>4, <1>7, CloseType DEF WritePipeAll, HandledType
  <2> QED
    BY <2>1, <2>2, <2>3, TypeParts, PTL
<1>8. CASE WritePipeFailed(e)
  <2>1. LoopType'
    BY <1>8, HandlingType DEF WritePipeFailed, WriteEvent
  <2>2. WorldType'
    BY <1>8 DEF WritePipeFailed, WriteEvent, Handling, WorldType, TypeOK
  <2>3. [req[e.udata] EXCEPT !.status = "ERROR"] \in Request
    BY <1>3 DEF Request, Status
  <2>4. PICK r \in CreateResponse([req[e.udata] EXCEPT !.status = "ERROR"]) :
           AddWriteOrClean(K, req[e.udata].fd, e.udata, r)
    BY <1>8 DEF WritePipeFailed
  <2>5. r \in Request
    BY <2>3, RequestTypes
  <2>6. HandledType'
    BY <1>1, <1>2, <1>4, <2>4, <2>5, AddWriteOrCleanType
  <2> QED
    BY <2>1, <2>2, <2>6, TypeParts, PTL
<1>9. CASE SendPart(e)
  <2>1. LoopType'
    BY <1>9, HandlingType DEF SendPart, WriteEvent
  <2>2. WorldType'
    BY <1>9 DEF SendPart, WriteEvent, Handling, WorldType, TypeOK
  <2>3. HandledType'
    BY <1>2, <1>5, <1>9 DEF SendPart, HandledType
  <2> QED
    BY <2>1, <2>2, <2>3, TypeParts, PTL
<1>10. CASE SendAll(e)
  <2>1. LoopType'
    BY <1>10, HandlingType DEF SendAll, WriteEvent
  <2>2. inbox' \in [Conn -> SUBSET (Conn \X Nat)]
    <3>1. PICK r \in Responses(req[e.udata]) :
             IF r.responses = 0 THEN inbox' = inbox ELSE Deliver(e.ident, e.udata, r.responses)
      BY <1>10 DEF SendAll
    <3>2. CASE r.responses = 0
      BY <3>1, <3>2 DEF TypeOK
    <3>3. CASE r.responses # 0
      BY <1>1, <1>5, <3>1, <3>3, DeliverType
    <3> QED
      BY <3>2, <3>3
  <2>3. WorldType'
    BY <1>10, <2>2 DEF SendAll, WriteEvent, Handling, WorldType, TypeOK
  <2>4. HandledType'
    BY <1>2, <1>4, <1>10, CloseClientType DEF SendAll
  <2> QED
    BY <2>1, <2>3, <2>4, TypeParts, PTL
<1>11. CASE SendFailed(e)
  <2>1. LoopType'
    BY <1>11, HandlingType DEF SendFailed, WriteEvent
  <2>2. WorldType'
    BY <1>11 DEF SendFailed, WriteEvent, Handling, WorldType, TypeOK
  <2>3. HandledType'
    BY <1>2, <1>4, <1>11, CloseClientType DEF SendFailed
  <2> QED
    BY <2>1, <2>2, <2>3, TypeParts, PTL
<1>12. CASE Killed(e)
  BY <1>12 DEF Killed, WriteEvent, Handling, TypeOK
<1> QED
  BY <1>6, <1>7, <1>8, <1>9, <1>10, <1>11, <1>12 DEF SendResponse

(* Every step keeps the types.                                             *)
LEMMA TypeNext == TypeOK /\ [Next]_vars => TypeOK'
<1> SUFFICES ASSUME TypeOK, [Next]_vars PROVE TypeOK'
  OBVIOUS
<1>1. CASE Environment
  BY <1>1, EnvironmentType
<1>2. CASE Kevent
  BY <1>2, KeventType
<1>3. CASE NewClient
  BY <1>3, NewClientType
<1>4. CASE Interrupted
  BY <1>4 DEF Interrupted, KeventVars, TypeOK
<1>5. ASSUME NEW e \in Events, TouchFreed(e) PROVE TypeOK'
  BY <1>5 DEF TouchFreed, TypeOK
<1>6. ASSUME NEW e \in Events, Handle(e) PROVE TypeOK'
  <2>1. e \in Event
    BY DEF Events, TypeOK
  <2> QED
    BY <1>6, <2>1, HandleTimeoutType, EofHandlersType, ReadRequestType, SendResponseType DEF Handle
<1>7. CASE UNCHANGED vars
  BY <1>7 DEF vars, TypeOK
<1> QED
  BY <1>1, <1>2, <1>3, <1>4, <1>5, <1>6, <1>7 DEF Next, RunServer, Events

(* The state of the event loop is well typed in every deployment, CGI and  *)
(* failing system calls included.                                          *)
THEOREM TypeCorrect == Spec => []TypeOK
BY TypeInit, TypeNext, PTL DEF Spec
=============================================================================
