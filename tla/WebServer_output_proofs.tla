------------------------ MODULE WebServer_output_proofs ------------------------
(***************************************************************************)
(* The event loop with CGI scripts: what a complete request still reads and*)
(* what it waits to write, from which follows that a script's output is    *)
(* answered only after its end.                                            *)
(***************************************************************************)
EXTENDS WebServer_scripts_proofs

(* A complete request reads only from its script, and its socket is none of*)
(* its pipes; and while the output of its script may still come, it waits  *)
(* for room to write only on the pipe to the script, newClient's own       *)
(* response apart.                                                         *)
FlowOf(c) == Live(c) =>
    /\ req[c].done =>
          /\ \A g \in Fd : kernel.knote[<<g, "READ">>] = c => g = req[c].pipe["out0"]
          /\ \A e \in Events : (e.udata = c /\ e.filter = "READ") => e.ident = req[c].pipe["out0"]
          /\ \A p \in PipeEnd : req[c].pipe[p] # req[c].fd
    /\ (req[c].isCgi /\ req[c].status = "OK" /\ HoldsEnd("out0", c) /\ ~Refused(req[c])) =>
          \A g \in Fd : kernel.knote[<<g, "WRITE">>] = c => g = req[c].pipe["in1"]

(* kevent reports a filter once.                                           *)
OneEventEach ==
    \A e1, e2 \in Events : (e1.ident = e2.ident /\ e1.filter = e2.filter) => e1 = e2

(* The invariant of this module's theorems.                                *)
FlowInv ==
    /\ PipesOwned /\ ReasonsGiven /\ OneEventEach
    /\ \A c \in Conn : FlowOf(c)

(* A handler of c disturbs no other connection's flow.                     *)
LEMMA OtherFlows ==
    ASSUME FlowInv, NEW c \in Conn, NEW d \in Conn, d # c,
           req'[d] = req[d], batch' \subseteq batch,
           \A k \in Fd \X Filter : kernel'.knote[k] \in {kernel.knote[k], NoConn, c},
           \A f \in Fd : \/ kernel'.desc[f] \in {kernel.desc[f], Closed}
                         \/ kernel'.desc[f].conn = c
    PROVE  FlowOf(d)'
<1>1. Events' \subseteq Events
  BY DEF Events
<1>2. \A g \in Fd : /\ kernel'.knote[<<g, "READ">>] = d => kernel.knote[<<g, "READ">>] = d
                    /\ kernel'.knote[<<g, "WRITE">>] = d => kernel.knote[<<g, "WRITE">>] = d
  BY NoConnAssumption DEF Filter
<1>3. HoldsEnd("out0", d)' => HoldsEnd("out0", d)
  BY DEF HoldsEnd, Desc, Pipe, Closed
<1>4. FlowOf(d)
  BY DEF FlowInv
<1> QED
  BY <1>1, <1>2, <1>3, <1>4 DEF FlowOf, Live

(* Who has pipes open is complete, and remembers the one for the output.   *)
LEMMA OutputRemembered ==
    ASSUME PipesOwned, NEW c \in Conn, HoldsEnd("out0", c)
    PROVE  req[c].done /\ \A f \in Fd : Desc(f) = Pipe("out0", c) => req[c].pipe["out0"] = f
<1>1. PICK f \in Fd : Desc(f) = Pipe("out0", c)
  BY DEF HoldsEnd
<1>2. \A g \in Fd : Desc(g) = Pipe("out0", c) => req[c].pipe["out0"] = g
  BY DEF PipesOwned, NoPipeLeak, Pipe, PipeEnd
<1>3. req[c].pipe # NoPipes
  <2>1. f # NoFd
    BY MaxFdAssumption DEF Fd, NoFd
  <2> QED
    BY <1>1, <1>2, <2>1 DEF NoPipes, PipeEnd
<1> QED
  BY <1>2, <1>3 DEF PipesOwned

(* c keeps its stage: it adds no filter to read with, and one to write with*)
(* only if it has failed or its script's output has been closed.           *)
KeepsStage(c, r) ==
    /\ req' = [req EXCEPT ![c] = r]
    /\ r.fd = req[c].fd /\ r.pipe = req[c].pipe /\ r.done = req[c].done
    /\ Refused(req[c]) => Refused(r)
    /\ OnlyCloses(kernel')
    /\ \A k \in Fd \X Filter :
          \/ kernel'.knote[k] \in {kernel.knote[k], NoConn}
          \/ k[2] = "WRITE" /\ kernel'.knote[k] = c
    /\ \/ r.status # "OK"
       \/ HoldsEnd("out0", c)' = FALSE
       \/ OnlyDrops(kernel') /\ r.isCgi = req[c].isCgi /\ r.status = req[c].status

(* Such a handler keeps the flow of c, or c is deleted.                    *)
LEMMA KeptFlow ==
    ASSUME FlowInv, TypeOK', NEW c \in Conn, Live(c), NEW r, KeepsStage(c, r),
           batch' \subseteq batch
    PROVE  \A d \in Conn : FlowOf(d)'
<1>1. Events' \subseteq Events
  BY DEF Events
<1>2. \A d \in Conn : req'[d] = IF d = c THEN r ELSE req[d]
  BY DEF KeepsStage, FlowInv, PipesOwned, TypeOK
<1>3. ASSUME NEW d \in Conn, d # c PROVE FlowOf(d)'
  BY <1>2, <1>3, OtherFlows DEF KeepsStage, OnlyCloses
<1>4. FlowOf(c)'
  <2>1. FlowOf(c) /\ req'[c] = r
    BY <1>2 DEF FlowInv
  <2>2. \A g \in Fd : kernel'.knote[<<g, "READ">>] = c => kernel.knote[<<g, "READ">>] = c
    BY NoConnAssumption DEF KeepsStage, Filter
  <2>3. HoldsEnd("out0", c)' => HoldsEnd("out0", c)
    BY DEF KeepsStage, OnlyCloses, HoldsEnd, Desc, Pipe, Closed
  <2>4. OnlyDrops(kernel') =>
           \A g \in Fd : kernel'.knote[<<g, "WRITE">>] = c => kernel.knote[<<g, "WRITE">>] = c
    BY NoConnAssumption DEF OnlyDrops, Filter
  <2> QED
    BY <1>1, <2>1, <2>2, <2>3, <2>4 DEF KeepsStage, FlowOf, Live
<1> QED
  BY <1>3, <1>4

(* Nor does the flow of others suffer when c is deleted.                   *)
LEMMA GoneFlow ==
    ASSUME FlowInv, TypeOK', NEW c \in Conn, Delete(c), OnlyCloses(kernel'), OnlyDrops(kernel'),
           batch' \subseteq batch
    PROVE  \A d \in Conn : FlowOf(d)'
<1>1. \A d \in Conn : IF d = c THEN req'[d].life = "freed" ELSE req'[d] = req[d]
  BY DEF Delete, Freed, FlowInv, PipesOwned, TypeOK
<1>2. ASSUME NEW d \in Conn, d # c PROVE FlowOf(d)'
  BY <1>1, <1>2, OtherFlows DEF OnlyCloses, OnlyDrops
<1>3. FlowOf(c)'
  BY <1>1 DEF FlowOf, Live
<1> QED
  BY <1>2, <1>3

(* pipe() returns numbers that were not in use.                            *)
LEMMA NewPipeUnused ==
    ASSUME NEW K \in KernelState, NEW f \in Fd, f \notin Unused(K)
    PROVE  NewPipe(K)[1] # f /\ NewPipe(K)[2] # f
<1> DEFINE S == Lowest(Unused(K), 2)
           P == {p \in S \X S : p[1] < p[2]}
<1>1. S \subseteq Unused(K)
  BY DEF Lowest
<1>2. CASE P = {}
  <2>1. f # NoFd
    BY MaxFdAssumption DEF Fd, NoFd
  <2> QED
    BY <1>2, <2>1 DEF NewPipe
<1>3. CASE P # {}
  <2>1. (CHOOSE p \in P : TRUE) \in P
    BY <1>3
  <2>2. NewPipe(K) \in P
    BY <1>3, <2>1 DEF NewPipe
  <2> QED
    BY <2>2, <1>1
<1> QED
  BY <1>2, <1>3

(* A descriptor in use is none of the new pipes; and of the filters, to    *)
(* read with is the one on the output, to write with the one on the input. *)
LEMMA CreatePipesFilters ==
    ASSUME NEW K \in KernelState, NEW c \in Conn, NEW r \in Request, NEW o \in CreatePipes(K, c),
           NEW f \in Fd, f \notin Unused(K)
    PROVE  /\ \A p \in PipeEnd : WithPipes(r, o).pipe[p] # f
           /\ \A g \in Fd : \/ o.kernel.knote[<<g, "READ">>] = K.knote[<<g, "READ">>]
                            \/ g = WithPipes(r, o).pipe["out0"]
           /\ \A g \in Fd : \/ o.kernel.knote[<<g, "WRITE">>] = K.knote[<<g, "WRITE">>]
                            \/ g = WithPipes(r, o).pipe["in1"]
           /\ \A k \in Fd \X Filter : o.kernel.knote[k] \in {K.knote[k], c}
<1> DEFINE in == NewPipe(K)
           KI1 == Open(K, in[1], Pipe("in0", c))
           KI == Open(KI1, in[2], Pipe("in1", c))
           out == NewPipe(KI)
           KO1 == Open(KI, out[1], Pipe("out0", c))
           KO == Open(KO1, out[2], Pipe("out1", c))
           KW == Add(KO, in[2], "WRITE", c)
           KR == Add(KW, out[1], "READ", c)
<1>1. o.kernel \in {KR, KO, KW} /\ o.in = in /\ o.out = out
  <2> HIDE DEF in, KO, KW, KR, out
  <2>1. CreatePipes(K, c) \subseteq
            {[kernel |-> KR, in |-> in, out |-> out, ok |-> TRUE],
             [kernel |-> KO, in |-> in, out |-> out, ok |-> FALSE],
             [kernel |-> KW, in |-> in, out |-> out, ok |-> FALSE]}
    BY Zenon DEF CreatePipes, in, KI, KI1, out, KO1, KO, KW, KR
  <2> QED
    BY <2>1
<1>2. WithPipes(r, o).pipe = [in0 |-> in[1], in1 |-> in[2], out0 |-> out[1], out1 |-> out[2]]
  BY <1>1 DEF WithPipes, Request
<1>3. KO.knote = K.knote
  BY DEF Open
<1>4. in[1] # f /\ in[2] # f
  BY NewPipeUnused
<1>5. KI1 \in KernelState
  BY OpenType, DescriptorType DEF PipeEnd
<1>6. KI \in KernelState
  BY <1>5, OpenType, DescriptorType DEF PipeEnd
<1>7. f \notin Unused(KI)
  BY <1>4 DEF Unused, Open
<1>8. out[1] # f /\ out[2] # f
  BY <1>6, <1>7, NewPipeUnused
<1> HIDE DEF KO, in, out
<1>9. \A k \in Fd \X Filter : KW.knote[k] = IF k = <<in[2], "WRITE">> THEN c ELSE K.knote[k]
  BY <1>3 DEF Add
<1> HIDE DEF KW
<1>10. \A k \in Fd \X Filter : KR.knote[k] = IF k = <<out[1], "READ">> THEN c ELSE KW.knote[k]
  BY DEF Add
<1> HIDE DEF KR
<1>11. \A k \in Fd \X Filter :
          \/ o.kernel.knote[k] = K.knote[k]
          \/ o.kernel.knote[k] = c /\ k \in {<<in[2], "WRITE">>, <<out[1], "READ">>}
  BY <1>1, <1>3, <1>9, <1>10
<1>12. \A g \in Fd : /\ o.kernel.knote[<<g, "READ">>] = K.knote[<<g, "READ">>] \/ g = out[1]
                     /\ o.kernel.knote[<<g, "WRITE">>] = K.knote[<<g, "WRITE">>] \/ g = in[2]
  BY <1>11 DEF Filter
<1>13. \A p \in PipeEnd : WithPipes(r, o).pipe[p] # f
  BY <1>2, <1>4, <1>8 DEF PipeEnd
<1>14. WithPipes(r, o).pipe["out0"] = out[1] /\ WithPipes(r, o).pipe["in1"] = in[2]
  BY <1>2
<1>15. \A k \in Fd \X Filter : o.kernel.knote[k] \in {K.knote[k], c}
  BY <1>11
<1> QED
  BY <1>12, <1>13, <1>14, <1>15

(* With a request that becomes complete or is rejected, its own READ filter*)
(* is gone, and the event in hand was the only one to read for it.         *)
LEMMA CompletedFlow ==
    ASSUME FlowInv, TypeOK', NEW e \in Events, Live(e.udata), ~req[e.udata].done,
           e.filter = "READ", batch' = batch \ {e},
           NEW q, req' = [req EXCEPT ![e.udata] = q],
           \A p \in PipeEnd : q.pipe[p] # q.fd,
           \A g \in Fd : kernel'.knote[<<g, "READ">>] = e.udata => g = q.pipe["out0"],
           \/ q.status # "OK" \/ ~q.isCgi \/ Refused(q)
           \/ \A g \in Fd : kernel'.knote[<<g, "WRITE">>] = e.udata => g = q.pipe["in1"],
           \A k \in Fd \X Filter : kernel'.knote[k] \in {kernel.knote[k], NoConn, e.udata},
           \A f \in Fd : \/ kernel'.desc[f] \in {kernel.desc[f], Closed}
                         \/ kernel'.desc[f].conn = e.udata
    PROVE  \A d \in Conn : FlowOf(d)'
<1> DEFINE c == e.udata
<1>1. c \in Conn /\ e \in Event
  BY DEF FlowInv, PipesOwned, TypeOK, Events, Event
<1>2. \A d \in Conn : req'[d] = IF d = c THEN q ELSE req[d]
  BY DEF FlowInv, PipesOwned, TypeOK
<1>3. Events' \subseteq Events /\ e \notin Events'
  BY DEF Events
<1>4. ASSUME NEW d \in Conn, d # c PROVE FlowOf(d)'
  <2>1. req'[d] = req[d] /\ batch' \subseteq batch
    BY <1>2, <1>4
  <2> QED
    BY <1>1, <1>4, <2>1, OtherFlows
<1>5. \A e2 \in Events' : ~(e2.udata = c /\ e2.filter = "READ")
  <2> SUFFICES ASSUME NEW e2 \in Events', e2.udata = c, e2.filter = "READ" PROVE FALSE
    OBVIOUS
  <2>1. e2.ident = req[c].fd /\ e.ident = req[c].fd
    BY <1>3 DEF FlowInv, ReasonsGiven
  <2> QED
    BY <1>3, <2>1 DEF FlowInv, OneEventEach
<1>6. FlowOf(c)'
  BY <1>1, <1>2, <1>5 DEF FlowOf, Live
<1> QED
  BY <1>4, <1>6

(* closeClient opens and adds nothing.                                     *)
LEMMA CloseClientFlow ==
    ASSUME FlowInv, TypeOK', NEW e \in Events, Live(e.udata), NEW K, OnlyCloses(K), OnlyDrops(K),
           CloseClient(K, e), batch' \subseteq batch
    PROVE  \A d \in Conn : FlowOf(d)'
<1> DEFINE K1 == Close(K, PipeFds(e.udata))
           K2 == IF IsOpen(K1, e.ident) THEN Del(K1, e.ident, "TIMER") ELSE K1
<1>0. e.udata \in Conn
  BY DEF FlowInv, PipesOwned, TypeOK, Events, Event
<1>1. OnlyCloses(K1) /\ OnlyDrops(K1)
  BY OnlyClosesOps, OnlyDropsOps
<1>2. OnlyCloses(K2) /\ OnlyDrops(K2)
  BY <1>1, OnlyClosesOps, OnlyDropsOps
<1>3. kernel' = Close(K2, {e.ident}) /\ Delete(e.udata)
  BY DEF CloseClient
<1> HIDE DEF K2
<1>4. OnlyCloses(kernel') /\ OnlyDrops(kernel')
  BY <1>2, <1>3, OnlyClosesOps, OnlyDropsOps
<1> QED
  BY <1>0, <1>3, <1>4, GoneFlow

(* addFilter for room to answer: the request has failed, or its script's   *)
(* output has been closed. cleanAddFilterFail deletes the Request.         *)
LEMMA AddWriteOrCleanFlow ==
    ASSUME FlowInv, TypeOK', NEW c \in Conn, Live(c), NEW K, OnlyCloses(K), OnlyDrops(K),
           NEW fd, NEW r, AddWriteOrClean(K, fd, c, r), batch' \subseteq batch,
           r.fd = req[c].fd, r.pipe = req[c].pipe, r.done = req[c].done,
           Refused(req[c]) => Refused(r),
           IsOpen(K, fd) =>
              (r.status # "OK" \/ \A f \in Fd : K.desc[f] # Pipe("out0", c))
    PROVE  \A d \in Conn : FlowOf(d)'
<1>1. CASE /\ IsOpen(K, fd) /\ kernel' = Add(K, fd, "WRITE", c)
           /\ req' = [req EXCEPT ![c] = r]
  <2>1. OnlyCloses(kernel')
    BY <1>1, OnlyClosesOps
  <2>2. \A k \in Fd \X Filter : \/ kernel'.knote[k] \in {kernel.knote[k], NoConn}
                                \/ k[2] = "WRITE" /\ kernel'.knote[k] = c
    BY <1>1 DEF Add, OnlyDrops
  <2>3. r.status # "OK" \/ HoldsEnd("out0", c)' = FALSE
    BY <1>1 DEF Add, HoldsEnd, Desc
  <2> QED
    BY <1>1, <2>1, <2>2, <2>3, KeptFlow DEF KeepsStage
<1>2. CASE kernel' = Close(K, PipeFds(c) \cup {fd}) /\ Delete(c)
  BY <1>2, OnlyClosesOps, OnlyDropsOps, GoneFlow
<1> QED
  BY <1>1, <1>2 DEF AddWriteOrClean

(* Parsing leaves the descriptors of a Request alone.                      *)
LEMMA ParsedKeeps ==
    ASSUME NEW s \in Request, NEW r \in Parsed(s)
    PROVE  r.fd = s.fd /\ r.pipe = s.pipe
<1>1. r.fd = s.fd
  BY DEF Parsed, HeaderRead, Request
<1>2. r.pipe = s.pipe
  BY DEF Parsed, HeaderRead, Request
<1> QED
  BY <1>1, <1>2

(* Every handler but those of the last bytes of a request.                 *)
LEMMA HandleKeepsFlow ==
    ASSUME FlowInv, TypeOK', NEW e \in Events, Live(e.udata), Handle(e),
           ~ReceiveLast(e), ~StartDelete(e), ~StartWithoutPipes(e), ~StartScript(e)
    PROVE  \A d \in Conn : FlowOf(d)'
<1> DEFINE c == e.udata
           s == req[c]
<1>1. /\ e \in Event /\ c \in Conn /\ s \in Request /\ s.life = "live"
      /\ req' = [req EXCEPT ![c] = s] <=> req' = req
      /\ kernel \in KernelState /\ batch' \subseteq batch
  BY HandlePeer DEF Events, Event, FlowInv, PipesOwned, TypeOK, Live
<1>2. /\ OnlyDrops(kernel) /\ \A t : OnlyDrops(Del(kernel, e.ident, t))
      /\ OnlyCloses(kernel) /\ \A t : OnlyCloses(Del(kernel, e.ident, t))
  BY OnlyDropsOps, OnlyClosesOps DEF OnlyDrops, OnlyCloses
<1>3. \A q \in CreateResponse(s) \cup Responses(s) :
         q.fd = s.fd /\ q.pipe = s.pipe /\ q.done = s.done /\ q.isCgi = s.isCgi /\ q.status = s.status
  <2>1. \A q \in CreateResponse(s) :
           /\ q \in Request
           /\ q.fd = s.fd /\ q.pipe = s.pipe /\ q.done = s.done /\ q.isCgi = s.isCgi /\ q.status = s.status
    BY <1>1, RequestTypes DEF CreateResponse, Request
  <2> QED
    BY <2>1 DEF Responses, Request
<1>4. ASSUME UNCHANGED req, OnlyCloses(kernel'), OnlyDrops(kernel') PROVE KeepsStage(c, s)
  BY <1>1, <1>4 DEF KeepsStage, OnlyDrops
<1>0. /\ \A q \in Parsed(s) : Refused(s) => Refused(q)
      /\ \A q \in Responses(s) : q.responses # 0 => (Refused(s) => Refused(q))
  BY <1>1, RefusalKept
<1>5. \A st \in Status : LET t == [s EXCEPT !.status = st]
                         IN  /\ t.fd = s.fd /\ t.pipe = s.pipe /\ t.done = s.done /\ t.status = st
                             /\ Refused(s) => Refused(t)
  <2>1. \A st \in Status : [s EXCEPT !.status = st].responses = s.responses
    BY <1>1 DEF Request
  <2>2. \A st \in Status : Refused(s) => Refused([s EXCEPT !.status = st])
    BY <2>1 DEF Refused
  <2> QED
    BY <1>1, <2>2 DEF Request
<1>6. ASSUME ~s.done PROVE ~HoldsEnd("out0", c)
  BY <1>1, <1>6, OutputRemembered DEF FlowInv
<1>7. CASE HandleTimeout(e)
  <2> DEFINE K1 == IF req[c].done THEN kernel ELSE Del(kernel, e.ident, "READ")
             K2 == Close(K1, PipeFds(c))
             st == IF req[c].done THEN "GATEWAY_TIMEOUT" ELSE "REQUEST_TIMEOUT"
             r == [s EXCEPT !.status = st]
  <2>1. OnlyDrops(K2) /\ OnlyCloses(K2)
    BY <1>2, OnlyDropsOps, OnlyClosesOps
  <2>2. st \in Status /\ st # "OK"
    BY DEF Status
  <2>3. /\ r.fd = s.fd /\ r.pipe = s.pipe /\ r.done = s.done /\ r.status # "OK"
        /\ Refused(s) => Refused(r)
    <3> HIDE DEF st
    <3> QED
      BY <1>5, <2>2
  <2>4. \/ /\ kernel' \in {Add(K2, e.ident, "WRITE", c), K2}
           /\ req' = [req EXCEPT ![c] = r]
        \/ kernel' = Close(K2, {e.ident}) /\ Delete(c)
    <3> HIDE DEF K2
    <3> QED
      BY <1>7 DEF HandleTimeout, K2
  <2> HIDE DEF K2, r
  <2>5. CASE /\ kernel' \in {Add(K2, e.ident, "WRITE", c), K2}
             /\ req' = [req EXCEPT ![c] = r]
    <3>1. OnlyCloses(kernel')
      BY <2>1, <2>5, OnlyClosesOps
    <3>2. \A k \in Fd \X Filter : \/ kernel'.knote[k] \in {kernel.knote[k], NoConn}
                                  \/ k[2] = "WRITE" /\ kernel'.knote[k] = c
      BY <2>1, <2>5 DEF Add, OnlyDrops
    <3> QED
      BY <1>1, <2>3, <2>5, <3>1, <3>2, KeptFlow DEF KeepsStage
  <2>6. CASE kernel' = Close(K2, {e.ident}) /\ Delete(c)
    BY <1>1, <2>1, <2>6, OnlyDropsOps, OnlyClosesOps, GoneFlow
  <2> QED
    BY <2>4, <2>5, <2>6
<1>8. CASE PipeEof(e)
  <2> DEFINE K == Close(Del(kernel, e.ident, "READ"), {e.ident})
  <2>1. OnlyDrops(K) /\ OnlyCloses(K)
    BY <1>2, OnlyDropsOps, OnlyClosesOps
  <2>2. AddWriteOrClean(K, s.fd, c, s) /\ e.filter = "READ"
    BY <1>8 DEF PipeEof, Handling
  <2>3. IsOpen(K, s.fd) => \A f \in Fd : K.desc[f] # Pipe("out0", c)
    <3>1. SUFFICES ASSUME IsOpen(K, s.fd), NEW f \in Fd, K.desc[f] = Pipe("out0", c)
                   PROVE  FALSE
      OBVIOUS
    <3>2. Desc(f) = Pipe("out0", c) /\ f # e.ident
      BY <3>1 DEF Desc, Close, Del, Add, Closed, Pipe
    <3>3. s.done /\ s.pipe["out0"] = f
      BY <1>1, <3>2, OutputRemembered DEF HoldsEnd, FlowInv
    <3>4. e.ident = s.pipe["out0"]
      BY <1>1, <2>2, <3>3 DEF FlowInv, FlowOf
    <3> QED
      BY <3>2, <3>3, <3>4
  <2> HIDE DEF K
  <2> QED
    BY <1>1, <2>1, <2>2, <2>3, AddWriteOrCleanFlow
<1>9. CASE ClientEof(e) \/ WriteEof(e) \/ SendAll(e) \/ SendFailed(e)
  BY <1>1, <1>2, <1>9, CloseClientFlow DEF ClientEof, WriteEof, SendAll, SendFailed
<1>10. CASE RecvFailed(e)
  <2>1. OnlyDrops(Del(Del(kernel, e.ident, "READ"), e.ident, "TIMER"))
    BY <1>2, OnlyDropsOps
  <2>2. OnlyCloses(Del(Del(kernel, e.ident, "READ"), e.ident, "TIMER"))
    BY <1>2, OnlyClosesOps
  <2> QED
    BY <1>1, <1>10, <2>1, <2>2, CloseClientFlow DEF RecvFailed
<1>11. CASE ReadPipe(e) \/ HeaderBreaks(e) \/ WritePipePart(e) \/ Killed(e)
  <2>1. UNCHANGED <<kernel, req>>
    BY <1>11 DEF ReadPipe, HeaderBreaks, WritePipePart, Killed
  <2> QED
    BY <1>1, <1>2, <1>4, <2>1, KeptFlow
<1>12. CASE WritePipeAll(e)
  <2>1. kernel' = Close(Del(kernel, e.ident, "WRITE"), {e.ident}) /\ UNCHANGED req
    BY <1>12 DEF WritePipeAll
  <2>2. OnlyCloses(kernel') /\ OnlyDrops(kernel')
    BY <1>2, <2>1, OnlyDropsOps, OnlyClosesOps
  <2> QED
    BY <1>1, <1>4, <2>1, <2>2, KeptFlow
<1>13. CASE ReadPipeFailed(e)
  <2>1. AddWriteOrClean(Del(kernel, e.ident, "READ"), s.fd, c, [s EXCEPT !.status = "ERROR"])
    BY <1>13 DEF ReadPipeFailed
  <2>2. "ERROR" \in Status
    BY DEF Status
  <2> QED
    BY <1>1, <1>2, <1>5, <2>1, <2>2, AddWriteOrCleanFlow
<1>14. CASE ReceiveMore(e)
  <2>1. PICK r \in Parsed(s) :
           /\ ~s.done /\ ~r.done
           /\ req' = [req EXCEPT ![c] = r] /\ UNCHANGED kernel
    BY <1>14 DEF ReceiveMore, Received
  <2>2. r.fd = s.fd /\ r.pipe = s.pipe /\ r.done = s.done
    <3>1. r.done \in BOOLEAN
      BY <1>1, RequestTypes DEF Request
    <3>2. r.fd = s.fd /\ r.pipe = s.pipe
      BY <1>1, <2>1, ParsedKeeps
    <3> QED
      BY <1>1, <2>1, <3>1, <3>2 DEF Request
  <2>3. HoldsEnd("out0", c)' = FALSE
    BY <1>6, <2>1 DEF HoldsEnd, Desc
  <2>4. KeepsStage(c, r)
    BY <1>0, <1>2, <2>1, <2>2, <2>3 DEF KeepsStage, OnlyDrops, OnlyCloses
  <2> QED
    BY <1>1, <2>4, KeptFlow
<1>15. CASE WritePipeFailed(e)
  <2> DEFINE t == [s EXCEPT !.status = "ERROR"]
  <2>1. PICK r \in CreateResponse(t) :
           AddWriteOrClean(Del(kernel, e.ident, "WRITE"), s.fd, c, r)
    BY <1>15 DEF WritePipeFailed
  <2>2. t \in Request /\ t.fd = s.fd /\ t.pipe = s.pipe /\ t.done = s.done /\ t.status = "ERROR"
    BY <1>1 DEF Request, Status
  <2>4. t.responses = s.responses
    BY <1>1 DEF Request
  <2> HIDE DEF t
  <2>5. Refused(s) => Refused(r)
    <3>1. Refused(s) => Refused(t)
      BY <2>4 DEF Refused
    <3> QED
      BY <2>1, <2>2, <3>1, RefusalKept
  <2>3. /\ r.fd = s.fd /\ r.pipe = s.pipe /\ r.done = s.done /\ r.status # "OK"
        /\ Refused(s) => Refused(r)
    BY <2>1, <2>2, <2>5 DEF CreateResponse, Request
  <2> QED
    BY <1>1, <1>2, <2>1, <2>3, AddWriteOrCleanFlow
<1>16. CASE SendPart(e)
  <2>1. PICK r \in Responses(s) :
           r.responses # 0 /\ req' = [req EXCEPT ![c] = r] /\ UNCHANGED kernel
    BY <1>16 DEF SendPart
  <2>2. KeepsStage(c, r)
    BY <1>0, <1>2, <1>3, <2>1 DEF KeepsStage, OnlyDrops, OnlyCloses
  <2> QED
    BY <1>1, <2>2, KeptFlow
<1> QED
  BY <1>7, <1>8, <1>9, <1>10, <1>11, <1>12, <1>13, <1>14, <1>15, <1>16
     DEF Handle, ReadRequest, SendResponse

(* The last bytes of a request: its READ filter goes before anything is    *)
(* added, and the pipes of its script are numbers its socket has not.      *)
LEMMA LastBytesFlow ==
    ASSUME FlowInv, TypeOK', NEW e \in Events, Live(e.udata),
           ReceiveLast(e) \/ StartDelete(e) \/ StartWithoutPipes(e) \/ StartScript(e)
    PROVE  \A d \in Conn : FlowOf(d)'
<1> DEFINE c == e.udata
           s == req[c]
           K == Del(kernel, e.ident, "READ")
<1>1. /\ e \in Event /\ c \in Conn /\ s \in Request /\ s.life = "live" /\ s.fd \in Fd
      /\ kernel \in KernelState /\ K \in KernelState
  BY DelType DEF Events, Event, FlowInv, ReasonsGiven, PipesOwned, TypeOK, Live
<1>2. PICK r \in Parsed(s) : /\ Received(e, r)
                            /\ \/ Answerable(r) /\ AddWriteOrClean(K, e.ident, c, r)
                               \/ StartsCgi(r) /\ StartDelete(e)
                                     /\ kernel' = K /\ req' = [req EXCEPT ![c] = r]
                               \/ StartsCgi(r) /\ \E o \in CreatePipes(K, c) :
                                     \/ /\ kernel' = o.kernel
                                        /\ req' = [req EXCEPT ![c] =
                                              [WithPipes(r, o) EXCEPT !.status = "ERROR", !.isCgi = FALSE]]
                                     \/ /\ kernel' \in {o.kernel, Close(o.kernel, {o.out[2], o.in[1]})}
                                        /\ req' = [req EXCEPT ![c] = WithPipes(r, o)]
  <2>1. CASE ReceiveLast(e)
    BY <2>1 DEF ReceiveLast
  <2>2. CASE StartDelete(e)
    BY <2>2 DEF StartDelete
  <2>3. CASE StartWithoutPipes(e)
    BY <2>3, Zenon DEF StartWithoutPipes
  <2>4. CASE StartScript(e)
    <3>1. PICK r \in Parsed(s), o \in CreatePipes(K, c) :
             /\ Received(e, r) /\ StartsCgi(r)
             /\ kernel' \in {o.kernel, Close(o.kernel, {o.out[2], o.in[1]})}
             /\ req' = [req EXCEPT ![c] = WithPipes(r, o)]
      BY <2>4 DEF StartScript
    <3> QED
      BY <3>1
  <2> QED
    BY <2>1, <2>2, <2>3, <2>4
<1>3. /\ e.filter = "READ" /\ batch' = batch \ {e} /\ ~s.done
      /\ e.ident = s.fd /\ s.fd \notin Unused(K)
  <2>1. /\ e.filter = "READ" /\ batch' = batch \ {e} /\ ~s.done /\ e.ident = s.fd
        /\ IsOpen(kernel, e.ident)
    BY <1>2 DEF Received, ReadEvent, Handling, OnClient, ReadSucceeds
  <2> QED
    BY <2>1 DEF Unused, IsOpen, Del, Add
<1>4. r \in Request /\ r.fd = s.fd /\ r.pipe = s.pipe
  BY <1>1, RequestTypes, ParsedKeeps
<1>5. /\ \A g \in Fd : K.knote[<<g, "READ">>] # c
      /\ \A k \in Fd \X Filter : K.knote[k] \in {kernel.knote[k], NoConn}
      /\ K.desc = kernel.desc
  <2>1. \A k \in Fd \X Filter : K.knote[k] = IF k = <<s.fd, "READ">> THEN NoConn ELSE kernel.knote[k]
    BY <1>3 DEF Del, Add
  <2>2. \A g \in Fd : kernel.knote[<<g, "READ">>] = c => g = s.fd
    BY <1>1, <1>3 DEF FlowInv, ReasonsGiven, Live
  <2>3. \A g \in Fd : <<g, "READ">> \in Fd \X Filter
    BY DEF Filter
  <2>4. c # NoConn
    BY <1>1, NoConnAssumption
  <2>5. K.desc = kernel.desc
    BY DEF Del, Add
  <2>6. \A k \in Fd \X Filter : K.knote[k] \in {kernel.knote[k], NoConn}
    BY <2>1
  <2> QED
    BY <2>1, <2>2, <2>3, <2>4, <2>5, <2>6
<1>6. StartsCgi(r) => Refused(r) \/ \A g \in Fd : K.knote[<<g, "WRITE">>] # c
  <2>1. \A g \in Fd : <<g, "WRITE">> \in Fd \X Filter
    BY DEF Filter
  <2>2. c # NoConn
    BY <1>1, NoConnAssumption
  <2>3. StartsCgi(r) => Refused(r) \/ ~HasReason(s)
    <3>1. Follows(s, r)
      BY <1>1, <1>3, ReasonsKept
    <3> QED
      BY <1>3, <3>1 DEF StartsCgi, Answerable, HasReason, Follows
  <2>4. StartsCgi(r) => Refused(r) \/ \A g \in Fd : kernel.knote[<<g, "WRITE">>] # c
    BY <1>1, <2>3 DEF FlowInv, ReasonsGiven, Live
  <2> QED
    BY <1>5, <2>1, <2>2, <2>4
<1>7. \A p \in PipeEnd : s.pipe[p] # s.fd
  <2>1. s.pipe = NoPipes
    BY <1>1, <1>3 DEF FlowInv, PipesOwned
  <2> QED
    BY <1>1, <2>1, MaxFdAssumption DEF NoPipes, Fd, NoFd
<1>8. CASE Answerable(r) /\ AddWriteOrClean(K, e.ident, c, r)
  <2>1. CASE /\ kernel' = Add(K, e.ident, "WRITE", c)
             /\ req' = [req EXCEPT ![c] = r]
    <3>1. \A k \in Fd \X Filter : kernel'.knote[k] = IF k = <<e.ident, "WRITE">> THEN c ELSE K.knote[k]
      BY <2>1 DEF Add
    <3>2. kernel'.desc = kernel.desc
      BY <1>5, <2>1 DEF Add
    <3>3. \A g \in Fd : <<g, "READ">> \in Fd \X Filter
      BY DEF Filter
    <3>4. \A g \in Fd : kernel'.knote[<<g, "READ">>] # c
      BY <1>5, <3>1, <3>3
    <3>5. \A k \in Fd \X Filter : kernel'.knote[k] \in {kernel.knote[k], NoConn, c}
      BY <1>5, <3>1
    <3>6. r.status # "OK" \/ ~r.isCgi
      BY <1>8 DEF Answerable
    <3> QED
      BY <1>3, <1>4, <1>7, <2>1, <3>2, <3>4, <3>5, <3>6, CompletedFlow
  <2>2. CASE kernel' = Close(K, PipeFds(c) \cup {e.ident}) /\ Delete(c)
    <3>1. OnlyCloses(K) /\ OnlyDrops(K)
      BY <1>5 DEF OnlyCloses, OnlyDrops
    <3>2. OnlyCloses(kernel') /\ OnlyDrops(kernel')
      BY <2>2, <3>1, OnlyClosesOps, OnlyDropsOps
    <3> QED
      BY <1>1, <1>3, <2>2, <3>2, GoneFlow
  <2> QED
    BY <1>8, <2>1, <2>2 DEF AddWriteOrClean
<1>9. CASE StartsCgi(r) /\ kernel' = K /\ req' = [req EXCEPT ![c] = r]
  BY <1>3, <1>4, <1>5, <1>6, <1>7, <1>9, CompletedFlow
<1>10. ASSUME StartsCgi(r), NEW o \in CreatePipes(K, c),
              NEW q, q.fd = s.fd, q.pipe = WithPipes(r, o).pipe, Refused(r) => Refused(q),
              req' = [req EXCEPT ![c] = q],
              kernel' \in {o.kernel, Close(o.kernel, {o.out[2], o.in[1]})}
       PROVE  \A d \in Conn : FlowOf(d)'
  <2>1. /\ \A p \in PipeEnd : q.pipe[p] # q.fd
        /\ \A g \in Fd : o.kernel.knote[<<g, "READ">>] = K.knote[<<g, "READ">>] \/ g = q.pipe["out0"]
        /\ \A g \in Fd : o.kernel.knote[<<g, "WRITE">>] = K.knote[<<g, "WRITE">>] \/ g = q.pipe["in1"]
        /\ \A k \in Fd \X Filter : o.kernel.knote[k] \in {K.knote[k], c}
    <3>1. q.fd = s.fd /\ q.pipe = WithPipes(r, o).pipe /\ o \in CreatePipes(K, c)
      BY <1>10
    <3> HIDE DEF K
    <3>2. /\ \A p \in PipeEnd : WithPipes(r, o).pipe[p] # s.fd
          /\ \A g \in Fd : \/ o.kernel.knote[<<g, "READ">>] = K.knote[<<g, "READ">>]
                           \/ g = WithPipes(r, o).pipe["out0"]
          /\ \A g \in Fd : \/ o.kernel.knote[<<g, "WRITE">>] = K.knote[<<g, "WRITE">>]
                           \/ g = WithPipes(r, o).pipe["in1"]
          /\ \A k \in Fd \X Filter : o.kernel.knote[k] \in {K.knote[k], c}
      BY <1>1, <1>3, <1>4, <3>1, CreatePipesFilters
    <3> QED
      BY <3>1, <3>2
  <2>2. \A k \in Fd \X Filter : kernel'.knote[k] \in {o.kernel.knote[k], NoConn}
    BY <1>10 DEF Close
  <2>3. \A f \in Fd : kernel'.desc[f] \in {o.kernel.desc[f], Closed}
    BY <1>10 DEF Close
  <2>4. \A f \in Fd : o.kernel.desc[f] = K.desc[f] \/ o.kernel.desc[f].conn = c
    <3> HIDE DEF K
    <3>1. \A f \in Fd : \/ o.kernel.desc[f] = K.desc[f]
                        \/ \E end \in PipeEnd : o.kernel.desc[f] = Pipe(end, c)
      BY <1>1, <1>4, CreatePipesRemembered
    <3>2. \A end \in PipeEnd : Pipe(end, c).conn = c
      BY DEF Pipe
    <3> QED
      BY <3>1, <3>2
  <2>5. \A f \in Fd : \/ kernel'.desc[f] \in {kernel.desc[f], Closed}
                      \/ kernel'.desc[f].conn = c
    BY <1>5, <2>3, <2>4
  <2>6. \A k \in Fd \X Filter : kernel'.knote[k] \in {kernel.knote[k], NoConn, c}
    BY <1>5, <2>1, <2>2
  <2>7. c # NoConn /\ \A g \in Fd : <<g, "READ">> \in Fd \X Filter /\ <<g, "WRITE">> \in Fd \X Filter
    BY <1>1, NoConnAssumption DEF Filter
  <2>8. \A g \in Fd : kernel'.knote[<<g, "READ">>] = c => g = q.pipe["out0"]
    BY <1>5, <2>1, <2>2, <2>7
  <2>9. Refused(q) \/ \A g \in Fd : kernel'.knote[<<g, "WRITE">>] = c => g = q.pipe["in1"]
    BY <1>6, <1>10, <2>1, <2>2, <2>7
  <2> QED
    BY <1>3, <1>10, <2>1, <2>5, <2>6, <2>8, <2>9, CompletedFlow
<1>11. CASE StartsCgi(r) /\ \E o \in CreatePipes(K, c) :
               \/ /\ kernel' = o.kernel
                  /\ req' = [req EXCEPT ![c] =
                        [WithPipes(r, o) EXCEPT !.status = "ERROR", !.isCgi = FALSE]]
               \/ /\ kernel' \in {o.kernel, Close(o.kernel, {o.out[2], o.in[1]})}
                  /\ req' = [req EXCEPT ![c] = WithPipes(r, o)]
  <2>1. PICK o \in CreatePipes(K, c) :
               \/ /\ kernel' = o.kernel
                  /\ req' = [req EXCEPT ![c] =
                        [WithPipes(r, o) EXCEPT !.status = "ERROR", !.isCgi = FALSE]]
               \/ /\ kernel' \in {o.kernel, Close(o.kernel, {o.out[2], o.in[1]})}
                  /\ req' = [req EXCEPT ![c] = WithPipes(r, o)]
    BY <1>11
  <2> DEFINE q1 == WithPipes(r, o)
             q2 == [q1 EXCEPT !.status = "ERROR", !.isCgi = FALSE]
  <2>2. q1.fd = s.fd /\ q2.fd = s.fd /\ q2.pipe = q1.pipe
    BY <1>4 DEF WithPipes, Request
  <2>5. q1.responses = r.responses /\ q2.responses = r.responses
    BY <1>4 DEF WithPipes, Request
  <2>6. (Refused(r) => Refused(q1)) /\ (Refused(r) => Refused(q2))
    <3> HIDE DEF q1, q2
    <3> QED
      BY <2>5 DEF Refused
  <2>3. kernel' \in {o.kernel, Close(o.kernel, {o.out[2], o.in[1]})}
    BY <2>1
  <2>4. req' = [req EXCEPT ![c] = q1] \/ req' = [req EXCEPT ![c] = q2]
    BY <2>1
  <2> HIDE DEF q2
  <2> QED
    BY <1>10, <1>11, <2>2, <2>3, <2>4, <2>6
<1> QED
  BY <1>2, <1>8, <1>9, <1>11

(* A connection that is accepted is not complete.                          *)
LEMMA NewClientFlow ==
    FlowInv /\ NewClient => OneEventEach' /\ \A d \in Conn : FlowOf(d)'
<1> SUFFICES ASSUME FlowInv, NewClient
             PROVE  OneEventEach' /\ \A d \in Conn : FlowOf(d)'
  OBVIOUS
<1>1. Events' \subseteq Events /\ batch' \subseteq batch
  BY DEF NewClient, ListenEvent, AcceptDone, AcceptOne, AcceptFault, AcceptVars, Events
<1>2. OneEventEach'
  BY <1>1 DEF FlowInv, OneEventEach
<1>3. CASE ListenEvent \/ AcceptDone
  <2>1. UNCHANGED <<kernel, req>>
    BY <1>3 DEF ListenEvent, AcceptDone, AcceptVars
  <2> QED
    BY <1>1, <1>2, <2>1 DEF FlowInv, FlowOf, Live, HoldsEnd, Desc
<1>4. ASSUME NEW c \in Conn, AcceptOne(c) \/ AcceptFault(c) PROVE \A d \in Conn : FlowOf(d)'
  <2>1. PICK f, r : AcceptedOn(c, f, r)
    BY <1>4, AcceptedFilters
  <2>2. \A d \in Conn : req'[d] = IF d = c THEN r ELSE req[d]
    BY <2>1 DEF AcceptedOn, FlowInv, PipesOwned, TypeOK
  <2>3. ~r.isCgi /\ ~r.done
    BY <2>1 DEF AcceptedOn, NewRequest, Freed
  <2>4. FlowOf(c)'
    BY <2>2, <2>3 DEF FlowOf
  <2>5. \A k \in Fd \X Filter : kernel'.knote[k] \in {kernel.knote[k], NoConn, c}
    BY <2>1 DEF AcceptedOn
  <2>6. \A g \in Fd : kernel'.desc[g] \in {kernel.desc[g], Closed} \/ kernel'.desc[g].conn = c
    BY <2>1 DEF AcceptedOn, Sock
  <2>7. ASSUME NEW d \in Conn, d # c PROVE FlowOf(d)'
    BY <1>1, <2>2, <2>5, <2>6, <2>7, OtherFlows
  <2> QED
    BY <2>4, <2>7
<1> QED
  BY <1>2, <1>3, <1>4 DEF NewClient

(* kevent reports each filter once, with what the filter says.             *)
LEMMA KeventFlow == FlowInv /\ Kevent => OneEventEach' /\ \A d \in Conn : FlowOf(d)'
<1> SUFFICES ASSUME FlowInv, Kevent PROVE OneEventEach' /\ \A d \in Conn : FlowOf(d)'
  OBVIOUS
<1>1. UNCHANGED <<kernel, req>>
  BY DEF Kevent, KeventVars
<1>2. ASSUME NEW e \in Events'
      PROVE  \E k \in Registered(kernel) : e = Reported(k)
  <2>1. PICK S \in SUBSET Possible, L \in SUBSET ListenPending :
           batch' = {Reported(k) : k \in S} \cup L
    BY DEF Kevent
  <2>2. S \subseteq Registered(kernel) /\ L \subseteq {ListenReady}
    BY DEF Possible, Pending, ListenPending
  <2> QED
    BY <1>2, <2>1, <2>2 DEF Events
<1>3. \A k \in Registered(kernel) :
         /\ k = <<k[1], k[2]>> /\ k[1] \in Fd
         /\ Reported(k).ident = k[1] /\ Reported(k).filter = k[2]
         /\ Reported(k).udata = kernel.knote[k]
  BY DEF Registered, Reported
<1>4. OneEventEach'
  <2> SUFFICES ASSUME NEW e1 \in Events', NEW e2 \in Events',
                      e1.ident = e2.ident, e1.filter = e2.filter
               PROVE  e1 = e2
    BY DEF OneEventEach
  <2>1. PICK k1 \in Registered(kernel) : e1 = Reported(k1)
    BY <1>2
  <2>2. PICK k2 \in Registered(kernel) : e2 = Reported(k2)
    BY <1>2
  <2> QED
    BY <1>3, <2>1, <2>2
<1>5. ASSUME NEW e \in Events', e.filter = "READ"
      PROVE  e.ident \in Fd /\ kernel.knote[<<e.ident, "READ">>] = e.udata
  <2>1. PICK k \in Registered(kernel) : e = Reported(k)
    BY <1>2
  <2> QED
    BY <1>3, <1>5, <2>1
<1>6. ASSUME NEW d \in Conn PROVE FlowOf(d)'
  <2>1. FlowOf(d)
    BY DEF FlowInv
  <2> QED
    BY <1>1, <1>5, <2>1 DEF FlowOf, Live, HoldsEnd, Desc
<1> QED
  BY <1>4, <1>6

(* Every step keeps the flow of the scripts.                               *)
LEMMA FlowNext == FlowInv /\ [Next]_vars => FlowInv'
<1> SUFFICES ASSUME FlowInv, [Next]_vars PROVE FlowInv'
  OBVIOUS
<1>0. PipesOwned' /\ ReasonsGiven' /\ TypeOK /\ TypeOK'
  BY PipesOwnedNext, ReasonsNext, TypeNext DEF FlowInv, PipesOwned
<1>1. CASE Environment
  <2>1. UNCHANGED <<kernel, req, batch>>
    BY <1>1 DEF Environment, Connect, Send, Disconnect, ChildOutput, ChildExit, World
  <2> QED
    BY <1>0, <2>1 DEF FlowInv, FlowOf, OneEventEach, Events, Live, HoldsEnd, Desc
<1>2. CASE NewClient
  BY <1>0, <1>2, NewClientFlow DEF FlowInv
<1>3. CASE Kevent
  BY <1>0, <1>3, KeventFlow DEF FlowInv
<1>4. ASSUME NEW e \in Events, Live(e.udata), Handle(e) PROVE FlowInv'
  <2>1. OneEventEach'
    <3>1. Events' \subseteq Events
      BY <1>4, HandlePeer DEF Events
    <3> QED
      BY <3>1 DEF FlowInv, OneEventEach
  <2>2. \A d \in Conn : FlowOf(d)'
    BY <1>0, <1>4, HandleKeepsFlow, LastBytesFlow
  <2> QED
    BY <1>0, <2>1, <2>2 DEF FlowInv
<1>5. CASE Interrupted \/ (\E e \in Events : TouchFreed(e)) \/ UNCHANGED vars
  <2>1. UNCHANGED <<kernel, req>> /\ Events' \subseteq Events
    BY <1>5 DEF Interrupted, KeventVars, TouchFreed, vars, Events
  <2> QED
    BY <1>0, <2>1 DEF FlowInv, FlowOf, OneEventEach, Live, HoldsEnd, Desc
<1> QED
  BY <1>1, <1>2, <1>3, <1>4, <1>5 DEF Next, RunServer, Events

(* The flow of the scripts is kept by every run.                           *)
LEMMA FlowKept == Spec => []FlowInv
<1>1. Init => FlowInv
  BY TypeInit DEF Init, FlowInv, FlowOf, OneEventEach, PipesOwned, NoPipeLeak, ReasonsGiven,
                  EmptyKernel, Unborn, NewRequest, Events, Registered, Live, Desc, Closed, PipeEnd
<1> QED
  BY <1>1, FlowNext, PTL DEF Spec

(* In every deployment the output of a script becomes a response only after*)
(* the server has met the end of it: of all that adds a filter to answer a *)
(* CGI request, only the branch for a pipe's end of file does so without a *)
(* failure, and the pipe it closes is the one the output comes from.       *)
THEOREM OutputBeforeAnswer == Spec => []AnswerAfterOutput
<1>1. FlowInv => AnswerAfterOutput
  <2> SUFFICES ASSUME FlowInv, NEW c \in Conn, Answering(c), req[c].isCgi, req[c].status = "OK",
                      HoldsEnd("out0", c), ~Refused(req[c])
               PROVE  FALSE
    BY DEF AnswerAfterOutput
  <2>1. Live(c) /\ req[c].fd \in Fd /\ kernel.knote[<<req[c].fd, "WRITE">>] = c
    BY DEF Answering, FlowInv, ReasonsGiven
  <2>2. req[c].done
    BY OutputRemembered DEF FlowInv
  <2> QED
    BY <2>1, <2>2 DEF FlowInv, FlowOf, PipeEnd
<1> QED
  BY <1>1, FlowKept, PTL

(* Nor is a client read from any more once its request is complete, with a *)
(* script running for it or not: what is left to read is the script's.     *)
THEOREM NothingReadWhenDone == Spec => []NotReadWhenDone
<1>1. FlowInv => NotReadWhenDone
  <2> SUFFICES ASSUME FlowInv, NEW c \in Conn, Live(c), req[c].done,
                      kernel.knote[<<req[c].fd, "READ">>] = c
               PROVE  FALSE
    BY DEF NotReadWhenDone
  <2>1. req[c].fd \in Fd
    BY DEF FlowInv, ReasonsGiven
  <2> QED
    BY <2>1 DEF FlowInv, FlowOf, PipeEnd
<1> QED
  BY <1>1, FlowKept, PTL

(* And no event to read from it, collected before the last bytes came, is  *)
(* still in the batch: readRequest never parses into a complete request,   *)
(* so that Received need not say what would become of it.                  *)
THEOREM NothingLeftBehind == Spec => []NothingLeftToRead
<1>1. FlowInv => NothingLeftToRead
  <2> SUFFICES ASSUME FlowInv, NEW e \in Events, e.filter = "READ", Live(e.udata),
                      req[e.udata].done, e.ident = req[e.udata].fd
               PROVE  FALSE
    BY DEF NothingLeftToRead
  <2>1. e.udata \in Conn
    BY DEF FlowInv, PipesOwned, TypeOK, Events, Event
  <2> QED
    BY <2>1 DEF FlowInv, FlowOf, PipeEnd
<1> QED
  BY <1>1, FlowKept, PTL
================================================================================
