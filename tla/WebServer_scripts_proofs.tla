------------------------ MODULE WebServer_scripts_proofs ------------------------
(***************************************************************************)
(* The event loop with CGI scripts and failing system calls: what becomes  *)
(* of scripts and pipes, and when the server begins to answer, whatever the*)
(* number of connections, descriptors and events per batch.                *)
(***************************************************************************)
EXTENDS WebServer_proofs

-----------------------------------------------------------------------------
(* Scripts                                                                  *)

(* A Request that is not there yet has no script, one that was deleted has *)
(* none that was not told to stop.                                         *)
ScriptsOwned ==
    /\ TypeOK
    /\ \A c \in Conn : peer[c] \in {"away", "queued"} => req[c].life = "unborn"
    /\ \A c \in Conn : req[c].life = "unborn" => child[c] = "none"
    /\ NoOrphanScript

(* What a handler of c may do to it: c stays, or it goes and its script is *)
(* told to stop.                                                           *)
Stays(c) == req' = [req EXCEPT ![c] = req'[c]] /\ req'[c].life = "live"
Goes(c) == Delete(c) /\ Kill(c)
OnlyOf(c) ==
    \/ Stays(c) /\ \A d \in Conn : d # c => child'[d] = child[d]
    \/ Goes(c)

(* Such a handler leaves no script without its Request.                    *)
LEMMA HandlerOwnsScript ==
    ASSUME ScriptsOwned, TypeOK', NEW c \in Conn, Live(c), OnlyOf(c), UNCHANGED peer
    PROVE  ScriptsOwned'
<1>1. CASE Stays(c) /\ \A d \in Conn : d # c => child'[d] = child[d]
  <2>1. \A d \in Conn : d # c => req'[d] = req[d]
    BY <1>1 DEF Stays, ScriptsOwned, TypeOK
  <2> QED
    BY <1>1, <2>1 DEF Stays, Live, ScriptsOwned, NoOrphanScript
<1>2. CASE Goes(c)
  BY <1>2 DEF Goes, Delete, Kill, Live, Freed, NewRequest, ScriptsOwned, NoOrphanScript, TypeOK
<1> QED
  BY <1>1, <1>2 DEF OnlyOf

(* Reading, answering and remembering pipes neither create nor delete a    *)
(* Request.                                                                *)
LEMMA LifeKept ==
    ASSUME NEW r \in Request, r.life = "live"
    PROVE  /\ \A s \in Parsed(r) \cup CreateResponse(r) \cup Responses(r) : s.life = "live"
           /\ \A o : WithPipes(r, o).life = "live"
           /\ \A s \in Status : [r EXCEPT !.status = s].life = "live"
<1>1. \A s \in Parsed(r) : s.life = "live"
  BY DEF Parsed, HeaderRead, Request
<1>2. \A s \in CreateResponse(r) : s.life = "live"
  BY DEF CreateResponse, Request
<1>3. \A s \in CreateResponse(r) : [s EXCEPT !.responseDone = TRUE].life = "live"
  BY <1>2, RequestTypes DEF Request
<1>4. \A s \in Responses(r) : s.life = "live"
  BY <1>3 DEF Responses
<1> QED
  BY <1>1, <1>2, <1>4 DEF WithPipes, Request

(* Nobody but the handlers of c touches its script, and a script is never  *)
(* started by its own end.                                                 *)
LEMMA EnvironmentScripts == ScriptsOwned /\ Environment => ScriptsOwned'
<1> SUFFICES ASSUME ScriptsOwned, NEW c \in Conn,
                    Connect(c) \/ Send(c) \/ Disconnect(c) \/ ChildOutput(c) \/ ChildExit(c)
             PROVE  /\ \A d \in Conn : peer'[d] \in {"away", "queued"} => req'[d].life = "unborn"
                    /\ \A d \in Conn : req'[d].life = "unborn" => child'[d] = "none"
                    /\ NoOrphanScript'
  BY EnvironmentType DEF Environment, ScriptsOwned
<1>1. CASE Connect(c) \/ Send(c) \/ Disconnect(c) \/ ChildOutput(c)
  BY <1>1 DEF Connect, Send, Disconnect, ChildOutput, World, ScriptsOwned, NoOrphanScript, TypeOK
<1>2. CASE ChildExit(c)
  BY <1>2 DEF ChildExit, Scripting, World, ScriptsOwned, NoOrphanScript, TypeOK
<1> QED
  BY <1>1, <1>2

(* A connection has no script before it is accepted.                       *)
LEMMA NewClientScripts == ScriptsOwned /\ NewClient => ScriptsOwned'
<1> SUFFICES ASSUME ScriptsOwned, NewClient PROVE ScriptsOwned'
  OBVIOUS
<1>0. TypeOK'
  BY NewClientType DEF ScriptsOwned
<1>1. CASE ListenEvent \/ AcceptDone
  BY <1>0, <1>1 DEF ListenEvent, AcceptDone, AcceptVars, ScriptsOwned, NoOrphanScript
<1>2. ASSUME NEW c \in Conn, AcceptOne(c) \/ AcceptFault(c)
      PROVE  ScriptsOwned'
  <2>1. \E f \in Fd :
           /\ Accept(c, f)
           /\ UNCHANGED child
           /\ \E r \in {NewRequest(f), [NewRequest(f) EXCEPT !.responses = 1], Freed} :
                 req' = [req EXCEPT ![c] = r]
    <3>1. CASE AcceptOne(c)
      BY <3>1 DEF AcceptOne, AcceptVars
    <3>2. CASE AcceptFault(c)
      BY <3>2, Zenon DEF AcceptFault, AcceptVars
    <3> QED
      BY <1>2, <3>1, <3>2
  <2>2. PICK f \in Fd :
           /\ Accept(c, f)
           /\ UNCHANGED child
           /\ \E r \in {NewRequest(f), [NewRequest(f) EXCEPT !.responses = 1], Freed} :
                 req' = [req EXCEPT ![c] = r]
    BY <2>1
  <2>5. PICK r \in {NewRequest(f), [NewRequest(f) EXCEPT !.responses = 1], Freed} :
           req' = [req EXCEPT ![c] = r]
    BY <2>2
  <2>3. r.life \in {"live", "freed"}
    BY <2>5 DEF NewRequest, Freed
  <2>4. child[c] = "none" /\ peer' = [peer EXCEPT ![c] = "open"]
    BY <2>2 DEF Accept, AcceptQueue, ScriptsOwned
  <2> QED
    BY <1>0, <2>2, <2>5, <2>3, <2>4 DEF ScriptsOwned, NoOrphanScript, TypeOK
<1> QED
  BY <1>1, <1>2 DEF NewClient

(* A handler takes its event from the batch and leaves the clients alone.  *)
LEMMA HandlePeer == ASSUME NEW e, Handle(e) PROVE UNCHANGED peer /\ batch' \subseteq batch
BY DEF Handle, HandleTimeout, PipeEof, ClientEof, WriteEof, ReadRequest, SendResponse,
       ReadPipe, ReadPipeFailed, RecvFailed, ReceiveMore, ReceiveLast, HeaderBreaks, StartDelete,
       StartWithoutPipes, StartScript, WritePipePart, WritePipeAll, WritePipeFailed, SendPart,
       SendAll, SendFailed, Killed, Received, ReadEvent, WriteEvent, Handling

(* Each handler concerns one connection, the one its event carries.        *)
LEMMA HandleOnlyOf ==
    ASSUME TypeOK, TypeOK', NEW e \in Event, Live(e.udata), Handle(e)
    PROVE  OnlyOf(e.udata)
<1> DEFINE c == e.udata
<1>1. c \in Conn /\ req[c] \in Request /\ req[c].life = "live"
  BY DEF Event, TypeOK, Live
<1>2. ASSUME NEW r, r.life = "live", req' = [req EXCEPT ![c] = r] PROVE Stays(c)
  BY <1>1, <1>2 DEF Stays, TypeOK
<1>3. ASSUME NEW K, CloseClient(K, e) PROVE OnlyOf(c)
  BY <1>3 DEF CloseClient, OnlyOf, Goes
<1>4. ASSUME NEW K, NEW fd, NEW r, r.life = "live", AddWriteOrClean(K, fd, c, r) PROVE OnlyOf(c)
  <2>1. CASE req' = [req EXCEPT ![c] = r] /\ UNCHANGED child
    BY <1>2, <1>4, <2>1 DEF OnlyOf
  <2> QED
    BY <1>4, <2>1 DEF AddWriteOrClean, OnlyOf, Goes
<1>5. ASSUME UNCHANGED <<req, child>> PROVE OnlyOf(c)
  BY <1>1, <1>5 DEF OnlyOf, Stays, TypeOK
<1>6. \A r \in Parsed(req[c]) : r.life = "live"
  BY <1>1, LifeKept
<1>7. CASE HandleTimeout(e)
  <2>1. \/ \E s \in Status : req' = [req EXCEPT ![c] = [req[c] EXCEPT !.status = s]]
        \/ Delete(c)
    <3>1. "GATEWAY_TIMEOUT" \in Status /\ "REQUEST_TIMEOUT" \in Status
      BY DEF Status
    <3> QED
      BY <1>7, <3>1 DEF HandleTimeout
  <2>2. Kill(c)
    BY <1>7 DEF HandleTimeout
  <2>3. \A d \in Conn : d # c => child'[d] = child[d]
    BY <2>2 DEF Kill, TypeOK
  <2>4. CASE Delete(c)
    BY <2>2, <2>4 DEF OnlyOf, Goes
  <2>5. ASSUME NEW s \in Status, req' = [req EXCEPT ![c] = [req[c] EXCEPT !.status = s]]
        PROVE  OnlyOf(c)
    BY <1>1, <1>2, <2>3, <2>5, LifeKept DEF OnlyOf
  <2> QED
    BY <2>1, <2>4, <2>5
<1>8. CASE PipeEof(e) \/ ClientEof(e) \/ WriteEof(e)
  BY <1>1, <1>3, <1>4, <1>8 DEF PipeEof, ClientEof, WriteEof
<1>9. CASE ReadPipe(e) \/ HeaderBreaks(e) \/ WritePipePart(e) \/ WritePipeAll(e) \/ Killed(e)
  BY <1>5, <1>9 DEF ReadPipe, HeaderBreaks, WritePipePart, WritePipeAll, Killed
<1>10. CASE ReadPipeFailed(e)
  <2>1. [req[c] EXCEPT !.status = "ERROR"].life = "live"
    BY <1>1 DEF Request
  <2> QED
    BY <1>4, <1>10, <2>1 DEF ReadPipeFailed
<1>11. CASE RecvFailed(e) \/ SendAll(e) \/ SendFailed(e)
  BY <1>3, <1>11 DEF RecvFailed, SendAll, SendFailed
<1>12. CASE ReceiveMore(e) \/ StartDelete(e)
  <2>1. PICK r \in Parsed(req[c]) : req' = [req EXCEPT ![c] = r] /\ UNCHANGED child
    BY <1>12 DEF ReceiveMore, StartDelete
  <2> QED
    BY <1>2, <1>6, <2>1 DEF OnlyOf
<1>13. CASE ReceiveLast(e)
  BY <1>4, <1>6, <1>13 DEF ReceiveLast
<1>14. CASE StartWithoutPipes(e)
  <2>1. PICK r \in Parsed(req[c]), o \in CreatePipes(Del(kernel, e.ident, "READ"), c) :
           /\ req' = [req EXCEPT ![c] = [WithPipes(r, o) EXCEPT !.status = "ERROR", !.isCgi = FALSE]]
           /\ UNCHANGED child
    BY <1>14 DEF StartWithoutPipes
  <2>2. r \in Request /\ r.life = "live"
    BY <1>1, <1>6, RequestTypes
  <2>3. [WithPipes(r, o) EXCEPT !.status = "ERROR", !.isCgi = FALSE].life = "live"
    BY <2>2 DEF WithPipes, Request
  <2> QED
    BY <1>2, <2>1, <2>3 DEF OnlyOf
<1>15. CASE StartScript(e)
  <2>1. PICK r \in Parsed(req[c]), o \in CreatePipes(Del(kernel, e.ident, "READ"), c) :
           /\ req' = [req EXCEPT ![c] = WithPipes(r, o)]
           /\ child' = [child EXCEPT ![c] = "running"] \/ UNCHANGED child
    BY <1>15 DEF StartScript
  <2>2. r \in Request /\ r.life = "live"
    BY <1>1, <1>6, RequestTypes
  <2>3. Stays(c)
    BY <1>2, <2>1, <2>2, LifeKept
  <2> QED
    BY <2>1, <2>3 DEF OnlyOf, TypeOK
<1>16. CASE WritePipeFailed(e)
  <2>1. PICK r \in CreateResponse([req[c] EXCEPT !.status = "ERROR"]) :
           AddWriteOrClean(Del(kernel, e.ident, "WRITE"), req[c].fd, c, r)
    BY <1>16 DEF WritePipeFailed
  <2>2. [req[c] EXCEPT !.status = "ERROR"] \in Request /\ [req[c] EXCEPT !.status = "ERROR"].life = "live"
    BY <1>1 DEF Request, Status
  <2>3. r.life = "live"
    BY <2>1, <2>2, LifeKept
  <2> QED
    BY <1>4, <2>1, <2>3
<1>17. CASE SendPart(e)
  <2>1. PICK r \in Responses(req[c]) : req' = [req EXCEPT ![c] = r] /\ UNCHANGED child
    BY <1>17 DEF SendPart
  <2> QED
    BY <1>1, <1>2, <2>1, LifeKept DEF OnlyOf
<1> QED
  BY <1>7, <1>8, <1>9, <1>10, <1>11, <1>12, <1>13, <1>14, <1>15, <1>16, <1>17
     DEF Handle, ReadRequest, SendResponse

(* Every step leaves each script with its Request.                         *)
LEMMA ScriptsOwnedNext == ScriptsOwned /\ [Next]_vars => ScriptsOwned'
<1> SUFFICES ASSUME ScriptsOwned, [Next]_vars PROVE ScriptsOwned'
  OBVIOUS
<1>0. TypeOK /\ TypeOK'
  BY TypeNext DEF ScriptsOwned
<1>1. CASE Environment
  BY <1>1, EnvironmentScripts
<1>2. CASE NewClient
  BY <1>2, NewClientScripts
<1>3. ASSUME NEW e \in Events, Live(e.udata), Handle(e) PROVE ScriptsOwned'
  <2>1. e \in Event /\ e.udata \in Conn
    BY <1>0 DEF Events, TypeOK, Event
  <2> QED
    BY <1>0, <1>3, <2>1, HandleOnlyOf, HandlePeer, HandlerOwnsScript
<1>4. CASE Kevent \/ Interrupted \/ (\E e \in Events : TouchFreed(e)) \/ UNCHANGED vars
  <2>1. UNCHANGED <<req, child, peer>>
    BY <1>4 DEF Kevent, Interrupted, KeventVars, TouchFreed, vars
  <2> QED
    BY <1>0, <2>1 DEF ScriptsOwned, NoOrphanScript
<1> QED
  BY <1>1, <1>2, <1>3, <1>4 DEF Next, RunServer, Events

(* In every deployment a script is told to stop before its Request is      *)
(* deleted, by whichever of the handlers and failures that is: each delete *)
(* of a Request kills the script it may have.                              *)
THEOREM ScriptsStopped == Spec => []NoOrphanScript
<1>1. Init => ScriptsOwned
  BY TypeInit DEF Init, ScriptsOwned, NoOrphanScript, Unborn, NewRequest
<1>2. ScriptsOwned => NoOrphanScript
  BY DEF ScriptsOwned
<1> QED
  BY <1>1, <1>2, ScriptsOwnedNext, PTL DEF Spec

-----------------------------------------------------------------------------
(* Pipes                                                                    *)

(* A pipe end belongs to the live Request that remembers it; only a Request*)
(* that is complete has pipes; and nobody waiting to be accepted is live.  *)
PipesOwned ==
    /\ TypeOK
    /\ \A c \in Conn : peer[c] \in {"away", "queued"} => req[c].life = "unborn"
    /\ \A c \in Conn : req[c].pipe # NoPipes => req[c].done
    /\ \A f \in Fd : Desc(f).role \in PipeEnd => Desc(f).conn \in Conn
    /\ NoPipeLeak

(* K has no descriptor that kernel has not.                                *)
OnlyCloses(K) == \A f \in Fd : K.desc[f] \in {kernel.desc[f], Closed}

(* r may follow req[c]: it has the same pipes.                             *)
SamePipes(c, r) ==
    /\ r \in Request /\ r.life = "live" /\ r.pipe = req[c].pipe
    /\ r.pipe # NoPipes => r.done

(* A handler of c keeps its pipes in mind, or closes them and forgets c.   *)
Remembers(c) ==
    /\ OnlyCloses(kernel')
    /\ \/ \E r : SamePipes(c, r) /\ req' = [req EXCEPT ![c] = r]
       \/ Delete(c) /\ \A f \in Fd \cap PipeFds(c) : kernel'.desc[f] = Closed

(* kevent's filters are not descriptors, and closing opens nothing.        *)
LEMMA OnlyClosesOps ==
    ASSUME NEW K, OnlyCloses(K)
    PROVE  /\ \A f, t, c : OnlyCloses(Add(K, f, t, c)) /\ OnlyCloses(Del(K, f, t))
           /\ \A S : /\ OnlyCloses(Close(K, S))
                     /\ \A f \in Fd \cap S : Close(K, S).desc[f] = Closed
BY DEF OnlyCloses, Add, Del, Close

(* Such a handler leaves no pipe without its Request.                      *)
LEMMA HandlerOwnsPipes ==
    ASSUME PipesOwned, TypeOK', NEW c \in Conn, Live(c), Remembers(c), UNCHANGED peer
    PROVE  PipesOwned'
<1>1. ASSUME NEW f \in Fd, Desc(f)'.role \in PipeEnd
      PROVE  /\ Desc(f)' = Desc(f)
             /\ Desc(f).conn \in Conn /\ Live(Desc(f).conn)
             /\ req[Desc(f).conn].pipe[Desc(f).role] = f
             /\ kernel'.desc[f] # Closed
  <2>1. Closed.role \notin PipeEnd
    BY DEF Closed, PipeEnd
  <2>2. kernel'.desc[f] = kernel.desc[f]
    BY <1>1, <2>1 DEF Remembers, OnlyCloses, Desc
  <2> QED
    BY <1>1, <2>1, <2>2 DEF Desc, PipesOwned, NoPipeLeak
<1>2. CASE \E r : SamePipes(c, r) /\ req' = [req EXCEPT ![c] = r]
  <2>1. PICK r : SamePipes(c, r) /\ req' = [req EXCEPT ![c] = r]
    BY <1>2
  <2>2. \A d \in Conn : /\ req'[d].pipe = req[d].pipe
                        /\ req'[d].life = req[d].life
                        /\ d # c => req'[d] = req[d]
                        /\ d = c => (req'[d].pipe # NoPipes => req'[d].done)
    BY <2>1 DEF SamePipes, Live, PipesOwned, TypeOK
  <2>3. NoPipeLeak'
    BY <1>1, <2>2 DEF NoPipeLeak, Live
  <2> QED
    BY <1>1, <2>2, <2>3 DEF PipesOwned
<1>3. CASE Delete(c) /\ \A f \in Fd \cap PipeFds(c) : kernel'.desc[f] = Closed
  <2>1. \A d \in Conn : d # c => req'[d] = req[d]
    BY <1>3 DEF Delete, PipesOwned, TypeOK
  <2>2. req'[c].pipe = NoPipes
    BY <1>3 DEF Delete, Freed, NewRequest, PipesOwned, TypeOK
  <2>3. ASSUME NEW f \in Fd, Desc(f)'.role \in PipeEnd
        PROVE  Desc(f).conn # c
    <3>1. SUFFICES ASSUME Desc(f).conn = c PROVE FALSE
      OBVIOUS
    <3>2. Desc(f).role \in PipeEnd /\ req[c].pipe[Desc(f).role] = f
      BY <1>1, <2>3, <3>1
    <3>3. f \in PipeFds(c)
      BY <3>2 DEF PipeFds
    <3> QED
      BY <1>1, <1>3, <2>3, <3>3
  <2>4. NoPipeLeak'
    BY <1>1, <2>1, <2>3 DEF NoPipeLeak, Live
  <2> QED
    BY <1>1, <2>1, <2>2, <2>4 DEF PipesOwned, Live
<1> QED
  BY <1>2, <1>3 DEF Remembers

(* closeClient closes the pipes of the Request it deletes.                 *)
LEMMA CloseClientRemembers ==
    ASSUME NEW e \in Event, NEW K, OnlyCloses(K), CloseClient(K, e)
    PROVE  Remembers(e.udata)
<1> DEFINE K1 == Close(K, PipeFds(e.udata))
           K2 == IF IsOpen(K1, e.ident) THEN Del(K1, e.ident, "TIMER") ELSE K1
<1>1. OnlyCloses(K1) /\ \A f \in Fd \cap PipeFds(e.udata) : K1.desc[f] = Closed
  BY OnlyClosesOps
<1>2. K2.desc = K1.desc
  BY DEF Del, Add
<1>3. OnlyCloses(K2) /\ \A f \in Fd \cap PipeFds(e.udata) : K2.desc[f] = Closed
  BY <1>1, <1>2 DEF OnlyCloses
<1>4. kernel' = Close(K2, {e.ident}) /\ Delete(e.udata)
  BY DEF CloseClient
<1> HIDE DEF K2
<1>5. OnlyCloses(kernel')
  BY <1>3, <1>4, OnlyClosesOps
<1>6. \A f \in Fd \cap PipeFds(e.udata) : kernel'.desc[f] = Closed
  BY <1>3, <1>4 DEF Close
<1> QED
  BY <1>4, <1>5, <1>6 DEF Remembers

(* So does cleanAddFilterFail.                                             *)
LEMMA AddWriteOrCleanRemembers ==
    ASSUME NEW K, OnlyCloses(K), NEW fd, NEW c, NEW r, SamePipes(c, r),
           AddWriteOrClean(K, fd, c, r)
    PROVE  Remembers(c)
<1>1. CASE kernel' = Add(K, fd, "WRITE", c) /\ req' = [req EXCEPT ![c] = r]
  BY <1>1, OnlyClosesOps DEF Remembers
<1>2. CASE kernel' = Close(K, PipeFds(c) \cup {fd}) /\ Delete(c)
  BY <1>2, OnlyClosesOps DEF Remembers
<1> QED
  BY <1>1, <1>2 DEF AddWriteOrClean

(* Reading and answering leave the pipes alone.                            *)
LEMMA PipesKept ==
    ASSUME NEW c, NEW s \in Request, SamePipes(c, s)
    PROVE  /\ (~s.done => \A r \in Parsed(s) : SamePipes(c, r) /\ r.pipe = NoPipes)
           /\ \A r \in CreateResponse(s) \cup Responses(s) : SamePipes(c, r)
           /\ \A st \in Status : SamePipes(c, [s EXCEPT !.status = st])
<1>0. /\ s.life = "live" /\ s.pipe = req[c].pipe /\ (s.pipe # NoPipes => s.done)
  BY DEF SamePipes
<1>1. ASSUME ~s.done, NEW r \in Parsed(s) PROVE SamePipes(c, r) /\ r.pipe = NoPipes
  <2>1. r \in Request /\ r.life = "live"
    BY <1>0, LifeKept, RequestTypes
  <2>2. r.pipe = s.pipe
    BY DEF Parsed, HeaderRead, Request
  <2> QED
    BY <1>0, <1>1, <2>1, <2>2 DEF SamePipes
<1>2. ASSUME NEW r \in CreateResponse(s)
      PROVE  r.pipe = s.pipe /\ r.done = s.done /\ r \in Request /\ r.life = "live"
  BY <1>0, RequestTypes, LifeKept DEF CreateResponse, Request
<1>3. ASSUME NEW r \in Responses(s) PROVE SamePipes(c, r)
  <2>1. CASE r = s
    BY <2>1
  <2>2. CASE \E q \in CreateResponse(s) : r = [q EXCEPT !.responseDone = TRUE]
    <3>1. r \in Request /\ r.life = "live"
      BY <1>0, RequestTypes, LifeKept
    <3>2. r.pipe = s.pipe /\ r.done = s.done
      BY <1>2, <2>2 DEF Request
    <3> QED
      BY <1>0, <3>1, <3>2 DEF SamePipes
  <2> QED
    BY <2>1, <2>2 DEF Responses
<1>4. ASSUME NEW st \in Status PROVE SamePipes(c, [s EXCEPT !.status = st])
  BY <1>0 DEF SamePipes, Request
<1> QED
  BY <1>0, <1>1, <1>2, <1>3, <1>4 DEF SamePipes

(* Every handler but the two that open pipes.                              *)
LEMMA HandleRemembers ==
    ASSUME PipesOwned, NEW e \in Event, Live(e.udata), Handle(e),
           ~StartWithoutPipes(e), ~StartScript(e)
    PROVE  Remembers(e.udata)
<1> DEFINE c == e.udata
           s == req[c]
<1>1. c \in Conn /\ s \in Request /\ SamePipes(c, s)
  BY DEF Event, PipesOwned, TypeOK, Live, SamePipes
<1>2. \A t : OnlyCloses(Del(kernel, e.ident, t)) /\ OnlyCloses(kernel)
  BY DEF OnlyCloses, Del, Add
<1>3. ASSUME UNCHANGED req, OnlyCloses(kernel') PROVE Remembers(c)
  <2>1. req' = [req EXCEPT ![c] = s]
    BY <1>1, <1>3 DEF PipesOwned, TypeOK
  <2> QED
    BY <1>1, <1>3, <2>1 DEF Remembers
<1>4. ASSUME NEW r, SamePipes(c, r), req' = [req EXCEPT ![c] = r], OnlyCloses(kernel')
      PROVE  Remembers(c)
  BY <1>4 DEF Remembers
<1>5. "ERROR" \in Status
  BY DEF Status
<1>6. CASE HandleTimeout(e)
  <2> DEFINE K1 == IF req[c].done THEN kernel ELSE Del(kernel, e.ident, "READ")
             K2 == Close(K1, PipeFds(c))
             st == IF req[c].done THEN "GATEWAY_TIMEOUT" ELSE "REQUEST_TIMEOUT"
  <2>1. OnlyCloses(K1)
    BY <1>2
  <2>2. OnlyCloses(K2) /\ \A f \in Fd \cap PipeFds(c) : K2.desc[f] = Closed
    BY <2>1, OnlyClosesOps
  <2>3. st \in Status
    BY DEF Status
  <2>4. SamePipes(c, [s EXCEPT !.status = st])
    BY <1>1, <2>3, PipesKept
  <2>5. \/ /\ kernel' \in {Add(K2, e.ident, "WRITE", c), K2}
           /\ req' = [req EXCEPT ![c] = [s EXCEPT !.status = st]]
        \/ kernel' = Close(K2, {e.ident}) /\ Delete(c)
    <3> HIDE DEF K2
    <3> QED
      BY <1>6 DEF HandleTimeout, K2
  <2> HIDE DEF K2, st
  <2>6. CASE /\ kernel' \in {Add(K2, e.ident, "WRITE", c), K2}
             /\ req' = [req EXCEPT ![c] = [s EXCEPT !.status = st]]
    <3>1. OnlyCloses(kernel')
      BY <2>2, <2>6, OnlyClosesOps
    <3> QED
      BY <1>4, <2>4, <2>6, <3>1
  <2>7. CASE kernel' = Close(K2, {e.ident}) /\ Delete(c)
    <3>1. OnlyCloses(kernel')
      BY <2>2, <2>7, OnlyClosesOps
    <3>2. \A f \in Fd \cap PipeFds(c) : kernel'.desc[f] = Closed
      BY <2>2, <2>7 DEF Close
    <3> QED
      BY <2>7, <3>1, <3>2 DEF Remembers
  <2> QED
    BY <2>5, <2>6, <2>7
<1>7. CASE PipeEof(e)
  <2>1. OnlyCloses(Close(Del(kernel, e.ident, "READ"), {e.ident}))
    BY <1>2, OnlyClosesOps
  <2> QED
    BY <1>1, <1>7, <2>1, AddWriteOrCleanRemembers DEF PipeEof
<1>8. CASE ClientEof(e) \/ WriteEof(e) \/ SendAll(e) \/ SendFailed(e)
  BY <1>2, <1>8, CloseClientRemembers DEF ClientEof, WriteEof, SendAll, SendFailed
<1>9. CASE RecvFailed(e)
  <2>1. OnlyCloses(Del(Del(kernel, e.ident, "READ"), e.ident, "TIMER"))
    BY <1>2, OnlyClosesOps
  <2> QED
    BY <1>9, <2>1, CloseClientRemembers DEF RecvFailed
<1>10. CASE ReadPipe(e) \/ HeaderBreaks(e) \/ WritePipePart(e) \/ Killed(e)
  BY <1>2, <1>3, <1>10 DEF ReadPipe, HeaderBreaks, WritePipePart, Killed, OnlyCloses
<1>11. CASE WritePipeAll(e)
  BY <1>2, <1>3, <1>11, OnlyClosesOps DEF WritePipeAll
<1>12. CASE ReadPipeFailed(e)
  BY <1>1, <1>2, <1>5, <1>12, PipesKept, AddWriteOrCleanRemembers DEF ReadPipeFailed
<1>13. CASE ReceiveMore(e) \/ StartDelete(e)
  <2>1. PICK r \in Parsed(s) :
           /\ ~s.done
           /\ req' = [req EXCEPT ![c] = r]
           /\ kernel' \in {kernel, Del(kernel, e.ident, "READ")}
    BY <1>13 DEF ReceiveMore, StartDelete, Received
  <2> QED
    BY <1>1, <1>2, <1>4, <2>1, PipesKept
<1>14. CASE ReceiveLast(e)
  <2>1. PICK r \in Parsed(s) :
           ~s.done /\ AddWriteOrClean(Del(kernel, e.ident, "READ"), e.ident, c, r)
    BY <1>14 DEF ReceiveLast, Received
  <2> QED
    BY <1>1, <1>2, <2>1, PipesKept, AddWriteOrCleanRemembers
<1>15. CASE WritePipeFailed(e)
  <2>1. PICK r \in CreateResponse([s EXCEPT !.status = "ERROR"]) :
           AddWriteOrClean(Del(kernel, e.ident, "WRITE"), s.fd, c, r)
    BY <1>15 DEF WritePipeFailed
  <2>2. SamePipes(c, [s EXCEPT !.status = "ERROR"])
    BY <1>1, <1>5, PipesKept
  <2>3. SamePipes(c, r)
    BY <2>1, <2>2, PipesKept DEF SamePipes
  <2> QED
    BY <1>2, <2>1, <2>3, AddWriteOrCleanRemembers
<1>16. CASE SendPart(e)
  <2>1. PICK r \in Responses(s) : req' = [req EXCEPT ![c] = r] /\ UNCHANGED kernel
    BY <1>16 DEF SendPart
  <2>2. OnlyCloses(kernel')
    BY <1>2, <2>1
  <2> QED
    BY <1>1, <1>4, <2>1, <2>2, PipesKept
<1> QED
  BY <1>6, <1>7, <1>8, <1>9, <1>10, <1>11, <1>12, <1>13, <1>14, <1>15, <1>16
     DEF Handle, ReadRequest, SendResponse

(* The descriptors after createPipes are those before it, and the new ones *)
(* are remembered by WithPipes, also after a failure half way.             *)
LEMMA CreatePipesRemembered ==
    ASSUME NEW K \in KernelState, NEW c, NEW r \in Request, NEW o \in CreatePipes(K, c)
    PROVE  \A f \in Fd :
              \/ o.kernel.desc[f] = K.desc[f]
              \/ \E end \in PipeEnd : /\ o.kernel.desc[f] = Pipe(end, c)
                                      /\ WithPipes(r, o).pipe[end] = f
<1> DEFINE in == NewPipe(K)
           KI1 == Open(K, in[1], Pipe("in0", c))
           KI == Open(KI1, in[2], Pipe("in1", c))
           out == NewPipe(KI)
           KO1 == Open(KI, out[1], Pipe("out0", c))
           KO == Open(KO1, out[2], Pipe("out1", c))
           KW == Add(KO, in[2], "WRITE", c)
           KR == Add(KW, out[1], "READ", c)
<1>1. o.kernel \in {KR, KO, KW} /\ o.in = in /\ o.out = out
  <2> HIDE DEF in, KO, KW, KR, out
  <2>1. CreatePipes(K, c) \subseteq
            {[kernel |-> KR, in |-> in, out |-> out, ok |-> TRUE],
             [kernel |-> KO, in |-> in, out |-> out, ok |-> FALSE],
             [kernel |-> KW, in |-> in, out |-> out, ok |-> FALSE]}
    BY Zenon DEF CreatePipes, in, KI, KI1, out, KO1, KO, KW, KR
  <2> QED
    BY <2>1
<1>2. KR.desc = KO.desc /\ KW.desc = KO.desc
  BY DEF Add
<1>3. o.kernel.desc = KO.desc
  BY <1>1, <1>2
<1>4. WithPipes(r, o).pipe = [in0 |-> in[1], in1 |-> in[2], out0 |-> out[1], out1 |-> out[2]]
  BY <1>1 DEF WithPipes, Request
<1>5. ASSUME NEW f \in Fd
      PROVE  \/ KO.desc[f] = K.desc[f]
             \/ f = in[1]  /\ KO.desc[f] = Pipe("in0", c)
             \/ f = in[2]  /\ KO.desc[f] = Pipe("in1", c)
             \/ f = out[1] /\ KO.desc[f] = Pipe("out0", c)
             \/ f = out[2] /\ KO.desc[f] = Pipe("out1", c)
  <2> HIDE DEF in, out
  <2> QED
    BY DEF Open
<1> HIDE DEF in, out, KO, KR, KW
<1> QED
  BY <1>3, <1>4, <1>5 DEF PipeEnd

(* A Request that gets pipes had none, and remembers each of the four.     *)
LEMMA StartRemembers ==
    ASSUME PipesOwned, TypeOK', NEW e \in Event, Live(e.udata),
           StartWithoutPipes(e) \/ StartScript(e), UNCHANGED peer
    PROVE  PipesOwned'
<1> DEFINE c == e.udata
           s == req[c]
           K == Del(kernel, e.ident, "READ")
<1>1. PICK r \in Parsed(s), o \in CreatePipes(K, c) :
         /\ ~s.done /\ r.done
         /\ \E q : /\ q.pipe = WithPipes(r, o).pipe /\ q.life = r.life /\ q.done = r.done
                   /\ req' = [req EXCEPT ![c] = q]
         /\ \A f \in Fd : kernel'.desc[f] \in {o.kernel.desc[f], Closed}
  <2>1. CASE StartWithoutPipes(e)
    <3>1. PICK r \in Parsed(s), o \in CreatePipes(K, c) :
             /\ Received(e, r) /\ StartsCgi(r)
             /\ kernel' = o.kernel
             /\ req' = [req EXCEPT ![c] = [WithPipes(r, o) EXCEPT !.status = "ERROR", !.isCgi = FALSE]]
      BY <2>1 DEF StartWithoutPipes
    <3>2. r \in Request
      BY RequestTypes DEF PipesOwned, TypeOK, Event
    <3> DEFINE q == [WithPipes(r, o) EXCEPT !.status = "ERROR", !.isCgi = FALSE]
    <3>3. q.pipe = WithPipes(r, o).pipe /\ q.life = r.life /\ q.done = r.done
      BY <3>2 DEF WithPipes, Request
    <3> HIDE DEF q
    <3>4. req' = [req EXCEPT ![c] = q]
      BY <3>1 DEF q
    <3> QED
      BY <3>1, <3>3, <3>4 DEF Received, StartsCgi
  <2>2. CASE StartScript(e)
    <3>1. PICK r \in Parsed(s), o \in CreatePipes(K, c) :
             /\ Received(e, r) /\ StartsCgi(r)
             /\ kernel' \in {o.kernel, Close(o.kernel, {o.out[2], o.in[1]})}
             /\ req' = [req EXCEPT ![c] = WithPipes(r, o)]
      BY <2>2 DEF StartScript
    <3>2. r \in Request
      BY RequestTypes DEF PipesOwned, TypeOK, Event
    <3>3. WithPipes(r, o).life = r.life /\ WithPipes(r, o).done = r.done
      BY <3>2 DEF WithPipes, Request
    <3>4. \A f \in Fd : kernel'.desc[f] \in {o.kernel.desc[f], Closed}
      BY <3>1 DEF Close
    <3> QED
      BY <3>1, <3>3, <3>4 DEF Received, StartsCgi
  <2> QED
    BY <2>1, <2>2
<1>2. c \in Conn /\ s \in Request /\ s.life = "live" /\ s.pipe = NoPipes
  BY <1>1 DEF Event, PipesOwned, TypeOK, Live
<1>3. r \in Request /\ r.life = "live"
  BY <1>2, RequestTypes, LifeKept
<1>4. K \in KernelState /\ K.desc = kernel.desc
  <2>1. kernel \in KernelState
    BY DEF PipesOwned, TypeOK
  <2>2. K.desc = kernel.desc
    BY DEF Del, Add
  <2> QED
    BY <2>1, <2>2, DelType
<1>5. PICK q : /\ q.pipe = WithPipes(r, o).pipe /\ q.life = "live" /\ q.done
               /\ req' = [req EXCEPT ![c] = q]
  BY <1>1, <1>3
<1>6. \A d \in Conn : req'[d] = IF d = c THEN q ELSE req[d]
  BY <1>5 DEF PipesOwned, TypeOK
<1>7. ASSUME NEW f \in Fd, Desc(f)'.role \in PipeEnd
      PROVE  \/ /\ Desc(f)' = Desc(f) /\ Desc(f).conn # c
             \/ /\ Desc(f)'.conn = c /\ q.pipe[Desc(f)'.role] = f
  <2>1. Closed.role \notin PipeEnd
    BY DEF Closed, PipeEnd
  <2>2. Desc(f)' = o.kernel.desc[f]
    BY <1>1, <1>7, <2>1 DEF Desc
  <2>3. CASE o.kernel.desc[f] = K.desc[f]
    <3>1. Desc(f)' = Desc(f)
      BY <1>4, <2>2, <2>3 DEF Desc
    <3>2. Desc(f).conn # c
      <4>1. f # NoFd
        BY MaxFdAssumption DEF Fd, NoFd
      <4>2. \A end \in PipeEnd : s.pipe[end] # f
        BY <1>2, <4>1 DEF NoPipes
      <4> QED
        BY <1>7, <3>1, <4>2 DEF PipesOwned, NoPipeLeak
    <3> QED
      BY <3>1, <3>2
  <2>4. CASE \E end \in PipeEnd : /\ o.kernel.desc[f] = Pipe(end, c)
                                  /\ WithPipes(r, o).pipe[end] = f
    BY <1>5, <2>2, <2>4 DEF Pipe
  <2> QED
    BY <1>3, <1>4, <2>3, <2>4, CreatePipesRemembered
<1>8. NoPipeLeak'
  BY <1>2, <1>5, <1>6, <1>7 DEF NoPipeLeak, Live, PipesOwned
<1>9. \A f \in Fd : Desc(f)'.role \in PipeEnd => Desc(f)'.conn \in Conn
  BY <1>2, <1>7 DEF PipesOwned
<1>10. \A d \in Conn : peer'[d] \in {"away", "queued"} => req'[d].life = "unborn"
  BY <1>2, <1>6 DEF PipesOwned
<1>11. \A d \in Conn : req'[d].pipe # NoPipes => req'[d].done
  BY <1>5, <1>6 DEF PipesOwned
<1> QED
  BY <1>8, <1>9, <1>10, <1>11 DEF PipesOwned

(* A connection that is accepted has no pipes, and none of its own opens.  *)
LEMMA NewClientPipes == PipesOwned /\ NewClient => PipesOwned'
<1> SUFFICES ASSUME PipesOwned, NewClient PROVE PipesOwned'
  OBVIOUS
<1>0. TypeOK'
  BY NewClientType DEF PipesOwned
<1>1. CASE ListenEvent \/ AcceptDone
  BY <1>0, <1>1 DEF ListenEvent, AcceptDone, AcceptVars, PipesOwned, NoPipeLeak, Desc, Live
<1>2. ASSUME NEW c \in Conn, AcceptOne(c) \/ AcceptFault(c)
      PROVE  PipesOwned'
  <2>1. \E f \in Fd :
           /\ Accept(c, f)
           /\ \A g \in Fd : kernel'.desc[g] \in {kernel.desc[g], Sock(c), Closed}
           /\ \E r \in {NewRequest(f), [NewRequest(f) EXCEPT !.responses = 1], Freed} :
                 req' = [req EXCEPT ![c] = r]
    <3>1. CASE AcceptOne(c)
      <4>1. PICK f \in Fd :
               /\ Accept(c, f)
               /\ kernel' = Add(Add(Open(kernel, f, Sock(c)), f, "READ", c), f, "TIMER", c)
               /\ req' = [req EXCEPT ![c] = NewRequest(f)]
        BY <3>1 DEF AcceptOne
      <4>2. \A g \in Fd : kernel'.desc[g] \in {kernel.desc[g], Sock(c)}
        BY <4>1 DEF Add, Open
      <4> QED
        BY <4>1, <4>2
    <3>2. CASE AcceptFault(c)
      <4>1. PICK f \in Fd, readAdded \in BOOLEAN :
              LET K == IF readAdded THEN Add(Open(kernel, f, Sock(c)), f, "READ", c)
                                    ELSE Open(kernel, f, Sock(c))
              IN  /\ Accept(c, f)
                  /\ \/ /\ kernel' = Add(K, f, "WRITE", c)
                        /\ req' = [req EXCEPT ![c] = [NewRequest(f) EXCEPT !.responses = 1]]
                     \/ /\ kernel' = Close(K, {f})
                        /\ req' = [req EXCEPT ![c] = Freed]
        BY <3>2 DEF AcceptFault
      <4> DEFINE K == IF readAdded THEN Add(Open(kernel, f, Sock(c)), f, "READ", c)
                                   ELSE Open(kernel, f, Sock(c))
      <4>2. \A g \in Fd : K.desc[g] \in {kernel.desc[g], Sock(c)}
        BY DEF Add, Open
      <4> HIDE DEF K
      <4>3. kernel' \in {Add(K, f, "WRITE", c), Close(K, {f})}
        BY <4>1 DEF K
      <4>4. \A g \in Fd : kernel'.desc[g] \in {K.desc[g], Closed}
        BY <4>3 DEF Add, Close
      <4> QED
        BY <4>1, <4>2, <4>4
    <3> QED
      BY <1>2, <3>1, <3>2
  <2>2. PICK f \in Fd :
           /\ Accept(c, f)
           /\ \A g \in Fd : kernel'.desc[g] \in {kernel.desc[g], Sock(c), Closed}
           /\ \E r \in {NewRequest(f), [NewRequest(f) EXCEPT !.responses = 1], Freed} :
                 req' = [req EXCEPT ![c] = r]
    BY <2>1
  <2>3. PICK r \in {NewRequest(f), [NewRequest(f) EXCEPT !.responses = 1], Freed} :
           req' = [req EXCEPT ![c] = r]
    BY <2>2
  <2>4. r.pipe = NoPipes
    BY <2>3 DEF NewRequest, Freed
  <2>5. req[c].life = "unborn" /\ peer' = [peer EXCEPT ![c] = "open"]
    BY <2>2 DEF Accept, AcceptQueue, PipesOwned
  <2>6. \A d \in Conn : req'[d] = IF d = c THEN r ELSE req[d]
    BY <2>3 DEF PipesOwned, TypeOK
  <2>7. ASSUME NEW g \in Fd, Desc(g)'.role \in PipeEnd
        PROVE  Desc(g)' = Desc(g) /\ Desc(g).conn # c
    <3>1. Closed.role \notin PipeEnd /\ Sock(c).role \notin PipeEnd
      BY DEF Closed, Sock, PipeEnd
    <3> QED
      BY <2>2, <2>5, <2>7, <3>1 DEF Desc, PipesOwned, NoPipeLeak, Live
  <2>8. NoPipeLeak'
    BY <2>6, <2>7 DEF NoPipeLeak, Live, PipesOwned
  <2>9. \A d \in Conn : peer'[d] \in {"away", "queued"} => req'[d].life = "unborn"
    BY <2>5, <2>6 DEF PipesOwned, TypeOK
  <2> QED
    BY <1>0, <2>4, <2>6, <2>7, <2>8, <2>9 DEF PipesOwned
<1> QED
  BY <1>1, <1>2 DEF NewClient

(* Every step leaves each pipe with its Request.                           *)
LEMMA PipesOwnedNext == PipesOwned /\ [Next]_vars => PipesOwned'
<1> SUFFICES ASSUME PipesOwned, [Next]_vars PROVE PipesOwned'
  OBVIOUS
<1>0. TypeOK /\ TypeOK'
  BY TypeNext DEF PipesOwned
<1>1. CASE Environment
  <2>1. UNCHANGED <<kernel, req>>
    BY <1>1 DEF Environment, Connect, Send, Disconnect, ChildOutput, ChildExit, World
  <2>2. \A c \in Conn : peer'[c] \in {"away", "queued"} => peer[c] \in {"away", "queued"}
    BY <1>0, <1>1 DEF Environment, Connect, Send, Disconnect, ChildOutput, ChildExit, TypeOK
  <2> QED
    BY <1>0, <2>1, <2>2 DEF PipesOwned, NoPipeLeak, Desc, Live
<1>2. CASE NewClient
  BY <1>2, NewClientPipes
<1>3. ASSUME NEW e \in Events, Live(e.udata), Handle(e) PROVE PipesOwned'
  <2>1. e \in Event /\ e.udata \in Conn
    BY <1>0 DEF Events, TypeOK, Event
  <2>2. UNCHANGED peer
    BY <1>3, HandlePeer
  <2>3. CASE StartWithoutPipes(e) \/ StartScript(e)
    BY <1>0, <1>3, <2>1, <2>2, <2>3, StartRemembers
  <2>4. CASE ~StartWithoutPipes(e) /\ ~StartScript(e)
    BY <1>0, <1>3, <2>1, <2>2, <2>4, HandleRemembers, HandlerOwnsPipes
  <2> QED
    BY <2>3, <2>4
<1>4. CASE Kevent \/ Interrupted \/ (\E e \in Events : TouchFreed(e)) \/ UNCHANGED vars
  <2>1. UNCHANGED <<req, kernel, peer>>
    BY <1>4 DEF Kevent, Interrupted, KeventVars, TouchFreed, vars
  <2> QED
    BY <1>0, <2>1 DEF PipesOwned, NoPipeLeak, Desc, Live
<1> QED
  BY <1>1, <1>2, <1>3, <1>4 DEF Next, RunServer, Events

(* In every deployment, whatever calls fail and whatever numbers are used  *)
(* again, each open end of a pipe belongs to a live Request that remembers *)
(* its number: no exit of createPipes, runExecve or a handler loses one.   *)
THEOREM PipesRemembered == Spec => []NoPipeLeak
<1>1. Init => PipesOwned
  BY TypeInit DEF Init, PipesOwned, NoPipeLeak, EmptyKernel, Unborn, NewRequest, Desc, Closed,
                  PipeEnd
<1>2. PipesOwned => NoPipeLeak
  BY DEF PipesOwned
<1> QED
  BY <1>1, <1>2, PipesOwnedNext, PTL DEF Spec

-----------------------------------------------------------------------------
(* Answers                                                                  *)

HasReason(r) == r.done \/ r.status # "OK" \/ Refused(r)

(* A filter and an event are of a Request that was created; one that reads *)
(* for a request still being received is of its own socket, as its pipes   *)
(* come later; and room to write is asked for only with a reason.          *)
ReasonsGiven ==
    /\ TypeOK
    /\ \A c \in Conn : peer[c] \in {"away", "queued"} => req[c].life = "unborn"
    /\ \A c \in Conn : Live(c) => req[c].fd \in Fd
    /\ \A k \in Registered(kernel) : req[kernel.knote[k]].life # "unborn"
    /\ \A e \in Events : req[e.udata].life # "unborn"
    /\ \A f \in Fd, c \in Conn :
          (Live(c) /\ ~req[c].done /\ kernel.knote[<<f, "READ">>] = c) => f = req[c].fd
    /\ \A e \in Events :
          (Live(e.udata) /\ ~req[e.udata].done /\ e.filter = "READ") => e.ident = req[e.udata].fd
    /\ \A f \in Fd, c \in Conn :
          (Live(c) /\ kernel.knote[<<f, "WRITE">>] = c) => HasReason(req[c])

(* r may follow s: what is complete, rejected or refused stays so.         *)
Follows(s, r) ==
    /\ r \in Request /\ r.life = "live" /\ r.fd = s.fd
    /\ s.done => r.done
    /\ s.status # "OK" => r.status # "OK"
    /\ Refused(s) => Refused(r)

(* The filters of K are kernel's, or were added for c: room to write with  *)
(* a reason, anything once c is done.                                      *)
AddsFor(c, r, K) ==
    \A k \in Fd \X Filter :
       \/ K.knote[k] \in {kernel.knote[k], NoConn}
       \/ K.knote[k] = c /\ (r.done \/ (k[2] = "WRITE" /\ HasReason(r)))

Reasoned(c) ==
    \/ \E r : Follows(req[c], r) /\ req' = [req EXCEPT ![c] = r] /\ AddsFor(c, r, kernel')
    \/ Delete(c) /\ \A k \in Fd \X Filter : kernel'.knote[k] \in {kernel.knote[k], NoConn}

(* Such a handler answers nobody without a reason.                         *)
LEMMA HandlerHasReason ==
    ASSUME ReasonsGiven, TypeOK', NEW c \in Conn, Live(c), Reasoned(c), UNCHANGED peer,
           batch' \subseteq batch
    PROVE  ReasonsGiven'
<1>1. Events' \subseteq Events
  BY DEF Events
<1>2. \A d \in Conn : peer[d] \in {"away", "queued"} => d # c
  BY DEF ReasonsGiven, Live
<1>3. \A k \in Registered(kernel) : kernel.knote[k] \in Conn
  BY DEF Registered, ReasonsGiven, TypeOK, KernelState
<1>4. \A e \in Events : e.udata \in Conn
  BY DEF ReasonsGiven, TypeOK, Events, Event
<1>5. CASE \E r : Follows(req[c], r) /\ req' = [req EXCEPT ![c] = r] /\ AddsFor(c, r, kernel')
  <2>1. PICK r : Follows(req[c], r) /\ req' = [req EXCEPT ![c] = r] /\ AddsFor(c, r, kernel')
    BY <1>5
  <2>2. \A d \in Conn : req'[d] = IF d = c THEN r ELSE req[d]
    BY <2>1 DEF ReasonsGiven, TypeOK
  <2>3. /\ r.life = "live" /\ r.fd = req[c].fd
        /\ req[c].done => r.done
        /\ HasReason(req[c]) => HasReason(r)
    BY <2>1 DEF Follows, HasReason
  <2>4. \A d \in Conn : peer'[d] \in {"away", "queued"} => req'[d].life = "unborn"
    BY <1>2, <2>2 DEF ReasonsGiven
  <2>5. \A k \in Registered(kernel)' : /\ k \in Fd \X Filter
                                       /\ \/ k \in Registered(kernel) /\ kernel'.knote[k] = kernel.knote[k]
                                          \/ kernel'.knote[k] = c
    BY <2>1 DEF AddsFor, Registered
  <2>6. \A k \in Registered(kernel)' : req'[kernel'.knote[k]].life # "unborn"
    BY <1>3, <2>2, <2>3, <2>5 DEF ReasonsGiven
  <2>7. \A e \in Events' : req'[e.udata].life # "unborn"
    BY <1>1, <1>4, <2>2, <2>3 DEF ReasonsGiven
  <2>8. ASSUME NEW f \in Fd, NEW d \in Conn,
               Live(d)', ~req'[d].done, kernel'.knote[<<f, "READ">>] = d
        PROVE  f = req'[d].fd
    <3>1. d # NoConn
      BY NoConnAssumption
    <3>2. <<f, "READ">> \in Fd \X Filter /\ "READ" # "WRITE"
      BY DEF Filter
    <3>3. kernel.knote[<<f, "READ">>] = d
      BY <2>1, <2>2, <2>8, <3>1, <3>2 DEF AddsFor
    <3>4. Live(d) /\ ~req[d].done /\ req'[d].fd = req[d].fd
      BY <2>2, <2>3, <2>8 DEF Live
    <3> QED
      BY <3>3, <3>4 DEF ReasonsGiven
  <2>9. ASSUME NEW e \in Events', Live(e.udata)', ~req'[e.udata].done, e.filter = "READ"
        PROVE  e.ident = req'[e.udata].fd
    <3>1. Live(e.udata) /\ ~req[e.udata].done /\ req'[e.udata].fd = req[e.udata].fd
      BY <1>1, <1>4, <2>2, <2>3, <2>9 DEF Live
    <3> QED
      BY <1>1, <2>9, <3>1 DEF ReasonsGiven
  <2>10. ASSUME NEW f \in Fd, NEW d \in Conn, Live(d)', kernel'.knote[<<f, "WRITE">>] = d
         PROVE  HasReason(req'[d])
    <3>1. d # NoConn /\ <<f, "WRITE">> \in Fd \X Filter
      BY NoConnAssumption DEF Filter
    <3>2. CASE d # c
      <4>1. kernel.knote[<<f, "WRITE">>] = d /\ Live(d)
        BY <2>1, <2>2, <2>10, <3>1, <3>2 DEF AddsFor, Live
      <4> QED
        BY <2>2, <3>2, <4>1 DEF ReasonsGiven
    <3>3. CASE d = c
      <4>1. kernel.knote[<<f, "WRITE">>] = c \/ HasReason(r)
        BY <2>1, <2>10, <3>1, <3>3 DEF AddsFor, HasReason
      <4> QED
        BY <2>2, <2>3, <3>3, <4>1 DEF ReasonsGiven
    <3> QED
      BY <3>2, <3>3
  <2>11. \A d \in Conn : Live(d)' => req'[d].fd \in Fd
    BY <2>2, <2>3 DEF ReasonsGiven, Live
  <2> QED
    BY <2>4, <2>6, <2>7, <2>8, <2>9, <2>10, <2>11 DEF ReasonsGiven
<1>6. CASE Delete(c) /\ \A k \in Fd \X Filter : kernel'.knote[k] \in {kernel.knote[k], NoConn}
  <2>1. \A d \in Conn : IF d = c THEN req'[d].life = "freed" ELSE req'[d] = req[d]
    BY <1>6 DEF Delete, Freed, ReasonsGiven, TypeOK
  <2>2. \A d \in Conn : peer'[d] \in {"away", "queued"} => req'[d].life = "unborn"
    BY <1>2, <2>1 DEF ReasonsGiven
  <2>3. \A k \in Registered(kernel)' : k \in Registered(kernel) /\ kernel'.knote[k] = kernel.knote[k]
    BY <1>6 DEF Registered
  <2>4. \A k \in Registered(kernel)' : req'[kernel'.knote[k]].life # "unborn"
    BY <1>3, <2>1, <2>3 DEF ReasonsGiven
  <2>5. \A e \in Events' : req'[e.udata].life # "unborn"
    BY <1>1, <1>4, <2>1 DEF ReasonsGiven
  <2>6. \A d \in Conn : Live(d)' => Live(d) /\ req'[d] = req[d]
    BY <2>1 DEF Live
  <2>7. \A f \in Fd, d \in Conn :
           /\ kernel'.knote[<<f, "READ">>] = d => kernel.knote[<<f, "READ">>] = d
           /\ kernel'.knote[<<f, "WRITE">>] = d => kernel.knote[<<f, "WRITE">>] = d
    BY <1>6, NoConnAssumption DEF Filter
  <2>8. ASSUME NEW f \in Fd, NEW d \in Conn,
               Live(d)', ~req'[d].done, kernel'.knote[<<f, "READ">>] = d
        PROVE  f = req'[d].fd
    <3>1. kernel.knote[<<f, "READ">>] = d /\ Live(d) /\ req'[d] = req[d]
      BY <2>6, <2>7, <2>8
    <3> QED
      BY <2>8, <3>1 DEF ReasonsGiven
  <2>9. \A e \in Events' :
           (Live(e.udata)' /\ ~req'[e.udata].done /\ e.filter = "READ") => e.ident = req'[e.udata].fd
    BY <1>1, <1>4, <2>6 DEF ReasonsGiven
  <2>10. \A f \in Fd, d \in Conn :
            (Live(d)' /\ kernel'.knote[<<f, "WRITE">>] = d) => HasReason(req'[d])
    BY <2>6, <2>7 DEF ReasonsGiven
  <2>11. \A d \in Conn : Live(d)' => req'[d].fd \in Fd
    BY <2>6 DEF ReasonsGiven
  <2> QED
    BY <2>2, <2>4, <2>5, <2>8, <2>9, <2>10, <2>11 DEF ReasonsGiven
<1> QED
  BY <1>5, <1>6 DEF Reasoned

(* K has no filter that kernel has not.                                    *)
OnlyDrops(K) == \A k \in Fd \X Filter : K.knote[k] \in {kernel.knote[k], NoConn}

(* EV_DELETE and close add no filter.                                      *)
LEMMA OnlyDropsOps ==
    ASSUME NEW K, OnlyDrops(K)
    PROVE  /\ \A f, t : OnlyDrops(Del(K, f, t))
           /\ \A S : OnlyDrops(Close(K, S))
           /\ \A f, c, r : HasReason(r) => AddsFor(c, r, Add(K, f, "WRITE", c))
           /\ \A c, r : AddsFor(c, r, K)
BY DEF OnlyDrops, AddsFor, Add, Del, Close

(* closeClient adds no filter.                                             *)
LEMMA CloseClientReasoned ==
    ASSUME NEW e \in Event, NEW K, OnlyDrops(K), CloseClient(K, e)
    PROVE  Reasoned(e.udata)
<1> DEFINE K1 == Close(K, PipeFds(e.udata))
           K2 == IF IsOpen(K1, e.ident) THEN Del(K1, e.ident, "TIMER") ELSE K1
<1>1. OnlyDrops(K1)
  BY OnlyDropsOps
<1>2. OnlyDrops(K2)
  BY <1>1, OnlyDropsOps
<1>3. kernel' = Close(K2, {e.ident}) /\ Delete(e.udata)
  BY DEF CloseClient
<1> HIDE DEF K2
<1> QED
  BY <1>2, <1>3, OnlyDropsOps DEF Reasoned, OnlyDrops

(* addFilter needs a reason; cleanAddFilterFail does not.                  *)
LEMMA AddWriteOrCleanReasoned ==
    ASSUME NEW K, OnlyDrops(K), NEW fd, NEW c, NEW r, Follows(req[c], r),
           HasReason(r) \/ (~IsOpen(K, fd)), AddWriteOrClean(K, fd, c, r)
    PROVE  Reasoned(c)
<1>1. CASE /\ IsOpen(K, fd) /\ kernel' = Add(K, fd, "WRITE", c)
           /\ req' = [req EXCEPT ![c] = r]
  <2>1. AddsFor(c, r, kernel')
    BY <1>1, OnlyDropsOps
  <2> QED
    BY <1>1, <2>1 DEF Reasoned
<1>2. CASE kernel' = Close(K, PipeFds(c) \cup {fd}) /\ Delete(c)
  BY <1>2, OnlyDropsOps DEF Reasoned, OnlyDrops
<1> QED
  BY <1>1, <1>2 DEF AddWriteOrClean

(* A response that was created stays, or is replaced by another, but for   *)
(* an image that has vanished: an error is always appended.                *)
LEMMA RefusalKept ==
    ASSUME NEW s \in Request
    PROVE  /\ \A r \in Parsed(s) : Refused(s) => Refused(r)
           /\ \A r \in CreateResponse(s) \cup Responses(s) :
                 r.responses # 0 => (Refused(s) => Refused(r))
           /\ s.status # "OK" => \A r \in CreateResponse(s) : r.responses # 0
<1>1. ASSUME NEW r \in Parsed(s) PROVE r.responses = s.responses
  BY DEF Parsed, HeaderRead, Request
<1>2. s.responses \in Nat
  BY DEF Request
<1>3. ASSUME s.status # "OK", NEW r \in CreateResponse(s) PROVE r.responses # 0
  <2>1. r.responses = s.responses + 1
    BY <1>3 DEF CreateResponse, MayBeImage, Request
  <2> QED
    BY <1>2, <2>1
<1>4. ASSUME NEW r \in CreateResponse(s) \cup Responses(s), r.responses # 0
      PROVE  r.responses > 0
  <2>1. r.responses \in Nat
    BY RequestTypes DEF Request
  <2> QED
    BY <1>4, <2>1
<1> QED
  BY <1>1, <1>3, <1>4 DEF Refused

(* What is complete or rejected stays so through parsing and answering.    *)
LEMMA ReasonsKept ==
    ASSUME NEW s \in Request, s.life = "live"
    PROVE  /\ Follows(s, s)
           /\ ~s.done => \A r \in Parsed(s) : Follows(s, r)
           /\ \A r \in CreateResponse(s) \cup Responses(s) :
                 r.responses # 0 => Follows(s, r)
           /\ \A st \in Status \ {"OK"} : Follows(s, [s EXCEPT !.status = st])
<1>1. ASSUME ~s.done, NEW r \in Parsed(s) PROVE Follows(s, r)
  <2>1. r \in Request /\ r.life = "live"
    BY LifeKept, RequestTypes
  <2>2. r.fd = s.fd /\ (s.status # "OK" => r.status # "OK")
    BY DEF Parsed, HeaderRead, Request
  <2> QED
    BY <1>1, <2>1, <2>2, RefusalKept DEF Follows
<1>2. ASSUME NEW r \in CreateResponse(s)
      PROVE  r.fd = s.fd /\ r.done = s.done /\ r.status = s.status /\ r \in Request /\ r.life = "live"
  BY RequestTypes, LifeKept DEF CreateResponse, Request
<1> DEFINE Keeps(r) == Refused(s) => Refused(r)
<1>0. \A r \in CreateResponse(s) \cup Responses(s) : r.responses # 0 => Keeps(r)
  BY RefusalKept
<1>3. ASSUME NEW r \in Responses(s), r.responses # 0 PROVE Follows(s, r)
  <2>1. r \in Request /\ r.life = "live"
    BY RequestTypes, LifeKept
  <2>2. CASE r = s
    BY <2>1, <2>2 DEF Follows
  <2>3. CASE \E q \in CreateResponse(s) : r = [q EXCEPT !.responseDone = TRUE]
    <3>1. r.fd = s.fd /\ r.done = s.done /\ r.status = s.status
      BY <1>2, <2>3 DEF Request
    <3> QED
      BY <1>0, <1>3, <2>1, <3>1 DEF Follows
  <2> QED
    BY <2>2, <2>3 DEF Responses
<1>4. ASSUME NEW st \in Status \ {"OK"} PROVE Follows(s, [s EXCEPT !.status = st])
  <2>1. [s EXCEPT !.status = st].responses = s.responses
    BY DEF Request
  <2>2. Refused(s) => Refused([s EXCEPT !.status = st])
    BY <2>1 DEF Refused
  <2> QED
    BY <2>2 DEF Follows, Request
<1>5. Follows(s, s)
  BY DEF Follows
<1>6. ASSUME NEW r \in CreateResponse(s), r.responses # 0 PROVE Follows(s, r)
  BY <1>0, <1>2, <1>6 DEF Follows
<1> QED
  BY <1>1, <1>3, <1>4, <1>5, <1>6

(* createPipes adds filters for its own Request only.                      *)
LEMMA CreatePipesReasoned ==
    ASSUME NEW K \in KernelState, NEW c, NEW o \in CreatePipes(K, c), OnlyDrops(K), NEW r, r.done
    PROVE  AddsFor(c, r, o.kernel)
<1> DEFINE in == NewPipe(K)
           KI1 == Open(K, in[1], Pipe("in0", c))
           KI == Open(KI1, in[2], Pipe("in1", c))
           out == NewPipe(KI)
           KO1 == Open(KI, out[1], Pipe("out0", c))
           KO == Open(KO1, out[2], Pipe("out1", c))
           KW == Add(KO, in[2], "WRITE", c)
           KR == Add(KW, out[1], "READ", c)
<1>1. o.kernel \in {KR, KO, KW}
  <2> HIDE DEF in, KO, KW, KR, out
  <2>1. CreatePipes(K, c) \subseteq
            {[kernel |-> KR, in |-> in, out |-> out, ok |-> TRUE],
             [kernel |-> KO, in |-> in, out |-> out, ok |-> FALSE],
             [kernel |-> KW, in |-> in, out |-> out, ok |-> FALSE]}
    BY Zenon DEF CreatePipes, in, KI, KI1, out, KO1, KO, KW, KR
  <2> QED
    BY <2>1
<1>2. KO.knote = K.knote
  BY DEF Open
<1>3. \A k \in Fd \X Filter : KO.knote[k] \in {kernel.knote[k], NoConn}
  BY <1>2 DEF OnlyDrops
<1> HIDE DEF KO, in, out
<1>4. \A k \in Fd \X Filter : KW.knote[k] \in {kernel.knote[k], NoConn, c}
  BY <1>3 DEF Add
<1> HIDE DEF KW
<1>5. \A k \in Fd \X Filter : KR.knote[k] \in {kernel.knote[k], NoConn, c}
  BY <1>4 DEF Add
<1> HIDE DEF KR
<1> QED
  BY <1>1, <1>3, <1>4, <1>5 DEF AddsFor

(* Every handler has a reason. At an end of file met while a CGI request is*)
(* still being received, the branch for pipes closes the client's socket,  *)
(* so that the WRITE filter it goes on to ask for is refused.              *)
LEMMA HandleHasReason ==
    ASSUME ReasonsGiven, NEW e \in Events, Live(e.udata), Handle(e)
    PROVE  Reasoned(e.udata)
<1> DEFINE c == e.udata
           s == req[c]
<1>1. /\ e \in Event /\ c \in Conn /\ s \in Request /\ s.life = "live"
      /\ req' = [req EXCEPT ![c] = s] <=> req' = req
      /\ kernel \in KernelState
  BY DEF Events, Event, ReasonsGiven, TypeOK, Live
<1>2. OnlyDrops(kernel) /\ \A t : OnlyDrops(Del(kernel, e.ident, t))
  BY OnlyDropsOps DEF OnlyDrops
<1>3. /\ Follows(s, s)
      /\ ~s.done => \A r \in Parsed(s) : Follows(s, r)
      /\ \A r \in Responses(s) : r.responses # 0 => Follows(s, r)
      /\ \A st \in Status \ {"OK"} : Follows(s, [s EXCEPT !.status = st])
  BY <1>1, ReasonsKept
<1>4. ASSUME NEW r, Follows(s, r), req' = [req EXCEPT ![c] = r], AddsFor(c, r, kernel')
      PROVE  Reasoned(c)
  BY <1>4 DEF Reasoned
<1>5. ASSUME UNCHANGED req, OnlyDrops(kernel') PROVE Reasoned(c)
  BY <1>1, <1>3, <1>4, <1>5, OnlyDropsOps
<1>6. "ERROR" \in Status \ {"OK"}
  BY DEF Status
<1>7. CASE HandleTimeout(e)
  <2> DEFINE K1 == IF req[c].done THEN kernel ELSE Del(kernel, e.ident, "READ")
             K2 == Close(K1, PipeFds(c))
             st == IF req[c].done THEN "GATEWAY_TIMEOUT" ELSE "REQUEST_TIMEOUT"
             r == [s EXCEPT !.status = st]
  <2>1. OnlyDrops(K1)
    BY <1>2
  <2>2. OnlyDrops(K2)
    BY <2>1, OnlyDropsOps
  <2>3. st \in Status \ {"OK"}
    BY DEF Status
  <2>4. Follows(s, r) /\ HasReason(r)
    <3> HIDE DEF st
    <3> QED
      BY <1>1, <1>3, <2>3 DEF HasReason, Request
  <2>5. \/ /\ kernel' \in {Add(K2, e.ident, "WRITE", c), K2}
           /\ req' = [req EXCEPT ![c] = r]
        \/ kernel' = Close(K2, {e.ident}) /\ Delete(c)
    <3> HIDE DEF K2
    <3> QED
      BY <1>7 DEF HandleTimeout, K2
  <2> HIDE DEF K2, r
  <2>6. CASE /\ kernel' \in {Add(K2, e.ident, "WRITE", c), K2}
             /\ req' = [req EXCEPT ![c] = r]
    <3>1. AddsFor(c, r, kernel')
      BY <2>2, <2>4, <2>6, OnlyDropsOps
    <3> QED
      BY <1>4, <2>4, <2>6, <3>1
  <2>7. CASE kernel' = Close(K2, {e.ident}) /\ Delete(c)
    BY <2>2, <2>7, OnlyDropsOps DEF Reasoned, OnlyDrops
  <2> QED
    BY <2>5, <2>6, <2>7
<1>8. CASE PipeEof(e)
  <2> DEFINE K == Close(Del(kernel, e.ident, "READ"), {e.ident})
  <2>1. OnlyDrops(K)
    BY <1>2, OnlyDropsOps
  <2>2. HasReason(s) \/ ~IsOpen(K, s.fd)
    <3>1. SUFFICES ASSUME ~HasReason(s) PROVE ~IsOpen(K, s.fd)
      OBVIOUS
    <3>2. e.ident = s.fd
      BY <1>8, <3>1 DEF PipeEof, Handling, HasReason, ReasonsGiven
    <3> QED
      BY <3>2 DEF IsOpen, Close, Closed
  <2>3. AddWriteOrClean(K, s.fd, c, s)
    BY <1>8 DEF PipeEof
  <2> HIDE DEF K
  <2> QED
    BY <1>3, <2>1, <2>2, <2>3, AddWriteOrCleanReasoned
<1>9. CASE ClientEof(e) \/ WriteEof(e) \/ SendAll(e) \/ SendFailed(e)
  BY <1>1, <1>2, <1>9, CloseClientReasoned DEF ClientEof, WriteEof, SendAll, SendFailed
<1>10. CASE RecvFailed(e)
  <2>1. OnlyDrops(Del(Del(kernel, e.ident, "READ"), e.ident, "TIMER"))
    BY <1>2, OnlyDropsOps
  <2> QED
    BY <1>1, <1>10, <2>1, CloseClientReasoned DEF RecvFailed
<1>11. CASE ReadPipe(e) \/ HeaderBreaks(e) \/ WritePipePart(e) \/ Killed(e)
  <2>1. UNCHANGED <<kernel, req>>
    BY <1>11 DEF ReadPipe, HeaderBreaks, WritePipePart, Killed
  <2>2. OnlyDrops(kernel')
    BY <1>2, <2>1
  <2> QED
    BY <1>5, <2>1, <2>2
<1>12. CASE WritePipeAll(e)
  BY <1>2, <1>5, <1>12, OnlyDropsOps DEF WritePipeAll
<1>13. CASE ReadPipeFailed(e)
  <2>1. HasReason([s EXCEPT !.status = "ERROR"])
    BY <1>1 DEF HasReason, Request
  <2> QED
    BY <1>2, <1>3, <1>6, <1>13, <2>1, AddWriteOrCleanReasoned DEF ReadPipeFailed
<1>14. CASE ReceiveMore(e) \/ StartDelete(e)
  <2>1. PICK r \in Parsed(s) :
           /\ ~s.done
           /\ req' = [req EXCEPT ![c] = r]
           /\ kernel' \in {kernel, Del(kernel, e.ident, "READ")}
    BY <1>14 DEF ReceiveMore, StartDelete, Received
  <2>2. AddsFor(c, r, kernel')
    BY <1>2, <2>1, OnlyDropsOps
  <2> QED
    BY <1>3, <1>4, <2>1, <2>2
<1>15. CASE ReceiveLast(e)
  <2>1. PICK r \in Parsed(s) :
           /\ ~s.done /\ Answerable(r)
           /\ AddWriteOrClean(Del(kernel, e.ident, "READ"), e.ident, c, r)
    BY <1>15 DEF ReceiveLast, Received
  <2>2. HasReason(r)
    BY <2>1 DEF Answerable, HasReason
  <2> QED
    BY <1>2, <1>3, <2>1, <2>2, AddWriteOrCleanReasoned
<1>16. CASE WritePipeFailed(e)
  <2> DEFINE t == [s EXCEPT !.status = "ERROR"]
  <2>1. PICK r \in CreateResponse(t) :
           AddWriteOrClean(Del(kernel, e.ident, "WRITE"), s.fd, c, r)
    BY <1>16 DEF WritePipeFailed
  <2>2. Follows(s, t) /\ t.status = "ERROR" /\ t \in Request /\ t.life = "live"
    BY <1>1, <1>3, <1>6 DEF Follows, Request
  <2>3. Follows(t, r)
    BY <2>1, <2>2, ReasonsKept, RefusalKept
  <2>4. Follows(s, r) /\ HasReason(r)
    BY <2>2, <2>3 DEF Follows, HasReason
  <2> QED
    BY <1>2, <2>1, <2>4, AddWriteOrCleanReasoned
<1>17. CASE SendPart(e)
  <2>1. PICK r \in Responses(s) :
           r.responses # 0 /\ req' = [req EXCEPT ![c] = r] /\ UNCHANGED kernel
    BY <1>17 DEF SendPart
  <2>2. AddsFor(c, r, kernel')
    BY <1>2, <2>1, OnlyDropsOps
  <2> QED
    BY <1>3, <1>4, <2>1, <2>2
<1>18. CASE StartWithoutPipes(e) \/ StartScript(e)
  <2> DEFINE K == Del(kernel, e.ident, "READ")
  <2>1. PICK r \in Parsed(s), o \in CreatePipes(K, c) :
           /\ ~s.done /\ r.done
           /\ \/ req' = [req EXCEPT ![c] = WithPipes(r, o)]
              \/ req' = [req EXCEPT ![c] = [WithPipes(r, o) EXCEPT !.status = "ERROR",
                                                                   !.isCgi = FALSE]]
           /\ kernel' \in {o.kernel, Close(o.kernel, {o.out[2], o.in[1]})}
    <3>1. CASE StartWithoutPipes(e)
      BY <3>1 DEF StartWithoutPipes, Received, StartsCgi
    <3>2. CASE StartScript(e)
      BY <3>2 DEF StartScript, Received, StartsCgi
    <3> QED
      BY <1>18, <3>1, <3>2
  <2>2. K \in KernelState
    BY <1>1, DelType
  <2>3. Follows(s, r) /\ r \in Request
    BY <1>3, <2>1 DEF Follows
  <2>4. Follows(s, WithPipes(r, o)) /\ WithPipes(r, o) \in Request /\ WithPipes(r, o).done
    <3>1. WithPipes(r, o) \in Request
      BY <1>1, <2>2, <2>3, WithPipesType
    <3>2. /\ WithPipes(r, o).life = r.life /\ WithPipes(r, o).fd = r.fd
          /\ WithPipes(r, o).done = r.done /\ WithPipes(r, o).status = r.status
          /\ WithPipes(r, o).responses = r.responses
      BY <2>3 DEF WithPipes, Request
    <3>3. Refused(r) => Refused(WithPipes(r, o))
      BY <3>2 DEF Refused
    <3> QED
      BY <2>1, <2>3, <3>1, <3>2, <3>3 DEF Follows
  <2>5. PICK q : Follows(s, q) /\ q.done /\ req' = [req EXCEPT ![c] = q]
    <3> DEFINE q == [WithPipes(r, o) EXCEPT !.status = "ERROR", !.isCgi = FALSE]
    <3>0. q.responses = WithPipes(r, o).responses
      BY <2>4 DEF Request
    <3>1. Refused(s) => Refused(q)
      BY <2>4, <3>0 DEF Refused, Follows
    <3>3. Follows(s, q) /\ q.done
      BY <2>4, <3>1 DEF Follows, Request, Status
    <3> HIDE DEF q
    <3>2. req' = [req EXCEPT ![c] = q] \/ req' = [req EXCEPT ![c] = WithPipes(r, o)]
      BY <2>1 DEF q
    <3> QED
      BY <2>4, <3>2, <3>3
  <2>6. AddsFor(c, q, o.kernel)
    BY <1>2, <2>2, <2>5, CreatePipesReasoned
  <2>7. AddsFor(c, q, kernel')
    BY <2>1, <2>6 DEF AddsFor, Close
  <2> QED
    BY <1>4, <2>5, <2>7
<1> QED
  BY <1>7, <1>8, <1>9, <1>10, <1>11, <1>12, <1>13, <1>14, <1>15, <1>16, <1>17, <1>18
     DEF Handle, ReadRequest, SendResponse

(* c is accepted on f with the Request r: its filters are of its own       *)
(* socket, and room to write is asked for only if newClient has refused it.*)
AcceptedOn(c, f, r) ==
    /\ f \in Fd /\ Accept(c, f)
    /\ r \in {NewRequest(f), [NewRequest(f) EXCEPT !.responses = 1], Freed}
    /\ req' = [req EXCEPT ![c] = r]
    /\ UNCHANGED batch
    /\ \A k \in Fd \X Filter :
          \/ kernel'.knote[k] \in {kernel.knote[k], NoConn}
          \/ /\ kernel'.knote[k] = c /\ k[1] = f /\ r.life = "live"
             /\ k[2] = "WRITE" => Refused(r)
    /\ \A g \in Fd : kernel'.desc[g] \in {kernel.desc[g], Sock(c), Closed}

(* Whether a call fails or not, this is what accept leaves of a connection.*)
LEMMA AcceptedFilters ==
    ASSUME NEW c \in Conn, AcceptOne(c) \/ AcceptFault(c)
    PROVE  \E f, r : AcceptedOn(c, f, r)
<1>1. CASE AcceptOne(c)
  <2>1. PICK f \in Fd :
           /\ Accept(c, f)
           /\ kernel' = Add(Add(Open(kernel, f, Sock(c)), f, "READ", c), f, "TIMER", c)
           /\ req' = [req EXCEPT ![c] = NewRequest(f)]
           /\ UNCHANGED batch
    BY <1>1 DEF AcceptOne, AcceptVars
  <2>2. \A k \in Fd \X Filter :
           \/ kernel'.knote[k] = kernel.knote[k]
           \/ kernel'.knote[k] = c /\ k[1] = f /\ k[2] # "WRITE"
    BY <2>1 DEF Add, Open
  <2>3. \A g \in Fd : kernel'.desc[g] \in {kernel.desc[g], Sock(c)}
    BY <2>1 DEF Add, Open
  <2>4. NewRequest(f).life = "live"
    BY DEF NewRequest
  <2>5. AcceptedOn(c, f, NewRequest(f))
    BY <2>1, <2>2, <2>3, <2>4 DEF AcceptedOn
  <2> QED
    BY <2>5
<1>2. CASE AcceptFault(c)
  <2>1. PICK f \in Fd, readAdded \in BOOLEAN :
           LET K == IF readAdded THEN Add(Open(kernel, f, Sock(c)), f, "READ", c)
                                 ELSE Open(kernel, f, Sock(c))
           IN  /\ KernelMayFail
               /\ Accept(c, f)
               /\ \/ /\ kernel' = Add(K, f, "WRITE", c)
                     /\ req' = [req EXCEPT ![c] = [NewRequest(f) EXCEPT !.responses = 1]]
                  \/ /\ kernel' = Close(K, {f})
                     /\ req' = [req EXCEPT ![c] = Freed]
               /\ UNCHANGED batch
    BY <1>2 DEF AcceptFault, AcceptVars
  <2> DEFINE K == IF readAdded THEN Add(Open(kernel, f, Sock(c)), f, "READ", c)
                               ELSE Open(kernel, f, Sock(c))
             r == [NewRequest(f) EXCEPT !.responses = 1]
  <2>2. \A k \in Fd \X Filter : \/ K.knote[k] = kernel.knote[k]
                                \/ k = <<f, "READ">> /\ K.knote[k] = c
    BY DEF Add, Open
  <2>3. \A g \in Fd : K.desc[g] \in {kernel.desc[g], Sock(c)}
    BY DEF Add, Open
  <2>4. r.life = "live" /\ Refused(r)
    BY <2>1 DEF NewRequest, Refused
  <2> HIDE DEF K, r
  <2>5. CASE kernel' = Add(K, f, "WRITE", c) /\ req' = [req EXCEPT ![c] = r]
    <3>1. \A k \in Fd \X Filter :
             \/ kernel'.knote[k] = kernel.knote[k]
             \/ kernel'.knote[k] = c /\ k \in {<<f, "READ">>, <<f, "WRITE">>}
      BY <2>2, <2>5 DEF Add
    <3>2. \A g \in Fd : kernel'.desc[g] \in {kernel.desc[g], Sock(c)}
      BY <2>3, <2>5 DEF Add
    <3>3. \A k \in Fd \X Filter :
             \/ kernel'.knote[k] = kernel.knote[k]
             \/ kernel'.knote[k] = c /\ k[1] = f
      BY <3>1
    <3>4. r \in {NewRequest(f), [NewRequest(f) EXCEPT !.responses = 1], Freed}
      BY DEF r
    <3>5. AcceptedOn(c, f, r)
      BY <2>1, <2>4, <2>5, <3>2, <3>3, <3>4 DEF AcceptedOn
    <3> QED
      BY <3>5
  <2>6. CASE kernel' = Close(K, {f}) /\ req' = [req EXCEPT ![c] = Freed]
    <3>1. \A k \in Fd \X Filter : kernel'.knote[k] \in {kernel.knote[k], NoConn}
      BY <2>2, <2>6 DEF Close
    <3>2. \A g \in Fd : kernel'.desc[g] \in {kernel.desc[g], Sock(c), Closed}
      BY <2>3, <2>6 DEF Close
    <3>3. AcceptedOn(c, f, Freed)
      BY <2>1, <2>6, <3>1, <3>2 DEF AcceptedOn
    <3> QED
      BY <3>3
  <2> QED
    BY <2>1, <2>5, <2>6 DEF K, r
<1> QED
  BY <1>1, <1>2

(* A connection that is accepted has no filter yet, and none to write but  *)
(* for newClient's own response.                                           *)
LEMMA NewClientReasons == ReasonsGiven /\ NewClient => ReasonsGiven'
<1> SUFFICES ASSUME ReasonsGiven, NewClient PROVE ReasonsGiven'
  OBVIOUS
<1>0. TypeOK'
  BY NewClientType DEF ReasonsGiven
<1>1. CASE ListenEvent \/ AcceptDone
  <2>1. UNCHANGED <<kernel, req, peer>> /\ Events' \subseteq Events
    BY <1>1 DEF ListenEvent, AcceptDone, AcceptVars, Events
  <2> QED
    BY <1>0, <2>1 DEF ReasonsGiven, Registered, Live
<1>2. ASSUME NEW c \in Conn, AcceptOne(c) \/ AcceptFault(c) PROVE ReasonsGiven'
  <2>0. PICK f, r : AcceptedOn(c, f, r)
    BY <1>2, AcceptedFilters
  <2>1. /\ f \in Fd /\ Accept(c, f)
        /\ r \in {NewRequest(f), [NewRequest(f) EXCEPT !.responses = 1], Freed}
        /\ req' = [req EXCEPT ![c] = r]
        /\ UNCHANGED batch
        /\ \A k \in Fd \X Filter :
              \/ kernel'.knote[k] \in {kernel.knote[k], NoConn}
              \/ /\ kernel'.knote[k] = c /\ k[1] = f /\ r.life = "live"
                 /\ k[2] = "WRITE" => Refused(r)
    BY <2>0 DEF AcceptedOn
  <2>2. req[c].life = "unborn" /\ peer' = [peer EXCEPT ![c] = "open"]
    BY <2>1 DEF Accept, AcceptQueue, ReasonsGiven
  <2>3. \A d \in Conn : req'[d] = IF d = c THEN r ELSE req[d]
    BY <2>1 DEF ReasonsGiven, TypeOK
  <2>4. r.life # "unborn" /\ (r.life = "live" => r.fd = f)
    BY <2>1 DEF NewRequest, Freed
  <2>5. \A k \in Registered(kernel) : kernel.knote[k] \in Conn /\ kernel.knote[k] # c
    BY <2>2 DEF Registered, ReasonsGiven, TypeOK, KernelState
  <2>6. \A e \in Events : e.udata \in Conn /\ e.udata # c
    BY <2>2 DEF ReasonsGiven, TypeOK, Events, Event
  <2>7. Events' = Events
    BY <2>1 DEF Events
  <2>8. \A d \in Conn : peer'[d] \in {"away", "queued"} => req'[d].life = "unborn"
    BY <2>2, <2>3 DEF ReasonsGiven, TypeOK
  <2>9. \A k \in Fd \X Filter, d \in Conn :
           kernel'.knote[k] = d =>
              \/ d = c /\ k[1] = f /\ (k[2] = "WRITE" => Refused(r))
              \/ d # c /\ kernel.knote[k] = d
    <3>1. \A k \in Fd \X Filter : kernel.knote[k] # c
      BY <2>5, NoConnAssumption DEF Registered
    <3> QED
      BY <2>1, <3>1, NoConnAssumption
  <2>10. \A k \in Registered(kernel)' : req'[kernel'.knote[k]].life # "unborn"
    <3> SUFFICES ASSUME NEW k \in Registered(kernel)'
                 PROVE  req'[kernel'.knote[k]].life # "unborn"
      OBVIOUS
    <3>1. k \in Fd \X Filter /\ kernel'.knote[k] # NoConn
      BY DEF Registered
    <3>2. CASE kernel'.knote[k] = c
      BY <2>3, <2>4, <3>2
    <3>3. CASE kernel'.knote[k] # c
      <4>1. kernel'.knote[k] = kernel.knote[k]
        BY <2>1, <3>1, <3>3
      <4>2. k \in Registered(kernel)
        BY <3>1, <4>1 DEF Registered
      <4> QED
        BY <2>3, <2>5, <4>1, <4>2 DEF ReasonsGiven
    <3> QED
      BY <3>2, <3>3
  <2>11. \A e \in Events' :
            /\ req'[e.udata].life # "unborn"
            /\ (Live(e.udata)' /\ ~req'[e.udata].done /\ e.filter = "READ") => e.ident = req'[e.udata].fd
    BY <2>3, <2>6, <2>7 DEF ReasonsGiven, Live
  <2>12. ASSUME NEW g \in Fd, NEW d \in Conn,
                Live(d)', ~req'[d].done, kernel'.knote[<<g, "READ">>] = d
         PROVE  g = req'[d].fd
    <3>1. <<g, "READ">> \in Fd \X Filter
      BY DEF Filter
    <3> QED
      BY <2>3, <2>4, <2>9, <2>12, <3>1 DEF ReasonsGiven, Live
  <2>13. ASSUME NEW g \in Fd, NEW d \in Conn, Live(d)', kernel'.knote[<<g, "WRITE">>] = d
         PROVE  HasReason(req'[d])
    <3>1. <<g, "WRITE">> \in Fd \X Filter
      BY DEF Filter
    <3>2. CASE d = c
      BY <2>3, <2>9, <2>13, <3>1, <3>2 DEF HasReason
    <3>3. CASE d # c
      BY <2>3, <2>9, <2>13, <3>1, <3>3 DEF ReasonsGiven, Live
    <3> QED
      BY <3>2, <3>3
  <2>14. \A d \in Conn : Live(d)' => req'[d].fd \in Fd
    BY <2>1, <2>3, <2>4 DEF ReasonsGiven, Live
  <2> QED
    BY <1>0, <2>8, <2>10, <2>11, <2>12, <2>13, <2>14 DEF ReasonsGiven
<1> QED
  BY <1>1, <1>2 DEF NewClient

(* kevent collects events of filters.                                      *)
LEMMA KeventReasons == ReasonsGiven /\ Kevent => ReasonsGiven'
<1> SUFFICES ASSUME ReasonsGiven, Kevent PROVE ReasonsGiven'
  OBVIOUS
<1>0. TypeOK'
  BY KeventType DEF ReasonsGiven
<1>1. UNCHANGED <<kernel, req, peer>>
  BY DEF Kevent, KeventVars
<1>2. ASSUME NEW e \in Events'
      PROVE  \E k \in Registered(kernel) : e = Reported(k)
  <2>1. PICK S \in SUBSET Possible, L \in SUBSET ListenPending :
           batch' = {Reported(k) : k \in S} \cup L
    BY DEF Kevent
  <2>2. S \subseteq Registered(kernel) /\ L \subseteq {ListenReady}
    BY DEF Possible, Pending, ListenPending
  <2> QED
    BY <1>2, <2>1, <2>2 DEF Events
<1>3. ASSUME NEW e \in Events'
      PROVE  /\ req[e.udata].life # "unborn"
             /\ (Live(e.udata) /\ ~req[e.udata].done /\ e.filter = "READ") => e.ident = req[e.udata].fd
  <2>1. PICK k \in Registered(kernel) : e = Reported(k)
    BY <1>2
  <2>2. /\ e.udata = kernel.knote[k] /\ e.filter = k[2] /\ e.ident = k[1]
        /\ k[1] \in Fd /\ k = <<k[1], k[2]>> /\ kernel.knote[k] \in Conn
    BY <2>1 DEF Reported, Registered, ReasonsGiven, TypeOK, KernelState
  <2> QED
    BY <2>2 DEF ReasonsGiven
<1> QED
  BY <1>0, <1>1, <1>3 DEF ReasonsGiven, Registered, Live

(* Every step keeps to the reasons.                                        *)
LEMMA ReasonsNext == ReasonsGiven /\ [Next]_vars => ReasonsGiven'
<1> SUFFICES ASSUME ReasonsGiven, [Next]_vars PROVE ReasonsGiven'
  OBVIOUS
<1>0. TypeOK /\ TypeOK'
  BY TypeNext DEF ReasonsGiven
<1>1. CASE Environment
  <2>1. UNCHANGED <<kernel, req, batch>>
    BY <1>1 DEF Environment, Connect, Send, Disconnect, ChildOutput, ChildExit, World
  <2>2. \A c \in Conn : peer'[c] \in {"away", "queued"} => peer[c] \in {"away", "queued"}
    BY <1>0, <1>1 DEF Environment, Connect, Send, Disconnect, ChildOutput, ChildExit, TypeOK
  <2> QED
    BY <1>0, <2>1, <2>2 DEF ReasonsGiven, Events, Registered, Live
<1>2. CASE NewClient
  BY <1>2, NewClientReasons
<1>3. CASE Kevent
  BY <1>3, KeventReasons
<1>4. ASSUME NEW e \in Events, Live(e.udata), Handle(e) PROVE ReasonsGiven'
  <2>1. e.udata \in Conn
    BY <1>0 DEF Events, TypeOK, Event
  <2> QED
    BY <1>0, <1>4, <2>1, HandlePeer, HandleHasReason, HandlerHasReason
<1>5. CASE Interrupted \/ (\E e \in Events : TouchFreed(e)) \/ UNCHANGED vars
  <2>1. UNCHANGED <<req, kernel, peer>> /\ Events' \subseteq Events
    BY <1>5 DEF Interrupted, KeventVars, TouchFreed, vars, Events
  <2> QED
    BY <1>0, <2>1 DEF ReasonsGiven, Registered, Live
<1> QED
  BY <1>1, <1>2, <1>3, <1>4, <1>5 DEF Next, RunServer, Events

(* In every deployment the server begins to answer a request only when it  *)
(* is complete, rejected or timed out; or, where the calls that set up a   *)
(* connection may fail, if newClient has refused it.                       *)
THEOREM AnswersDeserved == Spec => []NoEarlyAnswer
<1>1. Init => ReasonsGiven
  BY TypeInit DEF Init, ReasonsGiven, EmptyKernel, Unborn, NewRequest, Events, Registered, Live
<1>2. ReasonsGiven => NoEarlyAnswer
  <2> SUFFICES ASSUME ReasonsGiven, NEW c \in Conn, Answering(c)
               PROVE  HasReason(req[c])
    BY DEF NoEarlyAnswer, HasReason
  <2> QED
    BY DEF Answering, ReasonsGiven
<1> QED
  BY <1>1, <1>2, ReasonsNext, PTL DEF Spec
=================================================================================
