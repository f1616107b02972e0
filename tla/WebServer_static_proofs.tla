------------------------ MODULE WebServer_static_proofs ------------------------
(***************************************************************************)
(* The event loop of a deployment whose configuration has no CGI location  *)
(* and whose system calls do not fail: StaticInv is inductive, whatever    *)
(* the number of connections, descriptors and events per batch; and the    *)
(* event loop implements Connections.                                      *)
(***************************************************************************)
EXTENDS WebServer_proofs, FiniteSetTheorems

Plain == ~HasCgi /\ ~KernelMayFail

USE DEF Events, Live, Desc, Answering

-----------------------------------------------------------------------------
(* What a handler finds                                                     *)

(* An event of a live Request names the Request's own open socket, and the *)
(* Request has no pipe that could be taken for it.                         *)
LEMMA OwnSocket ==
    ASSUME TypeOK, StaticInv, NEW e \in Events, Live(e.udata)
    PROVE  /\ e \in Event /\ e.udata \in Conn
           /\ e.ident \in Fd /\ e.ident = req[e.udata].fd
           /\ Desc(e.ident) = Sock(e.udata) /\ IsOpen(kernel, e.ident)
           /\ PipeFds(e.udata) = {NoFd} /\ NoFd \notin Fd
           /\ ~OnPipeOut(e) /\ OnClient(e) /\ ~OnPipeIn(e) /\ OnClientWrite(e)
<1> DEFINE c == e.udata
<1>1. e \in Event /\ c \in Conn /\ e.ident \in Fd
  BY DEF TypeOK, Event
<1>2. e.ident = req[c].fd /\ req[c].pipe = NoPipes
  BY <1>1 DEF StaticInv, PlainRequests, OnlyTimersGoStale
<1>3. Desc(e.ident) = Sock(c)
  BY <1>1, <1>2 DEF StaticInv, DescriptorsOwned
<1>4. IsOpen(kernel, e.ident)
  BY <1>1, <1>3 DEF IsOpen, Sock
<1>5. NoFd \notin Fd
  BY MaxFdAssumption DEF NoFd, Fd
<1>6. \A p \in PipeEnd : req[c].pipe[p] = NoFd
  BY <1>2 DEF NoPipes
<1>7. PipeFds(c) = {NoFd}
  BY <1>6 DEF PipeFds, PipeEnd
<1>8. ~OnPipeOut(e) /\ ~OnPipeIn(e)
  BY <1>1, <1>5, <1>6 DEF OnPipeOut, OnPipeIn, PipeEnd
<1> QED
  BY <1>1, <1>2, <1>3, <1>4, <1>5, <1>7, <1>8 DEF OnClient, OnClientWrite

(* K is the kernel after filters of e's descriptor were removed.           *)
FiltersRemoved(K, e) ==
    /\ K \in KernelState
    /\ K.desc = kernel.desc
    /\ \A k \in Fd \X Filter : k[1] # e.ident => K.knote[k] = kernel.knote[k]

(* EV_DELETE touches one filter.                                           *)
LEMMA DelRemoves ==
    ASSUME TypeOK, NEW e, NEW t, NEW K, FiltersRemoved(K, e)
    PROVE  FiltersRemoved(Del(K, e.ident, t), e)
<1>1. Del(K, e.ident, t) \in KernelState
  BY DelType DEF FiltersRemoved
<1>2. \A k \in Fd \X Filter : k[1] # e.ident => k # <<e.ident, t>>
  OBVIOUS
<1> QED
  BY <1>1, <1>2 DEF FiltersRemoved, Del, Add

(* Removing nothing.                                                       *)
LEMMA NothingRemoved == ASSUME TypeOK, NEW e PROVE FiltersRemoved(kernel, e)
BY DEF FiltersRemoved, TypeOK

(* The connection is gone: its descriptor, its filters and its Request.    *)
Gone(e) ==
    /\ kernel' = [desc  |-> [f \in Fd |-> IF f = e.ident THEN Closed ELSE kernel.desc[f]],
                  knote |-> [k \in Fd \X Filter |->
                                IF k[1] = e.ident THEN NoConn ELSE kernel.knote[k]]]
    /\ req' = [req EXCEPT ![e.udata] = Freed]
    /\ UNCHANGED child

(* closeClient removes everything the connection had.                      *)
LEMMA CloseClientEffect ==
    ASSUME TypeOK, StaticInv, NEW e \in Events, Live(e.udata),
           NEW K, FiltersRemoved(K, e), CloseClient(K, e)
    PROVE  Gone(e)
<1> DEFINE c == e.udata
           K1 == Close(K, PipeFds(c))
           K2 == IF IsOpen(K1, e.ident) THEN Del(K1, e.ident, "TIMER") ELSE K1
<1>1. c \in Conn /\ PipeFds(c) = {NoFd} /\ NoFd \notin Fd /\ e.ident \in Fd
      /\ IsOpen(kernel, e.ident)
  BY OwnSocket
<1>2. child' = child
  <2>1. child \in [Conn -> {"none", "running", "signalled", "exited"}] /\ child[c] = "none"
    BY <1>1 DEF TypeOK, StaticInv, PlainRequests
  <2> QED
    BY <2>1 DEF CloseClient, Kill
<1>3. K1.desc = kernel.desc /\ K1.knote = K.knote
  BY <1>1 DEF Close, FiltersRemoved, KernelState
<1>4. K2 = Del(K1, e.ident, "TIMER")
  BY <1>1, <1>3 DEF IsOpen
<1>5. /\ K2.desc = kernel.desc
      /\ K2.knote = [k \in Fd \X Filter |-> IF k = <<e.ident, "TIMER">> THEN NoConn
                                                                        ELSE K.knote[k]]
  BY <1>3, <1>4 DEF Del, Add
<1>6. kernel' = Close(K2, {e.ident})
  BY DEF CloseClient
<1>7. [k \in Fd \X Filter |-> IF k[1] \in {e.ident} /\ k[2] # "TIMER" THEN NoConn
                                                                      ELSE K2.knote[k]]
         = [k \in Fd \X Filter |-> IF k[1] = e.ident THEN NoConn ELSE kernel.knote[k]]
  <2>1. ASSUME NEW k \in Fd \X Filter
        PROVE  (IF k[1] \in {e.ident} /\ k[2] # "TIMER" THEN NoConn ELSE K2.knote[k])
                  = (IF k[1] = e.ident THEN NoConn ELSE kernel.knote[k])
    <3>1. K2.knote[k] = IF k = <<e.ident, "TIMER">> THEN NoConn ELSE K.knote[k]
      BY <1>5
    <3>2. k[1] # e.ident => K2.knote[k] = kernel.knote[k]
      BY <3>1 DEF FiltersRemoved
    <3>3. (k[1] = e.ident /\ k[2] = "TIMER") => K2.knote[k] = NoConn
      BY <3>1
    <3> QED
      BY <3>2, <3>3
  <2> QED
    BY <2>1
<1>9. [f \in Fd |-> IF f \in {e.ident} THEN Closed ELSE K2.desc[f]]
         = [f \in Fd |-> IF f = e.ident THEN Closed ELSE kernel.desc[f]]
  BY <1>5
<1>8. kernel' = [desc  |-> [f \in Fd |-> IF f = e.ident THEN Closed ELSE kernel.desc[f]],
                 knote |-> [k \in Fd \X Filter |->
                               IF k[1] = e.ident THEN NoConn ELSE kernel.knote[k]]]
  <2> HIDE DEF K2
  <2> QED
    BY <1>6, <1>7, <1>9 DEF Close
<1> QED
  BY <1>2, <1>8 DEF CloseClient, Delete, Gone

-----------------------------------------------------------------------------
(* What the steps do to the invariant                                       *)

(* The Requests and the loop are as they were, but for e's connection.     *)
Handled(e) ==
    /\ batch' = batch \ {e}
    /\ peer' = peer
    /\ \A d \in Conn \ {e.udata} : rx'[d] = rx[d]

(* Two connections never share a descriptor.                               *)
LEMMA OwnDescriptor ==
    ASSUME StaticInv, NEW c \in Conn, NEW d \in Conn, Live(c), Live(d), req[c].fd = req[d].fd
    PROVE  c = d
<1>1. Sock(c) = Sock(d)
  BY DEF StaticInv, DescriptorsOwned
<1>2. Sock(c).conn = c /\ Sock(d).conn = d
  BY DEF Sock
<1> QED
  BY <1>1, <1>2

(* The connection of e is closed: its client has gone, or has been sent its*)
(* response now, or what it was to be served has vanished.                 *)
Closes(e) ==
    LET c == e.udata
    IN  /\ Gone(e) /\ e.filter # "TIMER"
        /\ \/ peer[c] # "open" /\ inbox' = inbox
           \/ /\ peer[c] = "open" /\ e.filter = "WRITE"
              /\ inbox' = [inbox EXCEPT ![c] = {<<c, 1>>}]
           \/ /\ peer[c] = "open" /\ e.filter = "WRITE"
              /\ ~Owed(req[c]) /\ inbox' = inbox

(* Closing a connection keeps the invariant: the other events of the batch *)
(* that name the Request can only be its timer's.                          *)
LEMMA ClosesKeepsInv ==
    ASSUME TypeOK, StaticInv, NEW e \in Events, Live(e.udata), Closes(e), Handled(e)
    PROVE  StaticInv'
<1> DEFINE c == e.udata
<1>1. /\ c \in Conn /\ e.ident \in Fd /\ e.ident = req[c].fd
      /\ Desc(e.ident) = Sock(c)
  BY OwnSocket
<1>13. e.filter # "TIMER" /\ Gone(e)
  BY DEF Closes
<1>14. \A d \in Conn : inbox'[d] \subseteq {<<d, 1>>}
  <2>1. /\ inbox \in [Conn -> SUBSET (Conn \X Nat)]
        /\ \A d \in Conn : inbox[d] \subseteq {<<d, 1>>}
    BY DEF StaticInv, OwnSingleResponse, TypeOK
  <2>2. CASE inbox' = inbox
    BY <2>1, <2>2
  <2>3. CASE inbox' = [inbox EXCEPT ![c] = {<<c, 1>>}]
    <3>1. inbox'[c] = {<<c, 1>>} /\ \A d \in Conn : d # c => inbox'[d] = inbox[d]
      BY <1>1, <2>1, <2>3
    <3> QED
      BY <2>1, <3>1
  <2> QED
    BY <2>2, <2>3 DEF Closes
<1>2. /\ req' = [req EXCEPT ![c] = Freed]
      /\ req'[c].life = "freed"
      /\ \A d \in Conn : d # c => req'[d] = req[d]
  BY <1>1, <1>13 DEF Gone, TypeOK, Freed, NewRequest, Unborn
<1>3. /\ \A f \in Fd : kernel'.desc[f] = IF f = e.ident THEN Closed ELSE kernel.desc[f]
      /\ \A k \in Fd \X Filter :
            kernel'.knote[k] = IF k[1] = e.ident THEN NoConn ELSE kernel.knote[k]
  BY <1>13 DEF Gone
<1>4. \A d \in Conn : (d # c /\ Live(d)) => req[d].fd # e.ident
  BY <1>1, OwnDescriptor
<1>5. Events' = Events \ {e}
  BY DEF Handled
<1>6. PlainRequests'
  BY <1>1, <1>2, <1>13 DEF StaticInv, PlainRequests, Gone, Handled
<1>7. EventsStillTrue'
  <2>1. ASSUME NEW d \in Events, d # e
        PROVE  /\ req'[d.udata].life # "unborn"
               /\ d.eof => peer'[d.udata] \in (IF d.filter = "READ" THEN {"closed", "reset"}
                                                                  ELSE {"reset"})
               /\ (d.filter = "READ" /\ ~d.eof) => rx'[d.udata]
               /\ (d.filter = "WRITE" /\ req'[d.udata].life = "live")
                     => kernel'.knote[<<req'[d.udata].fd, "WRITE">>] = d.udata
    <3>1. d.udata \in Conn
      BY DEF TypeOK, Event
    <3>2. CASE d.udata = c
      <4>1. d.filter = "TIMER"
        BY <1>13, <2>1, <3>2 DEF StaticInv, EventsStillTrue
      <4> QED
        BY <1>2, <3>2, <4>1 DEF Handled, StaticInv, EventsStillTrue
    <3>3. CASE d.udata # c
      <4>1. req'[d.udata] = req[d.udata]
        BY <1>2, <3>1, <3>3
      <4>2. Live(d.udata) => /\ req[d.udata].fd \in Fd /\ req[d.udata].fd # e.ident
                             /\ <<req[d.udata].fd, "WRITE">> \in Fd \X Filter
        BY <1>4, <3>1, <3>3 DEF StaticInv, PlainRequests, Filter
      <4>3. (d.filter = "WRITE" /\ Live(d.udata))
               => kernel'.knote[<<req[d.udata].fd, "WRITE">>] = d.udata
        BY <1>3, <4>2 DEF StaticInv, EventsStillTrue
      <4> QED
        BY <3>1, <3>3, <4>1, <4>3 DEF Handled, StaticInv, EventsStillTrue
    <3> QED
      BY <3>2, <3>3
  <2>2. \A e1, e2 \in Events \ {e} :
           (e1.udata = e2.udata /\ e1.filter # "TIMER" /\ e2.filter # "TIMER") => e1 = e2
    BY DEF StaticInv, EventsStillTrue
  <2> QED
    BY <1>5, <2>1, <2>2 DEF EventsStillTrue
<1>8. NoDanglingFilter'
  <2>1. ASSUME NEW k \in Fd \X Filter, kernel'.knote[k] # NoConn
        PROVE  /\ req'[kernel'.knote[k]].life = "live"
               /\ req'[kernel'.knote[k]].fd = k[1]
    <3>1. k[1] # e.ident /\ kernel'.knote[k] = kernel.knote[k]
      BY <1>3, <2>1
    <3>2. Live(kernel.knote[k]) /\ req[kernel.knote[k]].fd = k[1]
      BY <2>1, <3>1 DEF StaticInv, NoDanglingFilter, Registered
    <3>3. kernel.knote[k] \in Conn
      BY <2>1, <3>1 DEF TypeOK, KernelState
    <3> QED
      BY <1>1, <1>2, <3>1, <3>2, <3>3
  <2> QED
    BY <2>1 DEF NoDanglingFilter, Registered
<1>9. OnlyTimersGoStale'
  <2>1. ASSUME NEW d \in Events, d # e
        PROVE  IF req'[d.udata].life = "live" THEN d.ident = req'[d.udata].fd
                                              ELSE d.filter = "TIMER"
    <3>1. d.udata \in Conn
      BY DEF TypeOK, Event
    <3>2. d.udata = c => d.filter = "TIMER"
      BY <1>13, <2>1 DEF StaticInv, EventsStillTrue
    <3> QED
      BY <1>2, <3>1, <3>2 DEF StaticInv, OnlyTimersGoStale
  <2> QED
    BY <1>5, <2>1 DEF OnlyTimersGoStale
<1>10. DescriptorsOwned'
  <2>1. ASSUME NEW f \in Fd, IsOpen(kernel', f)
        PROVE  \E d \in Conn : /\ req'[d].life = "live" /\ req'[d].fd = f
                               /\ kernel'.desc[f] = Sock(d)
    <3>1. f # e.ident /\ kernel'.desc[f] = kernel.desc[f]
      BY <1>3, <2>1 DEF IsOpen, Closed
    <3>2. PICK d \in Conn : Live(d) /\ req[d].fd = f /\ Desc(f) = Sock(d)
      BY <2>1, <3>1 DEF IsOpen, StaticInv, DescriptorsOwned
    <3> QED
      BY <1>1, <1>2, <3>1, <3>2
  <2>2. ASSUME NEW d \in Conn, req'[d].life = "live"
        PROVE  kernel'.desc[req'[d].fd] = Sock(d)
    <3>1. d # c /\ Live(d) /\ req'[d] = req[d]
      BY <1>2, <2>2
    <3>2. req[d].fd \in Fd /\ req[d].fd # e.ident
      BY <1>4, <3>1 DEF StaticInv, PlainRequests
    <3> QED
      BY <1>3, <3>1, <3>2 DEF StaticInv, DescriptorsOwned
  <2> QED
    BY <2>1, <2>2 DEF DescriptorsOwned, IsOpen
<1>11. LiveIsWatched' /\ NotReadWhenDone'
  <2>1. ASSUME NEW d \in Conn, req'[d].life = "live"
        PROVE  /\ req'[d] = req[d] /\ Live(d)
               /\ \A t \in Filter :
                     kernel'.knote[<<req'[d].fd, t>>] = kernel.knote[<<req[d].fd, t>>]
    <3>1. d # c /\ Live(d) /\ req'[d] = req[d]
      BY <1>2, <2>1
    <3>2. req[d].fd \in Fd /\ req[d].fd # e.ident
      BY <1>4, <3>1 DEF StaticInv, PlainRequests
    <3> QED
      BY <1>3, <3>1, <3>2
  <2>2. ASSUME NEW d \in Conn, req'[d].life = "live"
        PROVE  /\ kernel'.knote[<<req'[d].fd, "TIMER">>] = d
               /\ kernel'.knote[<<req'[d].fd, "READ">>] = d
                     <=> kernel'.knote[<<req'[d].fd, "WRITE">>] # d
               /\ req'[d].done => kernel'.knote[<<req'[d].fd, "READ">>] # d
    <3>1. /\ kernel'.knote[<<req'[d].fd, "TIMER">>] = kernel.knote[<<req[d].fd, "TIMER">>]
          /\ kernel'.knote[<<req'[d].fd, "READ">>] = kernel.knote[<<req[d].fd, "READ">>]
          /\ kernel'.knote[<<req'[d].fd, "WRITE">>] = kernel.knote[<<req[d].fd, "WRITE">>]
      BY <2>1, <2>2 DEF Filter
    <3>2. Live(d) /\ req'[d] = req[d]
      BY <2>1, <2>2
    <3>3. /\ kernel.knote[<<req[d].fd, "TIMER">>] = d
          /\ kernel.knote[<<req[d].fd, "READ">>] = d
                <=> kernel.knote[<<req[d].fd, "WRITE">>] # d
      BY <3>2 DEF StaticInv, LiveIsWatched
    <3>4. req[d].done => kernel.knote[<<req[d].fd, "READ">>] # d
      BY <3>2 DEF StaticInv, NotReadWhenDone
    <3> QED
      BY <3>1, <3>2, <3>3, <3>4
  <2> QED
    BY <2>2 DEF LiveIsWatched, NotReadWhenDone
<1>12. OwnSingleResponse'
  BY <1>14 DEF OwnSingleResponse
<1> QED
  BY <1>6, <1>7, <1>8, <1>9, <1>10, <1>11, <1>12 DEF StaticInv

(* The connection of e stays, with r for its Request: it waits for bytes,  *)
(* unless they have all come, or for room to answer.                       *)
Stays(e, r) ==
    LET c == e.udata
        f == e.ident
    IN  /\ req' = [req EXCEPT ![c] = r]
        /\ r.life = "live" /\ r.fd = f /\ r.pipe = NoPipes /\ ~r.isCgi
        /\ r.responses = IF r.responseDone THEN 1 ELSE 0
        /\ kernel'.desc = kernel.desc
        /\ \A k \in Fd \X Filter : k[1] # f => kernel'.knote[k] = kernel.knote[k]
        /\ \A t \in Filter : kernel'.knote[<<f, t>>] \in {NoConn, c}
        /\ kernel'.knote[<<f, "TIMER">>] = c
        /\ kernel'.knote[<<f, "READ">>] = c <=> kernel'.knote[<<f, "WRITE">>] # c
        /\ kernel.knote[<<f, "WRITE">>] = c => kernel'.knote[<<f, "WRITE">>] = c
        /\ r.done => kernel'.knote[<<f, "READ">>] # c
        /\ Owed(req[c]) => Owed(r)
        /\ e.filter # "READ" => rx'[c] = rx[c]
        /\ child' = child /\ inbox' = inbox

(* A step after which the connection waits again keeps the invariant.      *)
LEMMA StaysKeepsInv ==
    ASSUME TypeOK, StaticInv, NEW e \in Events, Live(e.udata), NEW r, Stays(e, r), Handled(e)
    PROVE  StaticInv'
<1> DEFINE c == e.udata
<1>1. /\ c \in Conn /\ e.ident \in Fd /\ e.ident = req[c].fd
      /\ Desc(e.ident) = Sock(c) /\ e \in Event
  BY OwnSocket
<1>2. /\ req'[c] = r /\ r.life = "live" /\ r.fd = req[c].fd
      /\ \A d \in Conn : d # c => req'[d] = req[d]
  BY <1>1 DEF Stays, TypeOK
<1>3. \A d \in Conn : req'[d].life = req[d].life /\ req'[d].fd = req[d].fd
  BY <1>2
<1>4. \A d \in Conn : (d # c /\ Live(d)) => req[d].fd # e.ident
  BY <1>1, OwnDescriptor
<1>5. Events' = Events \ {e}
  BY DEF Handled
<1>6. PlainRequests'
  BY <1>1, <1>2 DEF StaticInv, PlainRequests, Stays, Handled
<1>7. EventsStillTrue'
  <2>1. ASSUME NEW d \in Events, d # e
        PROVE  /\ req'[d.udata].life # "unborn"
               /\ d.eof => peer'[d.udata] \in (IF d.filter = "READ" THEN {"closed", "reset"}
                                                                  ELSE {"reset"})
               /\ (d.filter = "READ" /\ ~d.eof) => rx'[d.udata]
               /\ (d.filter = "WRITE" /\ req'[d.udata].life = "live")
                     => kernel'.knote[<<req'[d.udata].fd, "WRITE">>] = d.udata
    <3>1. d.udata \in Conn /\ (d.filter = "READ" => d.filter # "TIMER")
      BY DEF TypeOK, Event
    <3>2. (d.filter = "READ" /\ ~d.eof) => rx'[d.udata]
      BY <2>1, <3>1 DEF Handled, Stays, StaticInv, EventsStillTrue
    <3>3. ASSUME d.filter = "WRITE", Live(d.udata)
          PROVE  kernel'.knote[<<req[d.udata].fd, "WRITE">>] = d.udata
      <4>1. kernel.knote[<<req[d.udata].fd, "WRITE">>] = d.udata
        BY <3>3 DEF StaticInv, EventsStillTrue
      <4>2. CASE d.udata = c
        BY <1>1, <4>1, <4>2 DEF Stays
      <4>3. CASE d.udata # c
        <5>1. req[d.udata].fd \in Fd /\ req[d.udata].fd # e.ident
          BY <1>4, <3>1, <3>3, <4>3 DEF StaticInv, PlainRequests
        <5>2. <<req[d.udata].fd, "WRITE">> \in Fd \X Filter
          BY <5>1 DEF Filter
        <5> QED
          BY <4>1, <5>1, <5>2 DEF Stays
      <4> QED
        BY <4>2, <4>3
    <3> QED
      BY <1>3, <3>1, <3>2, <3>3 DEF Handled, StaticInv, EventsStillTrue
  <2>2. \A e1, e2 \in Events \ {e} :
           (e1.udata = e2.udata /\ e1.filter # "TIMER" /\ e2.filter # "TIMER") => e1 = e2
    BY DEF StaticInv, EventsStillTrue
  <2> QED
    BY <1>5, <2>1, <2>2 DEF EventsStillTrue
<1>8. NoDanglingFilter'
  <2>1. ASSUME NEW k \in Fd \X Filter, kernel'.knote[k] # NoConn
        PROVE  /\ req'[kernel'.knote[k]].life = "live"
               /\ req'[kernel'.knote[k]].fd = k[1]
    <3>1. CASE k[1] = e.ident
      <4>1. k = <<e.ident, k[2]>> /\ k[2] \in Filter
        BY <3>1
      <4>2. kernel'.knote[k] = c
        BY <2>1, <4>1 DEF Stays
      <4> QED
        BY <1>1, <1>2, <3>1, <4>2
    <3>2. CASE k[1] # e.ident
      <4>1. kernel'.knote[k] = kernel.knote[k]
        BY <3>2 DEF Stays
      <4>2. kernel.knote[k] \in Conn
        BY <2>1, <4>1 DEF TypeOK, KernelState
      <4>3. Live(kernel.knote[k]) /\ req[kernel.knote[k]].fd = k[1]
        BY <2>1, <4>1 DEF StaticInv, NoDanglingFilter, Registered
      <4> QED
        BY <1>3, <4>1, <4>2, <4>3
    <3> QED
      BY <3>1, <3>2
  <2> QED
    BY <2>1 DEF NoDanglingFilter, Registered
<1>9. OnlyTimersGoStale'
  <2>1. \A d \in Events : d.udata \in Conn
    BY DEF TypeOK, Event
  <2> QED
    BY <1>3, <1>5, <2>1 DEF StaticInv, OnlyTimersGoStale
<1>10. DescriptorsOwned'
  BY <1>3 DEF StaticInv, DescriptorsOwned, IsOpen, Stays
<1>11. LiveIsWatched' /\ NotReadWhenDone'
  <2>1. ASSUME NEW d \in Conn, req'[d].life = "live"
        PROVE  /\ kernel'.knote[<<req'[d].fd, "TIMER">>] = d
               /\ kernel'.knote[<<req'[d].fd, "READ">>] = d
                     <=> kernel'.knote[<<req'[d].fd, "WRITE">>] # d
               /\ req'[d].done => kernel'.knote[<<req'[d].fd, "READ">>] # d
    <3>1. CASE d = c
      BY <1>1, <1>2, <3>1 DEF Stays
    <3>2. CASE d # c
      <4>1. req'[d] = req[d] /\ Live(d)
        BY <1>2, <2>1, <3>2
      <4>2. req[d].fd \in Fd /\ req[d].fd # e.ident
        BY <1>4, <3>2, <4>1 DEF StaticInv, PlainRequests
      <4>3. \A t \in Filter : kernel'.knote[<<req[d].fd, t>>] = kernel.knote[<<req[d].fd, t>>]
        BY <4>2 DEF Stays
      <4>4. /\ kernel'.knote[<<req[d].fd, "TIMER">>] = kernel.knote[<<req[d].fd, "TIMER">>]
            /\ kernel'.knote[<<req[d].fd, "READ">>] = kernel.knote[<<req[d].fd, "READ">>]
            /\ kernel'.knote[<<req[d].fd, "WRITE">>] = kernel.knote[<<req[d].fd, "WRITE">>]
        BY <4>3 DEF Filter
      <4>5. /\ kernel.knote[<<req[d].fd, "TIMER">>] = d
            /\ kernel.knote[<<req[d].fd, "READ">>] = d
                  <=> kernel.knote[<<req[d].fd, "WRITE">>] # d
        BY <4>1 DEF StaticInv, LiveIsWatched
      <4>6. req[d].done => kernel.knote[<<req[d].fd, "READ">>] # d
        BY <4>1 DEF StaticInv, NotReadWhenDone
      <4> QED
        BY <4>1, <4>4, <4>5, <4>6
    <3> QED
      BY <3>1, <3>2
  <2> QED
    BY <2>1 DEF LiveIsWatched, NotReadWhenDone
<1>12. OwnSingleResponse'
  BY DEF Stays, StaticInv, OwnSingleResponse
<1> QED
  BY <1>6, <1>7, <1>8, <1>9, <1>10, <1>11, <1>12 DEF StaticInv

(* What a handler does to the connection of its event.                     *)
Effect(e) == Handled(e) /\ (Closes(e) \/ \E r : Stays(e, r))

(* Either keeps the invariant.                                             *)
LEMMA EffectKeepsInv ==
    ASSUME TypeOK, StaticInv, NEW e \in Events, Live(e.udata), Effect(e)
    PROVE  StaticInv'
BY ClosesKeepsInv, StaysKeepsInv DEF Effect

-----------------------------------------------------------------------------
(* The handlers                                                             *)

(* The filters of a connection's descriptor are its own.                   *)
LEMMA OwnFilters ==
    ASSUME TypeOK, StaticInv, NEW c \in Conn, Live(c), NEW t \in Filter
    PROVE  kernel.knote[<<req[c].fd, t>>] \in {NoConn, c}
<1> DEFINE k == <<req[c].fd, t>>
<1>1. req[c].fd \in Fd
  BY DEF StaticInv, PlainRequests
<1>2. k \in Fd \X Filter /\ k[1] = req[c].fd
  BY <1>1
<1>3. ASSUME kernel.knote[k] # NoConn
      PROVE  kernel.knote[k] = c
  <2>1. kernel.knote[k] \in Conn
    BY <1>2, <1>3 DEF TypeOK, KernelState
  <2>2. Live(kernel.knote[k]) /\ req[kernel.knote[k]].fd = k[1]
    BY <1>2, <1>3 DEF StaticInv, NoDanglingFilter, Registered
  <2> QED
    BY <1>2, <2>1, <2>2, OwnDescriptor
<1> QED
  BY <1>3

(* What the parser and createResponse leave alone.                         *)
SameConnection(r, s) ==
    /\ s.life = r.life /\ s.fd = r.fd /\ s.pipe = r.pipe /\ s.isCgi = r.isCgi

(* The parser decides done, isCgi and the status only.                     *)
LEMMA ParsedKeeps ==
    ASSUME ~HasCgi, NEW r \in Request, ~r.isCgi, NEW s \in Parsed(r)
    PROVE  /\ SameConnection(r, s) /\ s.responses = r.responses
           /\ s.responseDone = r.responseDone /\ (Owed(r) => Owed(s))
<1> DEFINE H == [isCgi : {FALSE, HasCgi}, status : {r.status, "ERROR"}, done : BOOLEAN]
<1>1. CASE r.headerDone
  <2>1. s = r \/ s = [r EXCEPT !.done = TRUE] \/ s = [r EXCEPT !.status = "ERROR"]
    BY <1>1 DEF Parsed
  <2> QED
    BY <2>1 DEF SameConnection, Request, Owed
<1>2. CASE ~r.headerDone
  <2>1. Parsed(r) = {r} \cup {HeaderRead(r, h) : h \in H}
    BY <1>2 DEF Parsed
  <2>2. CASE s = r
    BY <2>2 DEF SameConnection
  <2>3. CASE s # r
    <3>1. PICK h \in H : s = HeaderRead(r, h)
      BY <2>1, <2>3
    <3>2. h \in [isCgi : {FALSE, HasCgi}, status : {r.status, "ERROR"}, done : BOOLEAN]
      BY <3>1
    <3>3. h.isCgi \in {FALSE, HasCgi}
      BY <3>2
    <3>4. h.isCgi = FALSE
      BY <3>3, HasCgiAssumption
    <3>5. h.status \in {r.status, "ERROR"}
      BY <3>2
    <3> QED
      BY <3>1, <3>4, <3>5 DEF HeaderRead, SameConnection, Request, Owed
  <2> QED
    BY <2>2, <2>3
<1> QED
  BY <1>1, <1>2

(* The response is created once; there is none only if a request that was  *)
(* accepted gets an empty one.                                             *)
LEMMA ResponsesKeeps ==
    ASSUME NEW r \in Request, r.responses = (IF r.responseDone THEN 1 ELSE 0),
           NEW s \in Responses(r)
    PROVE  /\ SameConnection(r, s) /\ s.done = r.done
           /\ s.responseDone /\ Owed(s) /\ s.responses \in {0, 1}
           /\ Owed(r) => s.responses = 1
<1> USE DEF Owed
<1>1. CASE r.responseDone
  BY <1>1 DEF Responses, SameConnection
<1>2. CASE ~r.responseDone
  <2>1. PICK q \in CreateResponse(r) : s = [q EXCEPT !.responseDone = TRUE]
    BY <1>2 DEF Responses
  <2>2. PICK n \in {0, 1} : q = [r EXCEPT !.responses = n] /\ (r.status # "OK" => n = 1)
    BY <1>2 DEF CreateResponse, MayBeImage
  <2> QED
    BY <1>2, <2>1, <2>2 DEF SameConnection, Request
<1> QED
  BY <1>1, <1>2

(* From reading, or from a request that is complete, to answering.         *)
LEMMA AnsweringStays ==
    ASSUME TypeOK, StaticInv, NEW e \in Events, Live(e.udata),
           NEW K, K.desc = kernel.desc,
           \A k \in Fd \X Filter : k # <<e.ident, "READ">> => K.knote[k] = kernel.knote[k],
           K.knote[<<e.ident, "READ">>] = NoConn,
           kernel' = Add(K, e.ident, "WRITE", e.udata),
           NEW r, SameConnection(req[e.udata], r), Owed(req[e.udata]) => Owed(r),
           r.responses = (IF r.responseDone THEN 1 ELSE 0),
           req' = [req EXCEPT ![e.udata] = r],
           e.filter # "READ" => rx'[e.udata] = rx[e.udata],
           child' = child, inbox' = inbox, Handled(e)
    PROVE  Effect(e)
<1> DEFINE c == e.udata
           f == e.ident
<1>1. c \in Conn /\ f \in Fd /\ f = req[c].fd
  BY OwnSocket
<1>2. req[c].pipe = NoPipes /\ ~req[c].isCgi
  BY <1>1 DEF StaticInv, PlainRequests
<1>3. /\ kernel'.desc = kernel.desc
      /\ \A k \in Fd \X Filter : kernel'.knote[k] = IF k = <<f, "WRITE">> THEN c ELSE K.knote[k]
  BY DEF Add
<1>4. \A k \in Fd \X Filter : k[1] # f => kernel'.knote[k] = kernel.knote[k]
  <2>1. \A k \in Fd \X Filter : k[1] # f => (k # <<f, "WRITE">> /\ k # <<f, "READ">>)
    OBVIOUS
  <2> QED
    BY <1>3, <2>1
<1>5. /\ <<f, "TIMER">> \in Fd \X Filter
      /\ <<f, "READ">> \in Fd \X Filter
      /\ <<f, "WRITE">> \in Fd \X Filter
      /\ "TIMER" \in Filter
  BY <1>1 DEF Filter
<1>6. kernel'.knote[<<f, "TIMER">>] = c
  <2>1. kernel.knote[<<f, "TIMER">>] = c
    BY <1>1 DEF StaticInv, LiveIsWatched
  <2> QED
    BY <1>3, <1>5, <2>1
<1>7. kernel'.knote[<<f, "READ">>] = NoConn /\ kernel'.knote[<<f, "WRITE">>] = c
  BY <1>3, <1>5
<1>8. \A t \in Filter : kernel'.knote[<<f, t>>] \in {NoConn, c}
  BY <1>6, <1>7 DEF Filter
<1>9. Stays(e, r)
  BY <1>1, <1>2, <1>3, <1>4, <1>6, <1>7, <1>8, NoConnAssumption DEF Stays, SameConnection
<1> QED
  BY <1>9 DEF Effect

(* A step that leaves the filters as they are.                             *)
LEMMA WaitingStays ==
    ASSUME TypeOK, StaticInv, NEW e \in Events, Live(e.udata),
           NEW r, SameConnection(req[e.udata], r), Owed(req[e.udata]) => Owed(r),
           r.responses = (IF r.responseDone THEN 1 ELSE 0),
           r.done => req[e.udata].done,
           kernel' = kernel, req' = [req EXCEPT ![e.udata] = r],
           e.filter # "READ" => rx'[e.udata] = rx[e.udata],
           child' = child, inbox' = inbox, Handled(e)
    PROVE  Effect(e)
<1> DEFINE c == e.udata
           f == e.ident
<1>1. c \in Conn /\ f \in Fd /\ f = req[c].fd
  BY OwnSocket
<1>2. req[c].pipe = NoPipes /\ ~req[c].isCgi
  BY <1>1 DEF StaticInv, PlainRequests
<1>3. \A t \in Filter : kernel.knote[<<f, t>>] \in {NoConn, c}
  BY <1>1, OwnFilters
<1>4. /\ kernel.knote[<<f, "TIMER">>] = c
      /\ kernel.knote[<<f, "READ">>] = c <=> kernel.knote[<<f, "WRITE">>] # c
  BY <1>1 DEF StaticInv, LiveIsWatched
<1>5. r.done => kernel.knote[<<f, "READ">>] # c
  BY <1>1 DEF StaticInv, NotReadWhenDone
<1>6. Stays(e, r)
  BY <1>1, <1>2, <1>3, <1>4, <1>5 DEF Stays, SameConnection
<1> QED
  BY <1>6 DEF Effect

(* What every handler leaves alone.                                        *)
LEMMA HandlingHandled ==
    ASSUME NEW e, NEW t, Handling(e, t), \A d \in Conn \ {e.udata} : rx'[d] = rx[d]
    PROVE  Handled(e) /\ e.filter = t
BY DEF Handling, Handled

(* The timer sends whatever waits into answering.                          *)
LEMMA HandleTimeoutEffect ==
    ASSUME Plain, TypeOK, StaticInv, NEW e \in Events, Live(e.udata), HandleTimeout(e)
    PROVE  Effect(e)
<1> DEFINE c == e.udata
           f == e.ident
           K1 == IF req[c].done THEN kernel ELSE Del(kernel, f, "READ")
           K2 == Close(K1, PipeFds(c))
           r == [req[c] EXCEPT !.status = IF req[c].done THEN "GATEWAY_TIMEOUT"
                                                         ELSE "REQUEST_TIMEOUT"]
<1>1. /\ c \in Conn /\ f \in Fd /\ f = req[c].fd /\ IsOpen(kernel, f)
      /\ PipeFds(c) = {NoFd} /\ NoFd \notin Fd
  BY OwnSocket
<1>2. req[c] \in Request /\ kernel \in KernelState
  BY <1>1 DEF TypeOK
<1>3. K1 \in KernelState /\ K1.desc = kernel.desc
  <2>1. Del(kernel, f, "READ") \in KernelState
    BY <1>2, DelType
  <2>2. Del(kernel, f, "READ").desc = kernel.desc
    BY DEF Del, Add
  <2> QED
    BY <1>2, <2>1, <2>2
<1>4. K2.desc = kernel.desc /\ K2.knote = K1.knote
  BY <1>1, <1>3 DEF Close, KernelState
<1>5. \A k \in Fd \X Filter : k # <<f, "READ">> => K2.knote[k] = kernel.knote[k]
  BY <1>4 DEF Del, Add
<1>6. <<f, "READ">> \in Fd \X Filter /\ "READ" \in Filter
  BY <1>1 DEF Filter
<1>7. K2.knote[<<f, "READ">>] = NoConn
  <2>1. CASE req[c].done
    <3>1. kernel.knote[<<f, "READ">>] # c
      BY <1>1, <2>1 DEF StaticInv, NotReadWhenDone
    <3>2. kernel.knote[<<f, "READ">>] \in {NoConn, c}
      BY <1>1, <1>6, OwnFilters
    <3> QED
      BY <1>4, <2>1, <3>1, <3>2
  <2>2. CASE ~req[c].done
    BY <1>4, <1>6, <2>2 DEF Del, Add
  <2> QED
    BY <2>1, <2>2
<1>8. IsOpen(K2, f)
  BY <1>1, <1>4 DEF IsOpen
<1>9. kernel' = Add(K2, f, "WRITE", c) /\ req' = [req EXCEPT ![c] = r]
  BY <1>8 DEF HandleTimeout, Plain
<1>10. SameConnection(req[c], r) /\ r.responses = req[c].responses
       /\ r.responseDone = req[c].responseDone /\ Owed(r)
  BY <1>2 DEF SameConnection, Request, Owed
<1>11. r.responses = IF r.responseDone THEN 1 ELSE 0
  BY <1>1, <1>10 DEF StaticInv, PlainRequests
<1>12. child' = child
  <2>1. child \in [Conn -> {"none", "running", "signalled", "exited"}] /\ child[c] = "none"
    BY <1>1 DEF TypeOK, StaticInv, PlainRequests
  <2> QED
    BY <2>1 DEF HandleTimeout, Kill
<1>13. Handled(e) /\ rx' = rx /\ inbox' = inbox
  BY HandlingHandled DEF HandleTimeout
<1> HIDE DEF K2, r
<1> QED
  BY <1>4, <1>5, <1>7, <1>9, <1>10, <1>11, <1>12, <1>13, AnsweringStays

(* A connection its client has closed is closed.                           *)
LEMMA EofHandlersEffect ==
    ASSUME TypeOK, StaticInv, NEW e \in Events, Live(e.udata),
           PipeEof(e) \/ ClientEof(e) \/ WriteEof(e)
    PROVE  Effect(e)
<1> DEFINE c == e.udata
<1>1. c \in Conn /\ ~req[c].isCgi
  BY OwnSocket DEF StaticInv, PlainRequests
<1>2. ~PipeEof(e)
  BY <1>1 DEF PipeEof
<1>3. PICK t \in {"READ", "WRITE"} :
         Handling(e, t) /\ CloseClient(Del(kernel, e.ident, t), e)
  BY <1>2 DEF ClientEof, WriteEof
<1>4. e.eof /\ rx' = rx /\ inbox' = inbox
  BY <1>2 DEF ClientEof, WriteEof
<1>5. peer[c] # "open"
  BY <1>1, <1>4 DEF StaticInv, EventsStillTrue
<1>6. Gone(e)
  BY <1>3, DelRemoves, NothingRemoved, CloseClientEffect
<1>7. Handled(e) /\ e.filter # "TIMER"
  BY <1>3, <1>4, HandlingHandled
<1> QED
  BY <1>4, <1>5, <1>6, <1>7 DEF Effect, Closes

(* The handlers of a socket's READ event.                                  *)
LEMMA ReadRequestEffect ==
    ASSUME Plain, TypeOK, StaticInv, NEW e \in Events, Live(e.udata), ReadRequest(e)
    PROVE  Effect(e)
<1> DEFINE c == e.udata
           f == e.ident
<1>1. /\ c \in Conn /\ f \in Fd /\ f = req[c].fd /\ IsOpen(kernel, f)
      /\ Desc(f) = Sock(c) /\ ~OnPipeOut(e)
  BY OwnSocket
<1>2. /\ req[c] \in Request /\ ~req[c].isCgi /\ req[c].pipe = NoPipes
      /\ req[c].responses = IF req[c].responseDone THEN 1 ELSE 0
  BY <1>1 DEF TypeOK, StaticInv, PlainRequests
<1>3. Handling(e, "READ") /\ ~e.eof
  BY DEF ReadRequest, ReadPipe, ReadPipeFailed, RecvFailed, ReceiveMore, ReceiveLast,
         HeaderBreaks, StartDelete, StartWithoutPipes, StartScript, Received, ReadEvent
<1>4. HasData(f)
  <2>1. e.filter = "READ"
    BY <1>3 DEF Handling
  <2>2. rx[c]
    BY <1>3, <2>1 DEF StaticInv, EventsStillTrue
  <2> QED
    BY <1>1, <2>2 DEF HasData, Sock
<1>6. ASSUME NEW r \in Parsed(req[c])
      PROVE  /\ SameConnection(req[c], r) /\ ~r.isCgi /\ (Owed(req[c]) => Owed(r))
             /\ r.responses = IF r.responseDone THEN 1 ELSE 0
  BY <1>2, ParsedKeeps DEF Plain, SameConnection
<1>7. CASE RecvFailed(e)
  <2>1. peer[c] # "open"
    BY <1>1, <1>4, <1>7 DEF RecvFailed, ReadFails, ReadReturnsZero, Sock
  <2>2. FiltersRemoved(Del(Del(kernel, f, "READ"), f, "TIMER"), e)
    BY DelRemoves, NothingRemoved
  <2>3. Gone(e)
    BY <1>7, <2>2, CloseClientEffect DEF RecvFailed
  <2>4. inbox' = inbox /\ Handled(e) /\ e.filter # "TIMER"
    BY <1>3, <1>7, HandlingHandled DEF RecvFailed
  <2> QED
    BY <2>1, <2>3, <2>4 DEF Effect, Closes
<1>8. ASSUME NEW r, Received(e, r)
      PROVE  Handled(e) /\ inbox' = inbox /\ e.filter = "READ"
  <2>1. \A d \in Conn \ {c} : rx'[d] = rx[d]
    BY <1>1, <1>8 DEF Received, Drain, Sock, TypeOK
  <2> QED
    BY <1>3, <1>8, <2>1, HandlingHandled DEF Received
<1>9. CASE ReceiveMore(e)
  <2>1. PICK r \in Parsed(req[c]) :
           /\ Received(e, r) /\ ~r.done
           /\ req' = [req EXCEPT ![c] = r]
           /\ kernel' = kernel /\ child' = child
    BY <1>9 DEF ReceiveMore
  <2> QED
    BY <1>6, <1>8, <2>1, WaitingStays
<1>10. CASE ReceiveLast(e)
  <2> DEFINE K == Del(kernel, f, "READ")
  <2>1. PICK r \in Parsed(req[c]) : Received(e, r) /\ AddWriteOrClean(K, f, c, r)
    BY <1>10 DEF ReceiveLast
  <2>2. <<f, "READ">> \in Fd \X Filter
    BY <1>1 DEF Filter
  <2>3. /\ K.desc = kernel.desc /\ K.knote[<<f, "READ">>] = NoConn
        /\ \A k \in Fd \X Filter : k # <<f, "READ">> => K.knote[k] = kernel.knote[k]
    BY <2>2 DEF Del, Add
  <2>4. IsOpen(K, f)
    BY <1>1, <2>3 DEF IsOpen
  <2>5. /\ kernel' = Add(K, f, "WRITE", c)
        /\ req' = [req EXCEPT ![c] = r] /\ child' = child
    BY <2>1, <2>4 DEF AddWriteOrClean, Plain
  <2> HIDE DEF K
  <2> QED
    BY <1>6, <1>8, <2>1, <2>3, <2>5, AnsweringStays
<1>11. ~(StartDelete(e) \/ StartWithoutPipes(e) \/ StartScript(e))
  BY <1>6 DEF StartDelete, StartWithoutPipes, StartScript, StartsCgi
<1>12. ~(ReadPipe(e) \/ ReadPipeFailed(e))
  BY <1>1 DEF ReadPipe, ReadPipeFailed
<1>13. CASE HeaderBreaks(e)
  <2>1. req' = [req EXCEPT ![c] = req[c]] /\ UNCHANGED <<kernel, child, inbox>>
    BY <1>13 DEF HeaderBreaks, TypeOK
  <2>2. SameConnection(req[c], req[c])
    BY DEF SameConnection
  <2>3. \A d \in Conn \ {c} : rx'[d] = rx[d]
    BY <1>1, <1>13 DEF HeaderBreaks, Drain, Sock, TypeOK
  <2>4. Handled(e) /\ e.filter = "READ"
    BY <1>3, <2>3, HandlingHandled
  <2> QED
    BY <1>2, <2>1, <2>2, <2>4, WaitingStays
<1> QED
  BY <1>7, <1>9, <1>10, <1>11, <1>12, <1>13 DEF ReadRequest

(* The handlers of a socket's WRITE event.                                 *)
LEMMA SendResponseEffect ==
    ASSUME Plain, TypeOK, StaticInv, NEW e \in Events, Live(e.udata), SendResponse(e)
    PROVE  Effect(e)
<1> DEFINE c == e.udata
           f == e.ident
<1>1. /\ c \in Conn /\ f \in Fd /\ f = req[c].fd /\ IsOpen(kernel, f)
      /\ Desc(f) = Sock(c) /\ ~OnPipeIn(e)
  BY OwnSocket
<1>2. /\ req[c] \in Request /\ req \in [Conn -> Request]
      /\ req[c].responses = IF req[c].responseDone THEN 1 ELSE 0
  BY <1>1 DEF TypeOK, StaticInv, PlainRequests
<1>3. inbox[c] \subseteq {<<c, 1>>} /\ inbox \in [Conn -> SUBSET (Conn \X Nat)]
  BY <1>1 DEF StaticInv, OwnSingleResponse, TypeOK
<1>4. ~(WritePipePart(e) \/ WritePipeAll(e) \/ WritePipeFailed(e))
  BY <1>1 DEF WritePipePart, WritePipeAll, WritePipeFailed
<1>5. Handling(e, "WRITE") /\ rx' = rx
  BY <1>4 DEF SendResponse, SendPart, SendAll, SendFailed, Killed, WriteEvent
<1>6. Handled(e) /\ e.filter = "WRITE"
  BY <1>5, HandlingHandled
<1>7. CASE SendPart(e)
  <2>1. PICK r \in Responses(req[c]) :
           /\ r.responses # 0
           /\ req' = [req EXCEPT ![c] = r] /\ UNCHANGED <<kernel, child, inbox>>
    BY <1>7 DEF SendPart
  <2>2. /\ SameConnection(req[c], r) /\ r.done = req[c].done
        /\ r.responseDone /\ Owed(r) /\ r.responses \in {0, 1}
    BY <1>2, ResponsesKeeps
  <2> QED
    BY <1>5, <1>6, <2>1, <2>2, WaitingStays
<1>8. CASE Killed(e)
  <2>1. req' = [req EXCEPT ![c] = req[c]] /\ UNCHANGED <<kernel, child, inbox>>
    BY <1>2, <1>8 DEF Killed
  <2>2. SameConnection(req[c], req[c])
    BY DEF SameConnection
  <2> QED
    BY <1>2, <1>5, <1>6, <2>1, <2>2, WaitingStays
<1>9. ASSUME CloseClient(Del(kernel, f, "WRITE"), e)
      PROVE  Gone(e)
  BY <1>9, DelRemoves, NothingRemoved, CloseClientEffect
<1>10. CASE SendFailed(e)
  <2>1. peer[c] # "open"
    BY <1>1, <1>10 DEF SendFailed, WriteFails, Eof, Sock
  <2>2. inbox' = inbox /\ Gone(e)
    BY <1>9, <1>10 DEF SendFailed
  <2> QED
    BY <1>6, <2>1, <2>2 DEF Effect, Closes
<1>11. CASE SendAll(e)
  <2>1. PICK r \in Responses(req[c]) :
           IF r.responses = 0 THEN inbox' = inbox ELSE Deliver(f, c, r.responses)
    BY <1>11 DEF SendAll
  <2>2. r.responses \in {0, 1} /\ (Owed(req[c]) => r.responses = 1)
    BY <1>2, ResponsesKeeps
  <2>6. Gone(e)
    BY <1>9, <1>11 DEF SendAll
  <2>7. CASE r.responses = 0
    BY <1>6, <2>1, <2>2, <2>6, <2>7 DEF Effect, Closes
  <2>8. CASE r.responses = 1
    <3>3. IF peer[c] = "open" THEN inbox' = [inbox EXCEPT ![c] = @ \cup {<<c, 1>>}]
                              ELSE inbox' = inbox
      BY <1>1, <2>1, <2>8 DEF Deliver, Sock
    <3>4. inbox[c] \cup {<<c, 1>>} = {<<c, 1>>}
      BY <1>3
    <3>5. peer[c] = "open" => inbox' = [inbox EXCEPT ![c] = {<<c, 1>>}]
      BY <3>3, <3>4
    <3> QED
      BY <1>6, <2>6, <3>3, <3>5 DEF Effect, Closes
  <2> QED
    BY <2>2, <2>7, <2>8
<1> QED
  BY <1>4, <1>7, <1>8, <1>10, <1>11 DEF SendResponse

(* Whichever handler it is.                                                *)
LEMMA HandleEffect ==
    ASSUME Plain, TypeOK, StaticInv, NEW e \in Events, Live(e.udata), Handle(e)
    PROVE  Effect(e)
BY HandleTimeoutEffect, EofHandlersEffect, ReadRequestEffect, SendResponseEffect DEF Handle

-----------------------------------------------------------------------------
(* The other steps                                                          *)

(* Events may be dropped, nothing else changes.                            *)
LEMMA FewerEvents ==
    ASSUME StaticInv, Events' \subseteq Events,
           UNCHANGED <<kernel, req, peer, rx, child, inbox>>
    PROVE  StaticInv'
<1>1. EventsStillTrue' /\ OnlyTimersGoStale'
  BY DEF StaticInv, EventsStillTrue, OnlyTimersGoStale
<1>2. PlainRequests' /\ NoDanglingFilter' /\ DescriptorsOwned'
  BY DEF StaticInv, PlainRequests, NoDanglingFilter, Registered, DescriptorsOwned, IsOpen
<1>3. LiveIsWatched' /\ NotReadWhenDone' /\ OwnSingleResponse'
  BY DEF StaticInv, LiveIsWatched, NotReadWhenDone, OwnSingleResponse
<1> QED
  BY <1>1, <1>2, <1>3 DEF StaticInv

(* A step of the world: clients come, send and go; there are no scripts.   *)
LEMMA EnvironmentKeeps == ASSUME TypeOK, StaticInv, Environment PROVE StaticInv'
<1>1. PICK c \in Conn : Connect(c) \/ Send(c) \/ Disconnect(c) \/ ChildOutput(c) \/ ChildExit(c)
  BY DEF Environment
<1>2. /\ UNCHANGED <<kernel, req, batch, child, inbox>>
      /\ \A d \in Conn : rx[d] => rx'[d]
  <2>1. ~Scripting(c)
    BY DEF Scripting, StaticInv, PlainRequests
  <2> QED
    BY <1>1, <2>1 DEF Connect, Send, Disconnect, ChildOutput, ChildExit, World, TypeOK
<1>3. \A d \in Conn :
         /\ peer'[d] \in {"away", "queued"} <=> peer[d] \in {"away", "queued"}
         /\ peer'[d] = "open" => peer[d] = "open"
         /\ peer[d] = "reset" => peer'[d] = "reset"
         /\ peer[d] = "closed" => peer'[d] \in {"closed", "reset"}
  <2>1. peer \in [Conn -> {"away", "queued", "open", "closed", "reset"}]
    BY DEF TypeOK
  <2> QED
    BY <1>1, <2>1 DEF Connect, Send, Disconnect, ChildOutput, ChildExit
<1>4. PlainRequests'
  BY <1>2, <1>3 DEF StaticInv, PlainRequests
<1>5. EventsStillTrue'
  <2>1. \A e \in Events : e.udata \in Conn
    BY DEF TypeOK, Event
  <2> QED
    BY <1>2, <1>3, <2>1 DEF StaticInv, EventsStillTrue
<1>6. NoDanglingFilter' /\ OnlyTimersGoStale' /\ DescriptorsOwned'
  BY <1>2 DEF StaticInv, NoDanglingFilter, Registered, OnlyTimersGoStale, DescriptorsOwned, IsOpen
<1>7. LiveIsWatched' /\ NotReadWhenDone'
  BY <1>2 DEF StaticInv, LiveIsWatched, NotReadWhenDone
<1>8. OwnSingleResponse'
  BY <1>2 DEF StaticInv, OwnSingleResponse
<1> QED
  BY <1>4, <1>5, <1>6, <1>7, <1>8 DEF StaticInv

(* What kevent reports is true: every filter belongs to a live Request.    *)
LEMMA KeventKeeps == ASSUME TypeOK, StaticInv, Kevent PROVE StaticInv'
<1>1. PICK S \in SUBSET Possible, L \in SUBSET ListenPending :
         batch' = {Reported(k) : k \in S} \cup L
  BY DEF Kevent
<1>2. UNCHANGED <<kernel, req, peer, rx, child, inbox>>
  BY DEF Kevent, KeventVars
<1>3. Events' \subseteq {Reported(k) : k \in S}
  BY <1>1 DEF ListenPending
<1>4. ASSUME NEW k \in S
      PROVE  LET e == Reported(k) IN
             /\ e.ident = k[1] /\ e.filter = k[2] /\ e.udata = kernel.knote[k]
             /\ k = <<k[1], k[2]>> /\ e.udata \in Conn
             /\ Live(e.udata) /\ e.ident = req[e.udata].fd
             /\ Desc(e.ident) = Sock(e.udata)
             /\ e.eof => peer[e.udata] \in (IF e.filter = "READ" THEN {"closed", "reset"}
                                                                 ELSE {"reset"})
             /\ (e.filter = "READ" /\ ~e.eof) => rx[e.udata]
  <2> DEFINE c == kernel.knote[k]
  <2>1. k \in Registered(kernel) /\ (k[2] = "READ" => k \in Pending)
    BY <1>4 DEF Possible, Pending
  <2>2. k \in Fd \X Filter /\ c # NoConn
    BY <2>1 DEF Registered
  <2>3. c \in Conn
    BY <2>2 DEF TypeOK, KernelState
  <2>4. Live(c) /\ req[c].fd = k[1]
    BY <2>1 DEF StaticInv, NoDanglingFilter
  <2>5. Desc(k[1]) = Sock(c)
    BY <2>3, <2>4 DEF StaticInv, DescriptorsOwned
  <2>6. Eof(k[1], k[2]) => peer[c] \in (IF k[2] = "READ" THEN {"closed", "reset"} ELSE {"reset"})
    BY <2>5 DEF Eof, Sock
  <2>7. k[2] = "READ" /\ ~Eof(k[1], k[2]) => rx[c]
    BY <2>1, <2>5 DEF Pending, HasData, Sock
  <2> QED
    BY <2>2, <2>3, <2>4, <2>5, <2>6, <2>7 DEF Reported
<1>5. ASSUME NEW e \in Events'
      PROVE  \E k \in S : e = Reported(k)
  BY <1>3
<1>6. OnlyTimersGoStale'
  <2>1. ASSUME NEW e \in Events'
        PROVE  Live(e.udata) /\ e.ident = req[e.udata].fd
    BY <1>4, <1>5
  <2> QED
    BY <1>2, <2>1 DEF OnlyTimersGoStale
<1>7. EventsStillTrue'
  <2>1. ASSUME NEW e \in Events'
        PROVE  /\ req[e.udata].life # "unborn"
               /\ e.eof => peer[e.udata] \in (IF e.filter = "READ" THEN {"closed", "reset"}
                                                                  ELSE {"reset"})
               /\ (e.filter = "READ" /\ ~e.eof) => rx[e.udata]
               /\ e.filter = "WRITE" => kernel.knote[<<req[e.udata].fd, "WRITE">>] = e.udata
    <3>1. PICK k \in S : e = Reported(k)
      BY <1>5
    <3>2. k = <<req[e.udata].fd, e.filter>> /\ kernel.knote[k] = e.udata
      BY <1>4, <3>1
    <3> QED
      BY <1>4, <3>1, <3>2
  <2>2. ASSUME NEW e1 \in Events', NEW e2 \in Events', e1.udata = e2.udata,
               e1.filter # "TIMER", e2.filter # "TIMER"
        PROVE  e1 = e2
    <3>1. PICK k1 \in S : e1 = Reported(k1)
      BY <1>5
    <3>2. PICK k2 \in S : e2 = Reported(k2)
      BY <1>5
    <3> DEFINE c == e1.udata
               f == req[c].fd
    <3>3. /\ c \in Conn /\ Live(c) /\ k1 = <<f, k1[2]>> /\ kernel.knote[k1] = c
          /\ k1[2] = e1.filter
      BY <1>4, <3>1
    <3>4. k2 = <<f, k2[2]>> /\ kernel.knote[k2] = c /\ k2[2] = e2.filter
      BY <1>4, <2>2, <3>2
    <3>5. kernel.knote[<<f, "READ">>] = c <=> kernel.knote[<<f, "WRITE">>] # c
      BY <3>3 DEF StaticInv, LiveIsWatched
    <3>6. k1 \in Fd \X Filter /\ k2 \in Fd \X Filter
      BY <1>1 DEF Possible, Pending, Registered
    <3>7. k1[2] \in {"READ", "WRITE"} /\ k2[2] \in {"READ", "WRITE"}
      BY <2>2, <3>3, <3>4, <3>6 DEF Filter
    <3>8. k1 = k2
      BY <3>3, <3>4, <3>5, <3>7
    <3> QED
      BY <3>1, <3>2, <3>8
  <2> QED
    BY <1>2, <2>1, <2>2 DEF EventsStillTrue
<1>8. PlainRequests' /\ NoDanglingFilter' /\ DescriptorsOwned'
  BY <1>2 DEF StaticInv, PlainRequests, NoDanglingFilter, Registered, DescriptorsOwned, IsOpen
<1>9. LiveIsWatched' /\ NotReadWhenDone' /\ OwnSingleResponse'
  BY <1>2 DEF StaticInv, LiveIsWatched, NotReadWhenDone, OwnSingleResponse
<1> QED
  BY <1>6, <1>7, <1>8, <1>9 DEF StaticInv

(* accept hands out a number nobody uses and no filter is left on: not even*)
(* the timer of the connection that had it before.                         *)
LEMMA AcceptOneKeeps ==
    ASSUME TypeOK, StaticInv, NEW c \in Conn, AcceptOne(c)
    PROVE  StaticInv'
<1>1. PICK f \in Fd :
         /\ Accept(c, f)
         /\ kernel' = Add(Add(Open(kernel, f, Sock(c)), f, "READ", c), f, "TIMER", c)
         /\ req' = [req EXCEPT ![c] = NewRequest(f)]
         /\ UNCHANGED <<batch, rx, child, output, inbox>>
  BY DEF AcceptOne, AcceptVars
<1>2. peer[c] = "queued" /\ peer' = [peer EXCEPT ![c] = "open"] /\ kernel.desc[f].role = "closed"
  BY <1>1 DEF Accept, AcceptQueue, Lowest, Unused
<1>3. req[c].life = "unborn" /\ ~Live(c)
  BY <1>2 DEF StaticInv, PlainRequests
<1>4. \A d \in Conn : Live(d) => req[d].fd # f
  <2>1. \A d \in Conn : Live(d) => kernel.desc[req[d].fd] = Sock(d)
    BY DEF StaticInv, DescriptorsOwned
  <2>2. \A d \in Conn : Sock(d).role # "closed"
    BY DEF Sock
  <2> QED
    BY <1>2, <2>1, <2>2
<1>5. ASSUME NEW k \in Fd \X Filter, k[1] = f
      PROVE  kernel.knote[k] = NoConn
  <2>1. SUFFICES ASSUME kernel.knote[k] # NoConn PROVE FALSE
    OBVIOUS
  <2>2. kernel.knote[k] \in Conn
    BY <2>1 DEF TypeOK, KernelState
  <2>3. Live(kernel.knote[k]) /\ req[kernel.knote[k]].fd = k[1]
    BY <2>1 DEF StaticInv, NoDanglingFilter, Registered
  <2> QED
    BY <1>4, <1>5, <2>2, <2>3
<1>6. /\ req'[c] = NewRequest(f)
      /\ \A d \in Conn : d # c => req'[d] = req[d]
      /\ req'[c].life = "live" /\ req'[c].fd = f /\ ~req'[c].done
  BY <1>1 DEF TypeOK, NewRequest
<1>7. /\ \A g \in Fd : kernel'.desc[g] = IF g = f THEN Sock(c) ELSE kernel.desc[g]
      /\ \A k \in Fd \X Filter :
            kernel'.knote[k] = IF k \in {<<f, "READ">>, <<f, "TIMER">>} THEN c ELSE kernel.knote[k]
  BY <1>1 DEF Add, Open
<1>8. peer'[c] = "open" /\ \A d \in Conn : d # c => peer'[d] = peer[d]
  BY <1>2 DEF TypeOK
<1>9. PlainRequests'
  BY <1>1, <1>6, <1>8 DEF StaticInv, PlainRequests, NewRequest
<1>10. Events' = Events /\ \A e \in Events : e.udata \in Conn /\ e.udata # c
  BY <1>1, <1>3 DEF TypeOK, Event, StaticInv, EventsStillTrue
<1>11. EventsStillTrue' /\ OnlyTimersGoStale'
  <2>1. ASSUME NEW e \in Events, e.filter = "WRITE", Live(e.udata)
        PROVE  kernel'.knote[<<req[e.udata].fd, "WRITE">>] = e.udata
    <3>1. kernel.knote[<<req[e.udata].fd, "WRITE">>] = e.udata
      BY <2>1 DEF StaticInv, EventsStillTrue
    <3>2. <<req[e.udata].fd, "WRITE">> \in Fd \X Filter
      BY <1>10, <2>1 DEF StaticInv, PlainRequests, Filter
    <3> QED
      BY <1>7, <3>1, <3>2
  <2> QED
    BY <1>1, <1>6, <1>8, <1>10, <2>1 DEF StaticInv, EventsStillTrue, OnlyTimersGoStale
<1>12. NoDanglingFilter'
  <2>1. ASSUME NEW k \in Fd \X Filter, kernel'.knote[k] # NoConn
        PROVE  /\ req'[kernel'.knote[k]].life = "live"
               /\ req'[kernel'.knote[k]].fd = k[1]
    <3>1. CASE k \in {<<f, "READ">>, <<f, "TIMER">>}
      BY <1>6, <1>7, <3>1
    <3>2. CASE k \notin {<<f, "READ">>, <<f, "TIMER">>}
      <4>1. kernel'.knote[k] = kernel.knote[k]
        BY <1>7, <3>2
      <4>2. kernel.knote[k] \in Conn
        BY <2>1, <4>1 DEF TypeOK, KernelState
      <4>3. Live(kernel.knote[k]) /\ req[kernel.knote[k]].fd = k[1]
        BY <2>1, <4>1 DEF StaticInv, NoDanglingFilter, Registered
      <4> QED
        BY <1>3, <1>6, <4>1, <4>2, <4>3
    <3> QED
      BY <3>1, <3>2
  <2> QED
    BY <2>1 DEF NoDanglingFilter, Registered
<1>13. DescriptorsOwned'
  <2>1. ASSUME NEW g \in Fd, IsOpen(kernel', g)
        PROVE  \E d \in Conn : /\ req'[d].life = "live" /\ req'[d].fd = g
                               /\ kernel'.desc[g] = Sock(d)
    <3>1. CASE g = f
      BY <1>6, <1>7, <3>1
    <3>2. CASE g # f
      <4>1. PICK d \in Conn : Live(d) /\ req[d].fd = g /\ Desc(g) = Sock(d)
        BY <1>7, <2>1, <3>2 DEF IsOpen, StaticInv, DescriptorsOwned
      <4> QED
        BY <1>3, <1>6, <1>7, <3>2, <4>1
    <3> QED
      BY <3>1, <3>2
  <2>2. ASSUME NEW d \in Conn, req'[d].life = "live"
        PROVE  kernel'.desc[req'[d].fd] = Sock(d)
    <3>1. CASE d = c
      BY <1>6, <1>7, <3>1
    <3>2. CASE d # c
      <4>1. req'[d] = req[d] /\ Live(d) /\ req[d].fd \in Fd
        BY <1>6, <2>2, <3>2 DEF StaticInv, PlainRequests
      <4> QED
        BY <1>4, <1>7, <4>1 DEF StaticInv, DescriptorsOwned
    <3> QED
      BY <3>1, <3>2
  <2> QED
    BY <2>1, <2>2 DEF DescriptorsOwned, IsOpen
<1>14. LiveIsWatched' /\ NotReadWhenDone'
  <2>1. ASSUME NEW d \in Conn, req'[d].life = "live"
        PROVE  /\ kernel'.knote[<<req'[d].fd, "TIMER">>] = d
               /\ kernel'.knote[<<req'[d].fd, "READ">>] = d
                     <=> kernel'.knote[<<req'[d].fd, "WRITE">>] # d
               /\ req'[d].done => kernel'.knote[<<req'[d].fd, "READ">>] # d
    <3>1. CASE d = c
      <4>1. /\ <<f, "TIMER">> \in Fd \X Filter /\ <<f, "READ">> \in Fd \X Filter
            /\ <<f, "WRITE">> \in Fd \X Filter
        BY DEF Filter
      <4>2. /\ kernel'.knote[<<f, "TIMER">>] = c /\ kernel'.knote[<<f, "READ">>] = c
            /\ kernel'.knote[<<f, "WRITE">>] = NoConn
        BY <1>5, <1>7, <4>1
      <4> QED
        BY <1>6, <3>1, <4>2, NoConnAssumption
    <3>2. CASE d # c
      <4>1. req'[d] = req[d] /\ Live(d) /\ req[d].fd \in Fd /\ req[d].fd # f
        BY <1>4, <1>6, <2>1, <3>2 DEF StaticInv, PlainRequests
      <4>2. /\ kernel'.knote[<<req[d].fd, "TIMER">>] = kernel.knote[<<req[d].fd, "TIMER">>]
            /\ kernel'.knote[<<req[d].fd, "READ">>] = kernel.knote[<<req[d].fd, "READ">>]
            /\ kernel'.knote[<<req[d].fd, "WRITE">>] = kernel.knote[<<req[d].fd, "WRITE">>]
        BY <1>7, <4>1 DEF Filter
      <4>3. /\ kernel.knote[<<req[d].fd, "TIMER">>] = d
            /\ kernel.knote[<<req[d].fd, "READ">>] = d
                  <=> kernel.knote[<<req[d].fd, "WRITE">>] # d
        BY <4>1 DEF StaticInv, LiveIsWatched
      <4>4. req[d].done => kernel.knote[<<req[d].fd, "READ">>] # d
        BY <4>1 DEF StaticInv, NotReadWhenDone
      <4> QED
        BY <4>1, <4>2, <4>3, <4>4
    <3> QED
      BY <3>1, <3>2
  <2> QED
    BY <2>1 DEF LiveIsWatched, NotReadWhenDone
<1>15. OwnSingleResponse'
  BY <1>1 DEF StaticInv, OwnSingleResponse
<1> QED
  BY <1>9, <1>11, <1>12, <1>13, <1>14, <1>15 DEF StaticInv

(* No connection, no event, no filter.                                     *)
LEMMA StaticInit == Init => StaticInv
<1> SUFFICES ASSUME Init PROVE StaticInv
  OBVIOUS
<1>1. \A c \in Conn : /\ req[c].life = "unborn" /\ child[c] = "none"
                     /\ peer[c] = "away" /\ inbox[c] = {}
  BY DEF Init, Unborn, NewRequest
<1>2. Events = {}
  BY DEF Init
<1>3. Registered(kernel) = {} /\ \A f \in Fd : ~IsOpen(kernel, f)
  BY DEF Init, EmptyKernel, Registered, IsOpen, Closed
<1> QED
  BY <1>1, <1>2, <1>3 DEF StaticInv, PlainRequests, EventsStillTrue, NoDanglingFilter,
     OnlyTimersGoStale, DescriptorsOwned, LiveIsWatched, NotReadWhenDone,
     OwnSingleResponse

(* Every step keeps the invariant.                                         *)
LEMMA StaticNext == ASSUME Plain PROVE TypeOK /\ StaticInv /\ [Next]_vars => StaticInv'
<1> SUFFICES ASSUME TypeOK, StaticInv, [Next]_vars PROVE StaticInv'
  OBVIOUS
<1>1. CASE Environment
  BY <1>1, EnvironmentKeeps
<1>2. CASE Kevent
  BY <1>2, KeventKeeps
<1>3. CASE ListenEvent \/ AcceptDone \/ Interrupted \/ UNCHANGED vars
  <2>1. Events' \subseteq Events /\ UNCHANGED <<kernel, req, peer, rx, child, inbox>>
    BY <1>3 DEF ListenEvent, AcceptDone, AcceptVars, Interrupted, KeventVars, vars
  <2> QED
    BY <2>1, FewerEvents
<1>4. ASSUME NEW c \in Conn, AcceptOne(c) \/ AcceptFault(c) PROVE StaticInv'
  <2>1. ~AcceptFault(c)
    BY DEF AcceptFault, Plain
  <2> QED
    BY <1>4, <2>1, AcceptOneKeeps
<1>5. ASSUME NEW e \in Events, TouchFreed(e) PROVE StaticInv'
  <2>1. Events' \subseteq Events /\ UNCHANGED <<kernel, req, peer, rx, child, inbox>>
    BY <1>5 DEF TouchFreed
  <2> QED
    BY <2>1, FewerEvents
<1>6. ASSUME NEW e \in Events, Live(e.udata), Handle(e) PROVE StaticInv'
  BY <1>6, HandleEffect, EffectKeepsInv
<1> QED
  BY <1>1, <1>2, <1>3, <1>4, <1>5, <1>6 DEF Next, RunServer, NewClient

(* The invariant of a deployment without CGI.                              *)
THEOREM StaticCorrect == ASSUME Plain PROVE Spec => []StaticInv
<1>1. TypeOK /\ StaticInv /\ [Next]_vars => StaticInv'
  BY StaticNext
<1> QED
  BY <1>1, StaticInit, TypeCorrect, PTL DEF Spec

(* While one batch of events is handled, an event that names a deleted     *)
(* Request is a timer's, and one that names a live Request carries the     *)
(* Request's own descriptor (runServer, closeClient).                      *)
THEOREM StaleEvents == ASSUME Plain PROVE Spec => []OnlyTimersGoStale
BY StaticCorrect, PTL DEF StaticInv

(* Sockets neither leak nor are closed under their owner, whatever is      *)
(* accepted, reused and closed within one batch.                           *)
THEOREM SocketsOwned == ASSUME Plain PROVE Spec => []DescriptorsOwned
BY StaticCorrect, PTL DEF StaticInv

(* closeClient leaves no filter with the udata of a deleted Request.       *)
THEOREM FiltersOwned == ASSUME Plain PROVE Spec => []NoDanglingFilter
BY StaticCorrect, PTL DEF StaticInv

(* Every connection is watched, in one direction, and timed.               *)
THEOREM ConnectionsWatched == ASSUME Plain PROVE Spec => []LiveIsWatched
BY StaticCorrect, PTL DEF StaticInv

(* A request that is complete reads nothing more.                          *)
THEOREM ReadingEnds == ASSUME Plain PROVE Spec => []NotReadWhenDone
BY StaticCorrect, PTL DEF StaticInv

(* A client that is there when its connection is deleted is sent the last  *)
(* bytes of a response by that very step, or was accepted and has just been*)
(* found to have asked for an image that is not there any more.            *)
THEOREM ClientsAnswered == ASSUME Plain PROVE Spec => AnsweredBeforeDeleted
<1> DEFINE Answered(c) == (Live(c) /\ req'[c].life = "freed" /\ peer[c] = "open")
                             => (inbox'[c] # {} \/ Serving(c))
<1>1. TypeOK /\ StaticInv /\ [Next]_vars => [\A c \in Conn : Answered(c)]_vars
  <2> SUFFICES ASSUME TypeOK, StaticInv, Next, NEW c \in Conn PROVE Answered(c)
    OBVIOUS
  <2>1. ASSUME req'[c] = req[c] PROVE Answered(c)
    BY <2>1
  <2>2. CASE Environment \/ Kevent \/ ListenEvent \/ AcceptDone \/ Interrupted
    <3>1. req' = req
      BY <2>2 DEF Environment, Connect, Send, Disconnect, ChildOutput, ChildExit, World, Kevent,
                  KeventVars, ListenEvent, AcceptDone, AcceptVars, Interrupted
    <3> QED
      BY <2>1, <3>1
  <2>3. ASSUME NEW d \in Conn, AcceptOne(d) \/ AcceptFault(d) PROVE Answered(c)
    <3>1. AcceptOne(d)
      BY <2>3 DEF AcceptFault, Plain
    <3>2. peer[d] = "queued" /\ \E f \in Fd : req' = [req EXCEPT ![d] = NewRequest(f)]
      BY <3>1 DEF AcceptOne, Accept, AcceptQueue
    <3>3. CASE c = d
      BY <3>2, <3>3 DEF StaticInv, PlainRequests
    <3>4. CASE c # d
      BY <2>1, <3>2, <3>4
    <3> QED
      BY <3>3, <3>4
  <2>4. ASSUME NEW e \in Events, TouchFreed(e) PROVE Answered(c)
    BY <2>1, <2>4 DEF TouchFreed
  <2>5. ASSUME NEW e \in Events, Live(e.udata), Handle(e) PROVE Answered(c)
    <3>1. Effect(e) /\ e.udata \in Conn
      BY <2>5, HandleEffect, OwnSocket
    <3>2. CASE \E r : Stays(e, r)
      <4>1. PICK r : Stays(e, r)
        BY <3>2
      <4>2. req'[c] = req[c] \/ req'[c].life = "live"
        BY <3>1, <4>1 DEF Stays, TypeOK
      <4> QED
        BY <2>1, <4>2
    <3>3. CASE Closes(e)
      <4>1. CASE c # e.udata
        BY <2>1, <3>3, <4>1 DEF Closes, Gone, TypeOK
      <4>2. CASE c = e.udata
        <5>1. CASE peer[c] # "open"
          BY <5>1
        <5>2. CASE inbox' = [inbox EXCEPT ![c] = {<<c, 1>>}]
          BY <5>2 DEF TypeOK
        <5>3. CASE e.filter = "WRITE" /\ ~Owed(req[c])
          BY <2>5, <4>2, <5>3 DEF StaticInv, EventsStillTrue, Serving
        <5> QED
          BY <3>3, <4>2, <5>1, <5>2, <5>3 DEF Closes
      <4> QED
        BY <4>1, <4>2
    <3> QED
      BY <3>1, <3>2, <3>3 DEF Effect
  <2> QED
    BY <2>2, <2>3, <2>4, <2>5 DEF Next, RunServer, NewClient
<1> QED
  BY <1>1, StaticCorrect, TypeCorrect, PTL DEF Spec, AnsweredBeforeDeleted

(* What a client is sent is its own response, created once.                *)
THEOREM OwnResponses == ASSUME Plain PROVE Spec => []OwnSingleResponse
BY StaticCorrect, PTL DEF StaticInv

-----------------------------------------------------------------------------
(* The queue of the listening socket                                        *)

(* While someone waits, not every number can be in use: those in use have  *)
(* different live owners, and who waits is not one of them.                *)
LEMMA NumberForEveryone ==
    ASSUME TypeOK, StaticInv, IsFiniteSet(Conn), Cardinality(Conn) <= MaxFd,
           AcceptQueue # {}
    PROVE  Unused(kernel) # {}
<1> SUFFICES ASSUME Unused(kernel) = {} PROVE FALSE
  OBVIOUS
<1>1. PICK q \in Conn : peer[q] = "queued"
  BY DEF AcceptQueue
<1>2. ~Live(q)
  BY <1>1 DEF StaticInv, PlainRequests
<1>3. \A f \in Fd : \E c \in Conn : Live(c) /\ req[c].fd = f
  BY DEF Unused, IsOpen, StaticInv, DescriptorsOwned
<1> DEFINE owner == [f \in Fd |-> CHOOSE c \in Conn : Live(c) /\ req[c].fd = f]
<1>4. \A f \in Fd : owner[f] \in Conn /\ Live(owner[f]) /\ req[owner[f]].fd = f
  BY <1>3
<1>5. owner \in [Fd -> Conn \ {q}]
  BY <1>2, <1>4
<1>6. IsInjective(owner)
  BY <1>4 DEF IsInjective
<1> HIDE DEF owner
<1>7. owner \in Injection(Fd, Conn \ {q})
  BY <1>5, <1>6 DEF Injection
<1>8. IsFiniteSet(Conn \ {q}) /\ Cardinality(Conn \ {q}) = Cardinality(Conn) - 1
  BY FS_RemoveElement
<1>9. Cardinality(Fd) <= Cardinality(Conn \ {q})
  BY <1>7, <1>8, FS_Injection
<1>10. Cardinality(Fd) = MaxFd
  <2>1. 1 \in Int /\ MaxFd \in Int
    BY MaxFdAssumption
  <2>2. Cardinality(1 .. MaxFd) = IF 1 > MaxFd THEN 0 ELSE MaxFd - 1 + 1
    BY <2>1, FS_Interval
  <2> QED
    BY <2>2, MaxFdAssumption DEF Fd
<1>11. Cardinality(Conn) \in Nat
  BY FS_CardinalityType
<1> QED
  BY <1>8, <1>9, <1>10, <1>11, MaxFdAssumption

(* An edge that was taken is used up only with the queue.                  *)
LEMMA ForgottenNext ==
    ASSUME Plain, IsFiniteSet(Conn), TypeOK, StaticInv, NobodyForgotten, [Next]_vars
    PROVE  NobodyForgotten'
<1> SUFFICES ASSUME AcceptQueue' # {}, Cardinality(Conn) <= MaxFd
             PROVE  (lready \/ ListenReady \in batch \/ accepting)'
  BY DEF NobodyForgotten
<1>1. CASE Environment
  <2>1. PICK c \in Conn : Connect(c) \/ Send(c) \/ Disconnect(c) \/ ChildOutput(c) \/ ChildExit(c)
    BY <1>1 DEF Environment
  <2>2. CASE Connect(c)
    BY <2>2 DEF Connect
  <2>3. CASE Send(c) \/ Disconnect(c) \/ ChildOutput(c) \/ ChildExit(c)
    <3>1. UNCHANGED <<lready, batch, accepting>>
      BY <2>3 DEF Send, Disconnect, ChildOutput, ChildExit, World
    <3>2. AcceptQueue' \subseteq AcceptQueue
      BY <2>3 DEF Send, Disconnect, ChildOutput, ChildExit, AcceptQueue, TypeOK
    <3> QED
      BY <3>1, <3>2 DEF NobodyForgotten
  <2> QED
    BY <2>1, <2>2, <2>3
<1>2. CASE Kevent
  <2>1. PICK L \in SUBSET ListenPending : L \subseteq batch' /\ lready' = (lready /\ L = {})
    BY <1>2 DEF Kevent
  <2>2. AcceptQueue' = AcceptQueue /\ batch = {} /\ ~accepting
    BY <1>2 DEF Kevent, KeventVars, AcceptQueue
  <2>3. lready
    BY <2>2 DEF NobodyForgotten
  <2>4. L = {} \/ ListenReady \in L
    BY DEF ListenPending
  <2> QED
    BY <2>1, <2>3, <2>4
<1>3. CASE ListenEvent
  BY <1>3 DEF ListenEvent
<1>4. CASE AcceptDone
  <2>1. AcceptQueue' = AcceptQueue
    BY <1>4 DEF AcceptDone, AcceptQueue
  <2>2. Unused(kernel) = {}
    BY <1>4, <2>1 DEF AcceptDone
  <2> QED
    BY <2>1, <2>2, NumberForEveryone
<1>5. ASSUME NEW c \in Conn, AcceptOne(c) \/ AcceptFault(c)
      PROVE  (lready \/ ListenReady \in batch \/ accepting)'
  <2>1. CASE AcceptOne(c)
    <3>1. accepting /\ UNCHANGED accepting
      BY <2>1 DEF AcceptOne, Accept
    <3> QED
      BY <3>1
  <2>2. ~AcceptFault(c)
    BY DEF AcceptFault, Plain
  <2> QED
    BY <1>5, <2>1, <2>2
<1>6. ASSUME NEW e \in Events, TouchFreed(e) \/ (Live(e.udata) /\ Handle(e))
      PROVE  (lready \/ ListenReady \in batch \/ accepting)'
  <2>1. UNCHANGED <<lready, accepting, peer>> /\ batch' = batch \ {e}
    BY <1>6 DEF TouchFreed, Handle, HandleTimeout, PipeEof, ClientEof, WriteEof, ReadRequest,
         SendResponse, ReadPipe, ReadPipeFailed, RecvFailed, ReceiveMore, ReceiveLast,
         HeaderBreaks, StartDelete, StartWithoutPipes, StartScript, WritePipePart, WritePipeAll,
         WritePipeFailed, SendPart, SendAll, SendFailed, Killed, Received, ReadEvent, WriteEvent,
         Handling
  <2> QED
    BY <2>1 DEF AcceptQueue, NobodyForgotten
<1>7. CASE Interrupted \/ UNCHANGED vars
  BY <1>7 DEF Interrupted, KeventVars, vars, AcceptQueue, NobodyForgotten
<1> QED
  BY <1>1, <1>2, <1>3, <1>4, <1>5, <1>6, <1>7 DEF Next, RunServer, NewClient

(* With a descriptor for everyone nobody stays in the queue: newClient     *)
(* empties it on each edge, and accept never fails for want of a number.   *)
THEOREM NobodyWaitsForNothing ==
    ASSUME Plain, IsFiniteSet(Conn)
    PROVE  Spec => []NobodyForgotten
<1>1. Init => NobodyForgotten
  BY DEF Init, NobodyForgotten, AcceptQueue
<1> QED
  BY <1>1, ForgottenNext, StaticCorrect, TypeCorrect, PTL DEF Spec

-----------------------------------------------------------------------------
(* The loop implements Connections: a handler moves the connection of its  *)
(* event by at most one stage and nobody else's, and every other step is a *)
(* client's or none.                                                       *)

Hung(c) == peer[c] \in {"closed", "reset"}

USE DEF Hung

(* The stage of d, where nothing it depends on has changed.                *)
LEMMA SameStage ==
    ASSUME NEW d \in Conn, req'[d] = req[d], peer'[d] = peer[d],
           Live(d) => kernel'.knote[<<req[d].fd, "WRITE">>] = kernel.knote[<<req[d].fd, "WRITE">>]
    PROVE  StageOf(d)' = StageOf(d)
BY DEF StageOf, Serving

(* A step that changes no stage, no client and no inbox is a stutter.      *)
LEMMA Stutters ==
    ASSUME \A d \in Conn : StageOf(d)' = StageOf(d) /\ Hung(d)' = Hung(d), inbox' = inbox
    PROVE  UNCHANGED Promised!connections
BY DEF Promised!connections

(* One connection moves.                                                   *)
LEMMA Moves ==
    ASSUME NEW c \in Conn, NEW to, StageOf(c)' = to,
           \A d \in Conn \ {c} : StageOf(d)' = StageOf(d)
    PROVE  Promised!Move(c, StageOf(c), to)
BY DEF Promised!Move

(* A live connection is being received or answered, also in the eyes of its*)
(* client.                                                                 *)
LEMMA LiveStage ==
    ASSUME StaticInv, NEW c \in Conn, Live(c)
    PROVE  StageOf(c) = IF Serving(c) THEN "serving"
                        ELSE IF Answering(c) THEN "answering" ELSE "receiving"
BY DEF StageOf, StaticInv, PlainRequests

(* What a handler does to others: nothing.                                 *)
LEMMA OthersKeepStage ==
    ASSUME TypeOK, StaticInv, NEW e \in Events, Live(e.udata), Effect(e),
           NEW d \in Conn \ {e.udata}
    PROVE  StageOf(d)' = StageOf(d)
<1>1. e.udata \in Conn /\ e.ident \in Fd /\ e.ident = req[e.udata].fd
  BY OwnSocket
<1>2. req'[d] = req[d] /\ peer'[d] = peer[d]
  BY <1>1 DEF Effect, Handled, Closes, Gone, Stays, TypeOK
<1>3. ASSUME Live(d)
      PROVE  kernel'.knote[<<req[d].fd, "WRITE">>] = kernel.knote[<<req[d].fd, "WRITE">>]
  <2>1. req[d].fd # e.ident
    BY <1>1, <1>3, OwnDescriptor
  <2>2. <<req[d].fd, "WRITE">> \in Fd \X Filter
    BY <1>3 DEF StaticInv, PlainRequests, Filter
  <2> QED
    BY <2>1, <2>2 DEF Effect, Closes, Gone, Stays
<1> QED
  BY <1>2, <1>3, SameStage

(* A connection that is closed is answered, or its client has gone, or what*)
(* it asked for.                                                           *)
LEMMA ClosesMaps ==
    ASSUME TypeOK, StaticInv, NEW e \in Events, Live(e.udata), Handled(e), Closes(e)
    PROVE  Promised!Next
<1> DEFINE c == e.udata
<1>1. c \in Conn /\ e.ident = req[c].fd
  BY OwnSocket
<1>2. peer' = peer /\ req' = [req EXCEPT ![c] = Freed]
  BY DEF Handled, Closes, Gone
<1>3. peer[c] \in {"open", "closed", "reset"}
  BY <1>1 DEF StaticInv, PlainRequests, TypeOK
<1>4. StageOf(c)' = "ended"
  <2>1. req'[c].life = "freed"
    BY <1>1, <1>2 DEF TypeOK, Freed, NewRequest, Unborn
  <2> QED
    BY <1>2, <1>3, <2>1 DEF StageOf
<1>5. Promised!Move(c, StageOf(c), "ended")
  BY <1>1, <1>4, OthersKeepStage, Moves DEF Effect
<1>6. CASE peer[c] # "open" /\ inbox' = inbox
  <2>1. Promised!Drop(c)
    BY <1>1, <1>2, <1>3, <1>5, <1>6, LiveStage DEF Promised!Drop
  <2> QED
    BY <1>1, <2>1 DEF Promised!Next
<1>7. CASE peer[c] = "open" /\ e.filter = "WRITE" /\ inbox' = [inbox EXCEPT ![c] = {<<c, 1>>}]
  <2>1. StageOf(c) \in {"serving", "answering"}
    BY <1>1, <1>7, LiveStage DEF StaticInv, EventsStillTrue
  <2>2. Promised!Answer(c)
    BY <1>1, <1>2, <1>5, <1>7, <2>1 DEF Promised!Answer
  <2> QED
    BY <1>1, <2>2 DEF Promised!Next
<1>8. CASE peer[c] = "open" /\ e.filter = "WRITE" /\ ~Owed(req[c]) /\ inbox' = inbox
  <2>1. StageOf(c) = "serving"
    BY <1>1, <1>8, LiveStage DEF StaticInv, EventsStillTrue, Serving
  <2>2. Promised!Vanish(c)
    BY <1>1, <1>2, <1>5, <1>8, <2>1 DEF Promised!Vanish
  <2> QED
    BY <1>1, <2>2 DEF Promised!Next
<1> QED
  BY <1>6, <1>7, <1>8 DEF Closes

(* A connection that stays is complete now, or certain of its answer now,  *)
(* or where it was.                                                        *)
LEMMA StaysMaps ==
    ASSUME TypeOK, StaticInv, NEW e \in Events, Live(e.udata), Handled(e),
           NEW r, Stays(e, r)
    PROVE  Promised!Next \/ UNCHANGED Promised!connections
<1> DEFINE c == e.udata
<1>1. c \in Conn /\ e.ident = req[c].fd
  BY OwnSocket
<1>2. peer' = peer /\ inbox' = inbox /\ req'[c] = r /\ r.life = "live" /\ r.fd = req[c].fd
  BY <1>1 DEF Handled, Stays, TypeOK
<1>3. StageOf(c)' = IF Serving(c)' THEN "serving"
                    ELSE IF Answering(c)' THEN "answering" ELSE "receiving"
  BY <1>1, <1>2 DEF StageOf, StaticInv, PlainRequests
<1>4. Answering(c) => Answering(c)'
  BY <1>1, <1>2 DEF Stays
<1>5. StageOf(c) = IF Serving(c) THEN "serving"
                   ELSE IF Answering(c) THEN "answering" ELSE "receiving"
  BY <1>1, LiveStage
<1>8. Serving(c) = (Answering(c) /\ ~Owed(req[c])) /\ Serving(c)' = (Answering(c)' /\ ~Owed(r))
  BY <1>2 DEF Serving
<1>9. Owed(req[c]) => Owed(r)
  BY DEF Stays
<1>10. Promised!Move(c, StageOf(c), StageOf(c)')
  BY <1>1, OthersKeepStage, Moves DEF Effect
<1>6. CASE Answering(c)' /\ ~Answering(c)
  <2>1. StageOf(c) = "receiving" /\ StageOf(c)' \in {"serving", "answering"}
    BY <1>3, <1>5, <1>6, <1>8
  <2>3. Promised!Complete(c)
    BY <1>2, <1>10, <2>1 DEF Promised!Complete
  <2> QED
    BY <1>1, <2>3 DEF Promised!Next
<1>11. CASE Answering(c) /\ ~Owed(req[c]) /\ Owed(r)
  <2>1. StageOf(c) = "serving" /\ StageOf(c)' = "answering"
    BY <1>3, <1>4, <1>5, <1>8, <1>11
  <2>2. Promised!Settle(c)
    BY <1>2, <1>10, <2>1 DEF Promised!Settle
  <2> QED
    BY <1>1, <2>2 DEF Promised!Next
<1>7. CASE ~(Answering(c)' /\ ~Answering(c)) /\ ~(Answering(c) /\ ~Owed(req[c]) /\ Owed(r))
  <2>1. StageOf(c)' = StageOf(c)
    BY <1>3, <1>4, <1>5, <1>7, <1>8, <1>9
  <2>2. \A d \in Conn : StageOf(d)' = StageOf(d)
    BY <2>1, OthersKeepStage DEF Effect
  <2> QED
    BY <1>2, <2>2, Stutters
<1> QED
  BY <1>6, <1>7, <1>11

(* newClient accepts a connection that waits.                              *)
LEMMA AcceptMaps ==
    ASSUME TypeOK, StaticInv, NEW c \in Conn, AcceptOne(c)
    PROVE  Promised!Next
<1>1. PICK f \in Fd :
         /\ Accept(c, f)
         /\ kernel' = Add(Add(Open(kernel, f, Sock(c)), f, "READ", c), f, "TIMER", c)
         /\ req' = [req EXCEPT ![c] = NewRequest(f)]
         /\ UNCHANGED inbox
  BY DEF AcceptOne, AcceptVars
<1>2. /\ peer[c] = "queued" /\ peer'[c] = "open"
      /\ \A d \in Conn \ {c} : peer'[d] = peer[d] /\ req'[d] = req[d]
      /\ req'[c] = NewRequest(f)
      /\ kernel.desc[f].role = "closed"
  BY <1>1 DEF Accept, AcceptQueue, Lowest, Unused, TypeOK
<1>3. \A k \in Fd \X Filter : k[2] = "WRITE" => kernel'.knote[k] = kernel.knote[k]
  <2>1. \A k \in Fd \X Filter : k[2] = "WRITE" => k \notin {<<f, "READ">>, <<f, "TIMER">>}
    OBVIOUS
  <2> QED
    BY <1>1, <2>1 DEF Add, Open
<1>4. ASSUME NEW d \in Conn \ {c} PROVE StageOf(d)' = StageOf(d)
  <2>1. Live(d) => <<req[d].fd, "WRITE">> \in Fd \X Filter
    BY DEF StaticInv, PlainRequests, Filter
  <2> QED
    BY <1>2, <1>3, <2>1, SameStage
<1>5. <<f, "WRITE">> \in Fd \X Filter
  BY DEF Filter
<1>6. kernel.knote[<<f, "WRITE">>] # c
  <2>1. ~Live(c)
    BY <1>2 DEF StaticInv, PlainRequests
  <2> QED
    BY <1>5, <2>1, NoConnAssumption DEF StaticInv, NoDanglingFilter, Registered
<1>7. StageOf(c) = "waiting" /\ StageOf(c)' = "receiving"
  BY <1>2, <1>3, <1>5, <1>6 DEF StageOf, Serving, NewRequest
<1>8. Promised!Move(c, "waiting", "receiving")
  BY <1>4, <1>7, Moves
<1>9. \A d \in Conn : Hung(d)' = Hung(d)
  BY <1>2
<1>10. Promised!Accept(c)
  BY <1>1, <1>8, <1>9 DEF Promised!Accept
<1> QED
  BY <1>10 DEF Promised!Next

(* A step of the world: a client connects, or hangs up.                    *)
LEMMA EnvironmentMaps ==
    ASSUME TypeOK, StaticInv, Environment
    PROVE  Promised!Next \/ UNCHANGED Promised!connections
<1>1. PICK c \in Conn : Connect(c) \/ Send(c) \/ Disconnect(c) \/ ChildOutput(c) \/ ChildExit(c)
  BY DEF Environment
<1>2. UNCHANGED <<kernel, req, inbox>>
  BY <1>1 DEF Connect, Send, Disconnect, ChildOutput, ChildExit, World
<1>3. ASSUME peer' = peer PROVE UNCHANGED Promised!connections
  BY <1>2, <1>3, SameStage, Stutters
<1>4. CASE Connect(c)
  <2>1. peer[c] = "away" /\ peer'[c] = "queued" /\ \A d \in Conn \ {c} : peer'[d] = peer[d]
    BY <1>4 DEF Connect, TypeOK
  <2>2. StageOf(c) = "away" /\ StageOf(c)' = "waiting"
    BY <2>1 DEF StageOf
  <2>3. Promised!Move(c, "away", "waiting")
    BY <1>2, <2>1, <2>2, SameStage, Moves
  <2>4. \A d \in Conn : Hung(d)' = Hung(d)
    BY <2>1
  <2>5. Promised!Arrive(c)
    BY <1>2, <2>3, <2>4 DEF Promised!Arrive
  <2> QED
    BY <2>5 DEF Promised!Next
<1>5. CASE Disconnect(c)
  <2>1. /\ peer[c] \in {"open", "closed"} /\ peer'[c] \in {"closed", "reset"}
        /\ peer' = [peer EXCEPT ![c] = peer'[c]]
        /\ \A d \in Conn \ {c} : peer'[d] = peer[d]
    BY <1>5 DEF Disconnect, TypeOK
  <2>2. Live(c)
    <3>1. PICK f \in Fd : Desc(f) = Sock(c)
      BY <1>5 DEF Disconnect, HoldsSocket
    <3>2. PICK d \in Conn : Live(d) /\ Desc(f) = Sock(d)
      BY <3>1 DEF StaticInv, DescriptorsOwned, IsOpen, Sock
    <3> QED
      BY <3>1, <3>2 DEF Sock
  <2>3. \A d \in Conn : StageOf(d)' = StageOf(d)
    BY <1>2, <2>1 DEF StageOf, Serving
  <2>4. CASE peer[c] = "open"
    <3>1. StageOf(c) \in {"receiving", "serving", "answering"}
      BY <2>2, LiveStage
    <3>2. [d \in Conn |-> Hung(d)'] = [[d \in Conn |-> Hung(d)] EXCEPT ![c] = TRUE]
      BY <2>1
    <3>3. Promised!HangUp(c)
      BY <1>2, <2>3, <2>4, <3>1, <3>2 DEF Promised!HangUp
    <3> QED
      BY <3>3 DEF Promised!Next
  <2>5. CASE peer[c] # "open"
    BY <1>2, <2>1, <2>3, <2>5, Stutters
  <2> QED
    BY <2>4, <2>5
<1> QED
  BY <1>1, <1>3, <1>4, <1>5 DEF Send, ChildOutput, ChildExit

(* Nobody is there.                                                        *)
LEMMA InitMaps == Init => Promised!Init
<1> SUFFICES ASSUME Init PROVE Promised!Init
  OBVIOUS
<1>1. \A c \in Conn : peer[c] = "away"
  BY DEF Init
<1>2. \A c \in Conn : StageOf(c) = "away" /\ ~Hung(c)
  BY <1>1 DEF StageOf
<1>3. inbox = [c \in Conn |-> {}]
  BY DEF Init
<1>4. [c \in Conn |-> StageOf(c)] = [c \in Conn |-> "away"]
  BY <1>2
<1>5. [c \in Conn |-> Hung(c)] = [c \in Conn |-> FALSE]
  <2>1. \A c \in Conn : Hung(c) = FALSE
    BY <1>2
  <2> QED
    BY <2>1
<1> QED
  BY <1>3, <1>4, <1>5, Zenon DEF Promised!Init

(* Every step of the event loop is a step of Connections or a stutter.     *)
LEMMA NextMaps ==
    ASSUME Plain
    PROVE  TypeOK /\ StaticInv /\ [Next]_vars => [Promised!Next]_Promised!connections
<1> SUFFICES ASSUME TypeOK, StaticInv, [Next]_vars
             PROVE  Promised!Next \/ UNCHANGED Promised!connections
  OBVIOUS
<1>1. ASSUME UNCHANGED <<kernel, req, peer, inbox>> PROVE UNCHANGED Promised!connections
  BY <1>1, SameStage, Stutters
<1>2. CASE Environment
  BY <1>2, EnvironmentMaps
<1>3. CASE Kevent \/ ListenEvent \/ AcceptDone \/ Interrupted \/ UNCHANGED vars
  BY <1>1, <1>3 DEF Kevent, ListenEvent, AcceptDone, AcceptVars, Interrupted, KeventVars, vars
<1>4. ASSUME NEW c \in Conn, AcceptOne(c) \/ AcceptFault(c) PROVE Promised!Next
  <2>1. ~AcceptFault(c)
    BY DEF AcceptFault, Plain
  <2> QED
    BY <1>4, <2>1, AcceptMaps
<1>5. ASSUME NEW e \in Events, TouchFreed(e) PROVE UNCHANGED Promised!connections
  BY <1>1, <1>5 DEF TouchFreed
<1>6. ASSUME NEW e \in Events, Live(e.udata), Handle(e)
      PROVE  Promised!Next \/ UNCHANGED Promised!connections
  BY <1>6, HandleEffect, ClosesMaps, StaysMaps DEF Effect
<1> QED
  BY <1>2, <1>3, <1>4, <1>5, <1>6 DEF Next, RunServer, NewClient

(* The event loop implements the abstract specification: each client is    *)
(* answered once and last, or has gone, or what it asked for has (runServer*)
(* and all its handlers).                                                  *)
THEOREM LoopImplementsConnections == ASSUME Plain PROVE Spec => ConnectionSpec
<1>1. TypeOK /\ StaticInv /\ [Next]_vars => [Promised!Next]_Promised!connections
  BY NextMaps
<1> QED
  BY <1>1, InitMaps, TypeCorrect, StaticCorrect, PTL DEF Spec, ConnectionSpec, Promised!Spec
=============================================================================
