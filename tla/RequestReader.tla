---------------------------- MODULE RequestReader ----------------------------
(***************************************************************************)
(* How one request is taken from the client's socket: the READ branch of   *)
(* WebServer::readRequest for a client, Request::appendToRequest,          *)
(* appendLastChunkToBody and appendToBody. TCP may cut the request into any*)
(* pieces; each recv takes one.                                            *)
(*                                                                         *)
(* A byte is abstracted to its position in what the client sends: the      *)
(* header, its closing \r\n\r\n included, takes the positions              *)
(* 0 .. header - 1 and the body follows. What the header says is the       *)
(* declared Content-Length and, for the rest, whether routing accepts the  *)
(* request. No byte of the header is NUL.                                  *)
(***************************************************************************)
EXTENDS Integers, Sequences

CONSTANTS BufferSize,      \* BUFFER_SIZE
          MaxBodySize,     \* client_max_body_size of the request's server
          HeaderLengths,   \* how long a header may be
          ContentLengths,  \* what it may declare: stol of any number, 0 without one
          BodyLengths      \* how many bytes a client may send after the header

ASSUME BufferSizeAssumption == BufferSize \in Nat \ {0}
ASSUME MaxBodySizeAssumption == MaxBodySize \in Nat
ASSUME LengthsAssumption ==
    HeaderLengths \subseteq Nat \ {0} /\ ContentLengths \subseteq Int /\ BodyLengths \subseteq Nat

VARIABLES
    msg,         \* what the client sends
    got,         \* how many bytes of it recv has returned
    early,       \* how many of them came before the piece with the header's end
    headerDone,  \* _headerDone
    hasBody,     \* _hasBody
    done,        \* _doneParsing
    status,      \* _httpStatus; "OK" is NO_STATUS and OK, "ERROR" what routing rejects
    soFar,       \* _clientBytesSoFar
    body,        \* _reqBody, as a sequence of positions
    phase        \* "reading" while the READ filter is there

vars == <<msg, got, early, headerDone, hasBody, done, status, soFar, body, phase>>

Message == [header : HeaderLengths, declared : ContentLengths, body : BodyLengths]
Total == msg.header + msg.body

(* n bytes of the stream from position p on. *)
Segment(p, n) == [i \in 1 .. n |-> p + i - 1]

Init ==
    /\ msg \in Message
    /\ got = 0 /\ early = 0
    /\ headerDone = FALSE /\ hasBody = FALSE /\ done = FALSE
    /\ status = "OK"
    /\ soFar = 0 /\ body = <<>>
    /\ phase = "reading"

-----------------------------------------------------------------------------
TooLong(n) == n > msg.declared
TooLargeAtLimit(n) == n >= MaxBodySize         \* mutant
TooLargeNever(n) == FALSE                      \* mutant
TooLarge(n) == n > MaxBodySize
CompleteOrMore(n) == n >= msg.declared         \* mutant
CompleteBefore(n) == n + 1 = msg.declared      \* mutant
Complete(n) == n = msg.declared

(* Mutant of Recv: a complete request is read on.                          *)
RecvGoesOn(n, s, complete) ==
    /\ phase = "reading" /\ ~done
    /\ n < BufferSize /\ got + n <= Total
    /\ got' = got + n
    /\ status' = s
    /\ done' = complete
    /\ phase' = IF s # "OK" THEN "read" ELSE "reading"
    /\ UNCHANGED msg

(* recv returns n bytes; afterwards the request has status s, its body may *)
(* be complete, and either of the two ends the reading: an answer or a     *)
(* script comes next.                                                      *)
Recv(n, s, complete) ==
    /\ phase = "reading" /\ ~done
    /\ n < BufferSize /\ got + n <= Total
    /\ got' = got + n
    /\ status' = s
    /\ done' = complete
    /\ phase' = IF s # "OK" \/ complete THEN "read" ELSE "reading"
    /\ UNCHANGED msg

(* A piece of the header is kept in _temp. *)
HeaderPiece(n) ==
    /\ ~headerDone /\ got + n < msg.header
    /\ Recv(n, status, done)
    /\ early' = early + n
    /\ UNCHANGED <<headerDone, hasBody, soFar, body>>

(* The header is complete: parseHeaderAndPath gives the status s, then     *)
(* appendLastChunkToBody gets the last piece from the header's length on,  *)
(* an offset into _temp: the piece's own when nothing came earlier.        *)
HeaderEnd(n) ==
    \E s \in {"OK", "ERROR"} :
       LET len == n - msg.header
           verdict == IF TooLong(len) THEN "BAD_REQUEST"
                      ELSE IF TooLarge(len) THEN "CONTENT_TOO_LARGE" ELSE s
           fits == ~TooLong(len) /\ ~TooLarge(len)
       IN  /\ ~headerDone /\ got + n >= msg.header
           /\ Recv(n, verdict, msg.declared = 0 \/ (fits /\ Complete(len)))
           /\ headerDone' = TRUE
           /\ hasBody' = ~(fits /\ Complete(len) /\ len = 0)
           /\ soFar' = soFar + len
           /\ body' = IF fits /\ len > 0 THEN Segment(got + msg.header, len) ELSE body
           /\ UNCHANGED early

(* The search for "delete=" in std::string(str + it2) starts behind the    *)
(* buffer when the header is as long as the buffer: undefined.             *)
Overrun(n) ==
    /\ phase = "reading" /\ ~headerDone
    /\ n < BufferSize /\ got + n <= Total
    /\ got + n >= msg.header /\ msg.header >= BufferSize
    /\ phase' = "undefined"
    /\ UNCHANGED <<msg, got, early, headerDone, hasBody, done, status, soFar, body>>

(* appendToBody tests what has come before this piece, then takes it all.  *)
BodyPiece(n) ==
    /\ headerDone /\ hasBody
    /\ ~TooLarge(soFar) /\ ~TooLong(soFar)
    /\ Recv(n, status, Complete(soFar + n))
    /\ soFar' = soFar + n
    /\ body' = body \o Segment(got, n)
    /\ UNCHANGED <<early, headerDone, hasBody>>

BodyRejected(n) ==
    /\ headerDone /\ hasBody
    /\ TooLarge(soFar) \/ TooLong(soFar)
    /\ Recv(n, IF TooLarge(soFar) THEN "CONTENT_TOO_LARGE" ELSE "BAD_REQUEST", done)
    /\ UNCHANGED <<early, headerDone, hasBody, soFar, body>>

(* The timer, on a request that is not complete. *)
Timeout ==
    /\ phase = "reading"
    /\ status' = IF done THEN "GATEWAY_TIMEOUT" ELSE "REQUEST_TIMEOUT"
    /\ phase' = "read"
    /\ UNCHANGED <<msg, got, early, headerDone, hasBody, done, soFar, body>>

(* EV_EOF: closeClient, whatever is still to be read. *)
ClientEof ==
    /\ phase = "reading"
    /\ phase' = "closed"
    /\ UNCHANGED <<msg, got, early, headerDone, hasBody, done, status, soFar, body>>

Next ==
    \/ \E n \in 1 .. BufferSize :
          HeaderPiece(n) \/ HeaderEnd(n) \/ Overrun(n) \/ BodyPiece(n) \/ BodyRejected(n)
    \/ Timeout \/ ClientEof

Spec == Init /\ [][Next]_vars

-----------------------------------------------------------------------------
TypeOK ==
    /\ msg \in Message
    /\ got \in Nat /\ early \in Nat /\ soFar \in Int
    /\ headerDone \in BOOLEAN /\ hasBody \in BOOLEAN /\ done \in BOOLEAN
    /\ status \in {"OK", "ERROR", "BAD_REQUEST", "CONTENT_TOO_LARGE",
                   "REQUEST_TIMEOUT", "GATEWAY_TIMEOUT"}
    /\ body \in Seq(Nat)
    /\ phase \in {"reading", "read", "closed", "undefined"}

(* The header came in one piece, as it does from a client that sends it    *)
(* with one call and a header shorter than the buffer.                     *)
OnePiece == early = 0

(* A request that is accepted has the body its header declared: every byte,*)
(* in order, from the first after the header, however the body was cut; and*)
(* nothing more was taken from the client.                                 *)
BodyExact ==
    (OnePiece /\ done /\ status = "OK")
       => body = Segment(msg.header, msg.declared) /\ got = msg.header + msg.declared

(* A client that has sent all it declared is answered at once, it does not *)
(* wait for the timer.                                                     *)
NoNeedlessWait ==
    (OnePiece /\ headerDone /\ got = msg.header + msg.declared) => phase # "reading"

(* However the request is cut, the server never keeps more of a body than  *)
(* one buffer beyond the limit and beyond what was declared, apart from    *)
(* what it lost count of because the header came in pieces.                *)
BodyBounded ==
    body # <<>> => /\ Len(body) < MaxBodySize + BufferSize + early
                   /\ Len(body) < msg.declared + BufferSize + early

(* However the request is cut, 413 and 400 are for clients that did send   *)
(* more than is allowed, or more than they declared. The time-out's 408 is *)
(* for a client that has not sent exactly what it declared, provided its   *)
(* header came in one piece: the end of a header that came in two is not   *)
(* counted right, and such a client may get it with its request complete.  *)
RejectedForCause ==
    /\ status = "CONTENT_TOO_LARGE" => got > msg.header + MaxBodySize
    /\ status = "BAD_REQUEST" => got > msg.header + msg.declared
    /\ (OnePiece /\ headerDone /\ status = "REQUEST_TIMEOUT")
          => got # msg.header + msg.declared

(* What makes these inductive: the bytes counted are those received after  *)
(* the header, less what came early, and a request is read on only while   *)
(* its body is not complete.                                               *)
Rejected == status \in {"BAD_REQUEST", "CONTENT_TOO_LARGE"}

HeaderOpen ==
    ~headerDone => /\ early = got /\ got < msg.header
                   /\ body = <<>> /\ soFar = 0 /\ ~done /\ ~Rejected

CountKept ==
    headerDone => /\ early < msg.header /\ msg.header <= got
                  /\ ~Rejected => soFar = got - msg.header - early
                  /\ phase = "reading" => hasBody /\ soFar # msg.declared

BodyKept ==
    /\ body # <<>> => /\ Len(body) <= soFar + early
                      /\ soFar < MaxBodySize + BufferSize
                      /\ soFar < msg.declared + BufferSize
    /\ (OnePiece /\ headerDone /\ ~Rejected) =>
          body = Segment(msg.header, soFar)
    /\ (OnePiece /\ done /\ status = "OK") => soFar = msg.declared

ReaderInv ==
    /\ TypeOK
    /\ got <= Total
    /\ phase = "reading" => status = "OK" /\ ~done
    /\ HeaderOpen /\ CountKept /\ BodyKept /\ RejectedForCause

-----------------------------------------------------------------------------
Loop == INSTANCE RequestState WITH HasCgi <- FALSE

(* What the event loop knows of this request.                              *)
Known ==
    [headerDone |-> headerDone, isCgi |-> FALSE, done |-> done,
     status |-> IF status = "OK" THEN "OK" ELSE "ERROR"]

LoopAgrees ==
    got' # got => /\ Known' \in Loop!Parsed(Known)
                  /\ phase' = "reading" <=> ~Loop!Answerable(Known')

(* Whatever a recv returns, the request becomes one the event loop allows  *)
(* for (Parsed), and is read on only while the loop could neither answer it*)
(* nor pass it on: the bytes, the counters and the limits behind these two *)
(* tests of readRequest are all here.                                      *)
ReadAsTheLoopExpects == [][LoopAgrees]_vars

-----------------------------------------------------------------------------
(* RequestParser.cpp:303 on the offset it2: "needed to find the start of   *)
(* body". The first byte stored is the first byte of the body.             *)
StartOfBody == body # <<>> => Head(body) = msg.header
=============================================================================
