------------------------- MODULE RequestReader_proofs -------------------------
(***************************************************************************)
(* For every buffer size, limit and request: what the reader accepts is    *)
(* what the client sent, unless the header came in pieces, and what it     *)
(* keeps is bounded either way; and what a Request becomes is what the     *)
(* event loop allows for.                                                  *)
(***************************************************************************)
EXTENDS RequestReader, SequenceTheorems, TLAPS

(* Consecutive pieces of the stream join into one: the piece appendToBody  *)
(* appends starts where the body ended.                                    *)
LEMMA SegmentJoin ==
    ASSUME NEW p \in Nat, NEW m \in Nat, NEW n \in Nat
    PROVE  Segment(p, m) \o Segment(p + m, n) = Segment(p, m + n)
BY DEF Segment

(* A piece of the stream is a sequence of positions as long as it says.    *)
LEMMA SegmentType ==
    ASSUME NEW p \in Nat, NEW n \in Nat
    PROVE  Segment(p, n) \in Seq(Nat) /\ Len(Segment(p, n)) = n
<1>1. \A i \in 1 .. n : p + i - 1 \in Nat
  OBVIOUS
<1> QED BY <1>1 DEF Segment

(* What the type invariant says of the numbers.                            *)
LEMMA Numbers ==
    TypeOK => /\ msg.header \in Nat \ {0} /\ msg.body \in Nat /\ msg.declared \in Int
              /\ got \in Nat /\ early \in Nat /\ soFar \in Int /\ Len(body) \in Nat
              /\ BufferSize \in Nat \ {0} /\ MaxBodySize \in Nat
<1> SUFFICES ASSUME TypeOK
             PROVE  /\ msg.header \in Nat \ {0} /\ msg.body \in Nat /\ msg.declared \in Int
                    /\ got \in Nat /\ early \in Nat /\ soFar \in Int /\ Len(body) \in Nat
                    /\ BufferSize \in Nat \ {0} /\ MaxBodySize \in Nat
  OBVIOUS
<1>1. /\ msg \in Message /\ body \in Seq(Nat)
      /\ got \in Nat /\ early \in Nat /\ soFar \in Int
  BY DEF TypeOK
<1>2. msg.header \in HeaderLengths /\ msg.declared \in ContentLengths /\ msg.body \in BodyLengths
  BY <1>1 DEF Message
<1> QED
  BY <1>1, <1>2, BufferSizeAssumption, MaxBodySizeAssumption, LengthsAssumption, LenProperties

(* The constructor's request satisfies the invariant.                      *)
LEMMA InitReader == Init => ReaderInv
<1> SUFFICES ASSUME Init PROVE ReaderInv
  OBVIOUS
<1>2. TypeOK
  <2>1. msg \in Message /\ body \in Seq(Nat)
    BY EmptySeq DEF Init
  <2>2. got \in Nat /\ early \in Nat /\ soFar \in Int
    BY DEF Init
  <2>3. headerDone \in BOOLEAN /\ hasBody \in BOOLEAN /\ done \in BOOLEAN
    BY DEF Init
  <2> QED BY <2>1, <2>2, <2>3 DEF Init, TypeOK
<1>3. ~headerDone /\ body = <<>> /\ status = "OK" /\ ~done /\ got = 0 /\ early = 0 /\ soFar = 0
  BY DEF Init
<1> QED
  BY <1>2, <1>3, Numbers DEF ReaderInv, HeaderOpen, CountKept, BodyKept, RejectedForCause,
                          Rejected, OnePiece, Total

(* No piece, timeout or hang-up breaks it.                                 *)
LEMMA NextReader == ReaderInv /\ [Next]_vars => ReaderInv'
<1> SUFFICES ASSUME ReaderInv, [Next]_vars PROVE ReaderInv'
  OBVIOUS
<1>h. /\ msg.header \in Nat \ {0} /\ msg.body \in Nat /\ msg.declared \in Int
      /\ got \in Nat /\ early \in Nat /\ soFar \in Int /\ Len(body) \in Nat
      /\ BufferSize \in Nat \ {0} /\ MaxBodySize \in Nat
  BY Numbers DEF ReaderInv
<1>k. /\ TypeOK /\ got <= Total
      /\ phase = "reading" => status = "OK" /\ ~done
      /\ HeaderOpen /\ CountKept /\ BodyKept /\ RejectedForCause
  BY DEF ReaderInv
<1>1. ASSUME NEW n \in 1 .. BufferSize, HeaderPiece(n) PROVE ReaderInv'
  BY <1>1, <1>h, <1>k DEF TypeOK, ReaderInv, HeaderPiece, Recv, HeaderOpen, CountKept, BodyKept,
                          RejectedForCause, Rejected, OnePiece, Total
<1>2. ASSUME NEW n \in 1 .. BufferSize, HeaderEnd(n) PROVE ReaderInv'
  <2>0. n \in Nat \ {0}
    BY <1>h
  <2>1. PICK s \in {"OK", "ERROR"} : HeaderEnd(n)!(s)
    BY <1>2 DEF HeaderEnd
  <2> DEFINE len == n - msg.header
             fits == ~TooLong(len) /\ ~TooLarge(len)
  <2>2. len \in Int /\ got \in Nat /\ got + n <= Total /\ got + n >= msg.header
    BY <1>h, <2>1 DEF Recv
  <2>3. /\ ~headerDone /\ headerDone' /\ msg' = msg /\ early' = early /\ early = got
        /\ got' = got + n /\ got < msg.header /\ body = <<>> /\ soFar' = len
    BY <2>1, <1>h, <2>2, <1>k DEF Recv, HeaderOpen
  <2>4. body' = IF fits /\ len > 0 THEN Segment(got + msg.header, len) ELSE <<>>
    BY <2>1, <2>3, <1>h
  <2>5. hasBody' = ~(fits /\ Complete(len) /\ len = 0)
    BY <2>1
  <2>6. /\ phase = "reading"
        /\ done' = (msg.declared = 0 \/ (fits /\ Complete(len)))
        /\ phase' = IF status' # "OK" \/ done' THEN "read" ELSE "reading"
    BY <2>1, <1>k DEF Recv
  <2>7. status' = IF TooLong(len) THEN "BAD_REQUEST"
                  ELSE IF TooLarge(len) THEN "CONTENT_TOO_LARGE" ELSE s
    BY <2>1 DEF Recv
  <2>8. TypeOK'
    <3>1. body' \in Seq(Nat)
      <4>1. fits /\ len > 0 => got + msg.header \in Nat /\ len \in Nat
        BY <2>2, <1>h
      <4> HIDE DEF fits, len
      <4> QED BY <4>1, <2>4, SegmentType, EmptySeq
    <3> QED BY <3>1, <2>1, <2>2, <2>3, <2>5, <2>6, <2>7, <1>h, <1>k DEF TypeOK
  <2>9. CountKept'
    <3> HIDE DEF len
    <3>1. early' < msg'.header /\ msg'.header <= got'
      BY <1>h, <2>2, <2>3
    <3>2. soFar' = got' - msg'.header - early'
      BY <1>h, <2>2, <2>3 DEF len
    <3>3. phase' = "reading" => hasBody' /\ soFar' # msg'.declared
      BY <1>h, <2>2, <2>3, <2>5, <2>6, <2>7 DEF Complete
    <3> QED BY <3>1, <3>2, <3>3 DEF CountKept
  <2>10. BodyKept'
    <3>1. CASE fits /\ len > 0
      <4>0. got + msg.header \in Nat /\ len \in Nat
        BY <3>1, <2>2, <1>h
      <4>1. body' = Segment(got + msg.header, len) /\ Len(body') = len
        BY <4>0, <3>1, <2>4, SegmentType
      <4>2. len <= MaxBodySize /\ len <= msg.declared
        BY <3>1, <2>2, <1>h DEF TooLong, TooLarge
      <4>3. (OnePiece /\ done /\ status = "OK")' => soFar' = msg'.declared
        <5>1. done' => (msg.declared = 0 \/ len = msg.declared)
          BY <2>6 DEF Complete
        <5>2. msg.declared = 0 => FALSE
          BY <4>2, <3>1, <2>2, <1>h
        <5> QED BY <5>1, <5>2, <2>3
      <4>4. OnePiece' => body' = Segment(msg'.header, soFar')
        BY <4>1, <2>3, <1>h DEF OnePiece
      <4>5. /\ Len(body') <= soFar' + early'
            /\ soFar' < MaxBodySize + BufferSize
            /\ soFar' < msg'.declared + BufferSize
        BY <4>0, <4>1, <4>2, <2>2, <2>3, <1>h
      <4> HIDE DEF fits, len
      <4> QED BY <4>3, <4>4, <4>5 DEF BodyKept
    <3>2. CASE ~(fits /\ len > 0)
      <4>1. body' = <<>>
        BY <3>2, <2>4
      <4>2. OnePiece' => len >= 0
        BY <2>2, <2>3, <1>h DEF OnePiece
      <4>3. (OnePiece' /\ ~Rejected') => len = 0
        BY <4>2, <3>2, <2>2, <2>7 DEF Rejected
      <4>4. Segment(msg.header, 0) = <<>>
        BY <1>h DEF Segment
      <4>5. (OnePiece /\ done /\ status = "OK")' => soFar' = msg'.declared
        BY <4>3, <2>2, <2>3, <2>6, <1>h DEF Complete, Rejected
      <4> QED BY <4>1, <4>3, <4>4, <4>5, <2>3 DEF BodyKept
    <3> QED BY <3>1, <3>2
  <2>11. RejectedForCause'
    BY <1>h, <2>2, <2>3, <2>7 DEF RejectedForCause, TooLong, TooLarge
  <2> QED
    BY <2>2, <2>3, <2>6, <2>8, <2>9, <2>10, <2>11 DEF ReaderInv, HeaderOpen, Total
<1>3. ASSUME NEW n \in 1 .. BufferSize, Overrun(n) PROVE ReaderInv'
  BY <1>3, <1>h, <1>k DEF TypeOK, ReaderInv, Overrun, HeaderOpen, CountKept, BodyKept,
                          RejectedForCause, Rejected, OnePiece, Total
<1>4. ASSUME NEW n \in 1 .. BufferSize, BodyPiece(n) PROVE ReaderInv'
  <2>0. n \in Nat \ {0}
    BY <1>h
  <2>1. /\ headerDone /\ headerDone' /\ hasBody' /\ msg' = msg /\ early' = early
        /\ phase = "reading" /\ status = "OK" /\ status' = "OK" /\ ~done
        /\ got' = got + n /\ got + n <= Total /\ soFar' = soFar + n /\ n < BufferSize
        /\ body' = body \o Segment(got, n)
        /\ done' = (soFar + n = msg.declared)
        /\ phase' = IF soFar + n = msg.declared THEN "read" ELSE "reading"
    BY <1>4, <1>k DEF BodyPiece, Recv, Complete
  <2>2. /\ soFar = got - msg.header - early /\ early < msg.header /\ msg.header <= got
        /\ soFar <= MaxBodySize /\ soFar <= msg.declared
    BY <1>4, <2>1, <1>h, <1>k DEF BodyPiece, CountKept, Rejected, TooLong, TooLarge
  <2>3. /\ Segment(got, n) \in Seq(Nat) /\ Len(Segment(got, n)) = n
    BY <2>0, <1>h, SegmentType
  <2>4. body' \in Seq(Nat) /\ Len(body') = Len(body) + n
    BY <2>1, <2>3, <1>k, ConcatProperties DEF TypeOK
  <2>5. Len(body) <= soFar + early
    BY <2>2, <1>h, <1>k, EmptySeq DEF BodyKept
  <2>6. OnePiece => body' = Segment(msg.header, soFar + n)
    <3> SUFFICES ASSUME OnePiece PROVE body' = Segment(msg.header, soFar + n)
      OBVIOUS
    <3>1. soFar \in Nat /\ got = msg.header + soFar
      BY <2>2, <1>h DEF OnePiece
    <3>2. body = Segment(msg.header, soFar)
      BY <2>1, <1>k DEF BodyKept, Rejected, OnePiece
    <3>3. Segment(msg.header, soFar) \o Segment(msg.header + soFar, n)
             = Segment(msg.header, soFar + n)
      BY <3>1, SegmentJoin, <2>0, <1>h
    <3> QED BY <3>1, <3>2, <3>3, <2>1
  <2>7. TypeOK'
    BY <2>1, <2>4, <1>h, <1>k DEF TypeOK
  <2>8. CountKept'
    <3>0. msg' = msg /\ early' = early /\ got' = got + n /\ soFar' = soFar + n
      BY <2>1
    <3>a. msg.header <= got + n /\ soFar + n = (got + n) - msg.header - early
      BY <2>0, <2>2, <1>h
    <3>1. early' < msg'.header /\ msg'.header <= got' /\ soFar' = got' - msg'.header - early'
      BY <3>0, <3>a, <2>2
    <3>2. phase' = "reading" => hasBody' /\ soFar' # msg'.declared
      BY <2>1
    <3> QED BY <3>1, <3>2 DEF CountKept
  <2>9. BodyKept'
    <3>1. Len(body') <= soFar' + early'
      BY <2>1, <2>4, <2>5, <1>h
    <3>2. soFar' < MaxBodySize + BufferSize /\ soFar' < msg'.declared + BufferSize
      <4>1. soFar' = soFar + n /\ n < BufferSize /\ msg' = msg
        BY <2>1
      <4>2. soFar <= MaxBodySize /\ soFar <= msg.declared
        BY <2>2
      <4>3. soFar + n < MaxBodySize + BufferSize
        BY <4>1, <4>2, <2>0, <1>h
      <4>4. soFar + n < msg.declared + BufferSize
        BY <4>1, <4>2, <2>0, <1>h
      <4> QED BY <4>1, <4>3, <4>4
    <3>3. OnePiece' => body' = Segment(msg'.header, soFar')
      BY <2>1, <2>6 DEF OnePiece
    <3>4. done' => soFar' = msg'.declared
      BY <2>1
    <3> QED BY <3>1, <3>2, <3>3, <3>4 DEF BodyKept
  <2> QED
    BY <2>1, <2>7, <2>8, <2>9, <1>h, <1>k
       DEF ReaderInv, Rejected, HeaderOpen, RejectedForCause, Total
<1>5. ASSUME NEW n \in 1 .. BufferSize, BodyRejected(n) PROVE ReaderInv'
  <2>1. /\ headerDone /\ msg' = msg /\ phase = "reading" /\ status = "OK" /\ ~done
        /\ UNCHANGED <<early, headerDone, hasBody, soFar, body, done>>
        /\ got' = got + n /\ got + n <= Total /\ phase' = "read"
        /\ status' = IF TooLarge(soFar) THEN "CONTENT_TOO_LARGE" ELSE "BAD_REQUEST"
        /\ TooLarge(soFar) \/ TooLong(soFar)
    BY <1>5, <1>k DEF BodyRejected, Recv
  <2>2. /\ soFar = got - msg.header - early /\ early < msg.header /\ msg.header <= got
    BY <2>1, <1>h, <1>k DEF CountKept, Rejected
  <2>3. RejectedForCause'
    BY <2>1, <2>2, <1>h DEF RejectedForCause, TooLarge, TooLong
  <2>4. CountKept'
    BY <2>1, <2>2, <1>h DEF CountKept, Rejected
  <2>5. BodyKept'
    BY <2>1, <1>k DEF BodyKept, OnePiece, Rejected
  <2> QED BY <2>1, <2>3, <2>4, <2>5, <1>h, <1>k DEF TypeOK, ReaderInv, HeaderOpen, Total
<1>6. ASSUME Timeout PROVE ReaderInv'
  BY <1>6, <1>h, <1>k DEF TypeOK, ReaderInv, Timeout, HeaderOpen, CountKept, BodyKept,
                          RejectedForCause, Rejected, OnePiece, Total
<1>7. ASSUME ClientEof PROVE ReaderInv'
  BY <1>7, <1>h, <1>k DEF TypeOK, ReaderInv, ClientEof, HeaderOpen, CountKept, BodyKept,
                          RejectedForCause, Rejected, OnePiece, Total
<1>8. ASSUME UNCHANGED vars PROVE ReaderInv'
  BY <1>8, <1>h, <1>k DEF TypeOK, ReaderInv, vars, HeaderOpen, CountKept, BodyKept,
                          RejectedForCause, Rejected, OnePiece, Total
<1> QED BY <1>1, <1>2, <1>3, <1>4, <1>5, <1>6, <1>7, <1>8 DEF Next

(* The invariant of one request's reading, of any size and cut anyhow.     *)
THEOREM ReaderCorrect == Spec => []ReaderInv
BY InitReader, NextReader, PTL DEF Spec

(* appendLastChunkToBody and appendToBody: an accepted request whose header*)
(* came in one piece has exactly the body it declared.                     *)
THEOREM BodyComplete == Spec => []BodyExact
<1>1. ReaderInv => BodyExact
  <2> SUFFICES ASSUME ReaderInv, OnePiece, done, status = "OK"
               PROVE  body = Segment(msg.header, msg.declared) /\ got = msg.header + msg.declared
    BY DEF BodyExact
  <2>1. msg.header \in Nat /\ msg.declared \in Int /\ got \in Nat
    BY Numbers DEF ReaderInv
  <2>2. headerDone /\ soFar = msg.declared
    BY DEF ReaderInv, TypeOK, HeaderOpen, BodyKept
  <2> QED BY <2>1, <2>2 DEF ReaderInv, CountKept, BodyKept, Rejected, OnePiece
<1> QED BY <1>1, ReaderCorrect, PTL

(* A client that has sent the declared body waits for nothing.             *)
THEOREM AnsweredInTime == Spec => []NoNeedlessWait
<1>1. ReaderInv => NoNeedlessWait
  <2> SUFFICES ASSUME ReaderInv, OnePiece, headerDone, got = msg.header + msg.declared,
                      phase = "reading"
               PROVE  FALSE
    BY DEF NoNeedlessWait
  <2>1. msg.header \in Nat /\ msg.declared \in Int
    BY Numbers DEF ReaderInv
  <2>2. ~Rejected
    BY DEF ReaderInv, Rejected
  <2> QED BY <2>1, <2>2 DEF ReaderInv, CountKept, OnePiece
<1> QED BY <1>1, ReaderCorrect, PTL

(* The memory a body may take.                                             *)
THEOREM BodyLimited == Spec => []BodyBounded
<1>1. ReaderInv => BodyBounded
  <2> SUFFICES ASSUME ReaderInv PROVE BodyBounded
    OBVIOUS
  <2>1. /\ msg.declared \in Int /\ soFar \in Int /\ early \in Nat /\ Len(body) \in Nat
        /\ MaxBodySize \in Nat /\ BufferSize \in Nat
    BY Numbers DEF ReaderInv
  <2> QED BY <2>1 DEF ReaderInv, BodyBounded, BodyKept
<1> QED BY <1>1, ReaderCorrect, PTL

(* However it is cut, a body is rejected only for what it is; and a client *)
(* whose header came in one piece is timed out only if it has not sent     *)
(* exactly what it declared (appendToBody, handleTimeout).                 *)
THEOREM RejectionDeserved == Spec => []RejectedForCause
<1>1. ReaderInv => RejectedForCause
  BY DEF ReaderInv
<1> QED BY <1>1, ReaderCorrect, PTL

-----------------------------------------------------------------------------
(* What the loop sees of a Request, and what it may be.                    *)
View(h, d, s) == [headerDone |-> h, isCgi |-> FALSE, done |-> d, status |-> s]

Views == [headerDone : BOOLEAN, isCgi : BOOLEAN, done : BOOLEAN, status : {"OK", "ERROR"}]

(* What appendToRequest changes of a view.                                 *)
LEMMA ViewChanged ==
    ASSUME NEW h \in BOOLEAN, NEW d \in BOOLEAN, NEW s \in {"OK", "ERROR"},
           NEW e \in BOOLEAN, NEW t \in {"OK", "ERROR"}
    PROVE  /\ [View(h, d, s) EXCEPT !.done = e] = View(h, e, s)
           /\ [View(h, d, s) EXCEPT !.status = t] = View(h, d, t)
           /\ Loop!HeaderRead(View(h, d, s), [isCgi |-> FALSE, status |-> t, done |-> e])
                 = View(TRUE, e, t)
<1> DEFINE r == View(h, d, s)
           v == [isCgi |-> FALSE, status |-> t, done |-> e]
<1>1. r \in Views /\ r.headerDone = h /\ r.isCgi = FALSE /\ r.done = d /\ r.status = s
  BY DEF View, Views
<1>2. v.isCgi = FALSE /\ v.status = t /\ v.done = e
  OBVIOUS
<1> HIDE DEF r, v
<1>3. [r EXCEPT !.done = e] = View(h, e, s)
  <2> DEFINE x == [r EXCEPT !.done = e]
  <2>1. x \in Views /\ x.headerDone = h /\ x.isCgi = FALSE /\ x.done = e /\ x.status = s
    BY <1>1 DEF Views
  <2> HIDE DEF x
  <2>2. x = View(h, e, s)
    BY <2>1 DEF View, Views
  <2> QED BY <2>2 DEF x
<1>4. [r EXCEPT !.status = t] = View(h, d, t)
  <2> DEFINE x == [r EXCEPT !.status = t]
  <2>1. x \in Views /\ x.headerDone = h /\ x.isCgi = FALSE /\ x.done = d /\ x.status = t
    BY <1>1 DEF Views
  <2> HIDE DEF x
  <2>2. x = View(h, d, t)
    BY <2>1 DEF View, Views
  <2> QED BY <2>2 DEF x
<1>5. Loop!HeaderRead(r, v) = View(TRUE, e, t)
  <2> DEFINE x == [r EXCEPT !.headerDone = TRUE, !.isCgi = v.isCgi, !.status = v.status,
                            !.done = v.done]
  <2>1. x \in Views /\ x.headerDone /\ x.isCgi = FALSE /\ x.done = e /\ x.status = t
    BY <1>1, <1>2 DEF Views
  <2>2. Loop!HeaderRead(r, v) = x
    BY DEF Loop!HeaderRead
  <2> HIDE DEF x
  <2>3. x = View(TRUE, e, t)
    BY <2>1 DEF View, Views
  <2> QED BY <2>2, <2>3
<1> QED BY <1>3, <1>4, <1>5 DEF r, v

(* What the loop allows for: nothing new, the header with any verdict and  *)
(* the end of the body, and after the header the end of the body or an     *)
(* error, but not both.                                                    *)
LEMMA ParsedViews ==
    ASSUME NEW d \in BOOLEAN, NEW s \in {"OK", "ERROR"}
    PROVE  /\ View(FALSE, FALSE, "OK") \in Loop!Parsed(View(FALSE, FALSE, "OK"))
           /\ View(TRUE, d, s) \in Loop!Parsed(View(FALSE, FALSE, "OK"))
           /\ View(TRUE, d, "OK") \in Loop!Parsed(View(TRUE, FALSE, "OK"))
           /\ View(TRUE, FALSE, s) \in Loop!Parsed(View(TRUE, FALSE, "OK"))
<1> DEFINE r == View(FALSE, FALSE, "OK")
           q == View(TRUE, FALSE, "OK")
<1>1. ~r.headerDone /\ r.status = "OK" /\ q.headerDone
  BY DEF View
<1>2. r \in Loop!Parsed(r)
  BY <1>1 DEF Loop!Parsed
<1>3. View(TRUE, d, s) \in Loop!Parsed(r)
  <2> DEFINE h == [isCgi |-> FALSE, status |-> s, done |-> d]
  <2>1. h \in [isCgi : {FALSE, FALSE}, status : {r.status, "ERROR"}, done : BOOLEAN]
    BY <1>1
  <2>2. Loop!HeaderRead(r, h) = View(TRUE, d, s)
    BY ViewChanged
  <2> HIDE DEF r, h
  <2> QED BY <1>1, <2>1, <2>2 DEF Loop!Parsed
<1>4. /\ [q EXCEPT !.done = TRUE] = View(TRUE, TRUE, "OK")
      /\ [q EXCEPT !.status = "ERROR"] = View(TRUE, FALSE, "ERROR")
  BY ViewChanged
<1>5. View(TRUE, d, "OK") \in Loop!Parsed(q) /\ View(TRUE, FALSE, s) \in Loop!Parsed(q)
  <2>1. Loop!Parsed(q) = {q, [q EXCEPT !.done = TRUE], [q EXCEPT !.status = "ERROR"]}
    <3> HIDE DEF q
    <3> QED BY <1>1 DEF Loop!Parsed
  <2>2. Loop!Parsed(q) = {q, View(TRUE, TRUE, "OK"), View(TRUE, FALSE, "ERROR")}
    BY <1>4, <2>1, Zenon
  <2>3. View(TRUE, d, "OK") \in {q, View(TRUE, TRUE, "OK")}
    BY Zenon
  <2>4. View(TRUE, FALSE, s) \in {q, View(TRUE, FALSE, "ERROR")}
    OBVIOUS
  <2> QED BY <2>2, <2>3, <2>4, Zenon
<1> QED BY <1>2, <1>3, <1>5

(* The loop answers a request that is complete or rejected.                *)
LEMMA AnswerableView ==
    ASSUME NEW h \in BOOLEAN, NEW d \in BOOLEAN, NEW s \in {"OK", "ERROR"}
    PROVE  Loop!Answerable(View(h, d, s)) <=> s # "OK" \/ d
BY DEF Loop!Answerable, View

(* Every recv that is read to its end leaves the request in a state the    *)
(* event loop allows for, and ends the reading when the loop would.        *)
LEMMA LoopKnows == ReaderInv /\ [Next]_vars => [LoopAgrees]_vars
<1> SUFFICES ASSUME ReaderInv, Next, got' # got
             PROVE  /\ Known' \in Loop!Parsed(Known)
                    /\ phase' = "reading" <=> ~Loop!Answerable(Known')
  BY DEF LoopAgrees
<1> DEFINE class(s) == IF s = "OK" THEN "OK" ELSE "ERROR"
<1>1. \E n \in 1 .. BufferSize : \/ HeaderPiece(n) \/ HeaderEnd(n)
                                 \/ BodyPiece(n) \/ BodyRejected(n)
  BY DEF Next, Overrun, Timeout, ClientEof
<1>2. PICK n \in 1 .. BufferSize : \E s, d : Recv(n, s, d)
  BY <1>1, Zenon DEF HeaderPiece, HeaderEnd, BodyPiece, BodyRejected
<1>3. phase = "reading" /\ status = "OK" /\ ~done
  BY <1>2 DEF Recv, ReaderInv
<1>4. phase' = IF status' # "OK" \/ done' THEN "read" ELSE "reading"
  BY <1>2 DEF Recv
<1>5. headerDone \in BOOLEAN /\ headerDone' \in BOOLEAN /\ done' \in BOOLEAN
  BY NextReader DEF ReaderInv, TypeOK
<1>6. /\ Known = View(headerDone, FALSE, "OK")
      /\ Known' = View(headerDone', done', class(status'))
  <2>1. done = FALSE
    BY <1>3, <1>5 DEF ReaderInv, TypeOK
  <2> QED BY <1>3, <2>1 DEF Known, View
<1>7. class(status') \in {"OK", "ERROR"} /\ (class(status') = "OK" <=> status' = "OK")
  OBVIOUS
<1>8. \/ ~headerDone /\ ~headerDone' /\ status' = "OK" /\ ~done'
      \/ ~headerDone /\ headerDone'
      \/ headerDone /\ headerDone' /\ status' = "OK"
      \/ headerDone /\ headerDone' /\ ~done'
  BY <1>1, <1>3 DEF HeaderPiece, HeaderEnd, BodyPiece, BodyRejected, Recv
<1> HIDE DEF class
<1>9. Known' \in Loop!Parsed(Known)
  BY <1>5, <1>6, <1>7, <1>8, ParsedViews
<1>10. phase' = "reading" <=> ~Loop!Answerable(Known')
  BY <1>4, <1>5, <1>6, <1>7, AnswerableView
<1> QED BY <1>9, <1>10

(* readRequest and appendToRequest: the event loop's view of a request that*)
(* is being read is what the bytes make of it.                             *)
THEOREM ReadingAbstracted == Spec => ReadAsTheLoopExpects
BY ReaderCorrect, LoopKnows, PTL DEF Spec, ReadAsTheLoopExpects
=============================================================================
