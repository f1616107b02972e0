---------------------------- MODULE RequestState ----------------------------
(***************************************************************************)
(* What the event loop knows of a Request: whether its header and the whole*)
(* of it have been read, whether a script is to answer it and the class of *)
(* _httpStatus; and what parsing and createResponse may make of these. The *)
(* details are in RequestReader and Exchange, whose properties compare     *)
(* their steps with the operators of this module.                          *)
(***************************************************************************)
EXTENDS Naturals

CONSTANT HasCgi          \* TRUE iff some location of the configuration is a CGI

ASSUME HasCgiAssumption == HasCgi \in BOOLEAN

(* createResponse appends to _fullResponse. For an image, which only an    *)
(* accepted request gets, setImage replaces it: by one response, or by     *)
(* nothing at all when the file cannot be opened any more. The status that *)
(* createResponse may still change is not tested by the loop any more.     *)
MayBeImage(r) == r.headerDone /\ r.status = "OK" /\ ~r.isCgi

CreateResponse(r) ==
    {[r EXCEPT !.responses = n] :
        n \in {r.responses + 1} \cup (IF MayBeImage(r) THEN {0, 1} ELSE {})}

(* What appendToRequest may make of a Request with the bytes of one recv.  *)
HeaderRead(r, h) ==
    [r EXCEPT !.headerDone = TRUE, !.isCgi = h.isCgi, !.status = h.status, !.done = h.done]

Parsed(r) ==
    IF ~r.headerDone
    THEN {r} \cup {HeaderRead(r, h) : h \in [isCgi : {FALSE, HasCgi},
                                            status : {r.status, "ERROR"},
                                            done : BOOLEAN]}
    ELSE {r, [r EXCEPT !.done = TRUE], [r EXCEPT !.status = "ERROR"]}

(* What readRequest does with it then: answer, start the script, or read on.*)
AnswerableEarly(r) == r.status # "OK" \/ r.headerDone              \* mutant
Answerable(r) == r.status # "OK" \/ (r.done /\ ~r.isCgi)
StartsCgi(r) == ~Answerable(r) /\ r.done /\ r.isCgi
=============================================================================
