----------------------------- MODULE Connections -----------------------------
(***************************************************************************)
(* What the server owes its clients, without descriptors, filters, batches *)
(* and timers: each connection is accepted, received, and answered once, at*)
(* its end. A client is not answered if it has gone, or if what it was to  *)
(* be served cannot be found any more; an error, a timeout and a response  *)
(* that has been begun are always sent.                                    *)
(***************************************************************************)
CONSTANT Client

VARIABLES
    stage,   \* where the connection of each client is
    gone,    \* the client has hung up
    sent     \* the answers this client was sent: whose, and of how many responses

connections == <<stage, gone, sent>>

Init ==
    /\ stage = [c \in Client |-> "away"]
    /\ gone = [c \in Client |-> FALSE]
    /\ sent = [c \in Client |-> {}]

Move(c, from, to) == stage[c] = from /\ stage' = [stage EXCEPT ![c] = to]

Arrive(c) == Move(c, "away", "waiting") /\ UNCHANGED <<gone, sent>>

Accept(c) == Move(c, "waiting", "receiving") /\ UNCHANGED <<gone, sent>>

(* The request is accepted and its content is to be looked for, or it is   *)
(* rejected and the answer is certain.                                     *)
Complete(c) ==
    /\ Move(c, "receiving", "serving") \/ Move(c, "receiving", "answering")
    /\ UNCHANGED <<gone, sent>>

(* The content was found, or the timer was faster.                         *)
Settle(c) == Move(c, "serving", "answering") /\ UNCHANGED <<gone, sent>>

(* The answer and the end are one step: nothing is sent after it.          *)
Answer(c) ==
    /\ Move(c, "serving", "ended") \/ Move(c, "answering", "ended")
    /\ ~gone[c]
    /\ sent' = [sent EXCEPT ![c] = {<<c, 1>>}]
    /\ UNCHANGED gone

(* The content has vanished.                                               *)
Vanish(c) ==
    /\ Move(c, "serving", "ended")
    /\ ~gone[c]
    /\ UNCHANGED <<gone, sent>>

Drop(c) ==
    /\ gone[c]
    /\ \E from \in {"receiving", "serving", "answering"} : Move(c, from, "ended")
    /\ UNCHANGED <<gone, sent>>

HangUp(c) ==
    /\ stage[c] \in {"receiving", "serving", "answering"} /\ ~gone[c]
    /\ gone' = [gone EXCEPT ![c] = TRUE]
    /\ UNCHANGED <<stage, sent>>

Next ==
    \E c \in Client :
       \/ Arrive(c) \/ Accept(c) \/ Complete(c) \/ Settle(c)
       \/ Answer(c) \/ Vanish(c) \/ Drop(c) \/ HangUp(c)

Spec == Init /\ [][Next]_connections
=============================================================================
