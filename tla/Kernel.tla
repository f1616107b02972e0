------------------------------- MODULE Kernel -------------------------------
(***************************************************************************)
(* The part of the operating system the event loop of 42.webserv leans on: *)
(* the process's descriptor table and the filters registered on its kqueue.*)
(* None of it is code of the repository; it is modelled from the calls of  *)
(* WebServer.cpp and CgiData.cpp (kevent, accept, pipe, close, fcntl).     *)
(*                                                                         *)
(* A kernel is a record of two functions, so that a handler which makes    *)
(* several system calls is written as their composition:                   *)
(*   desc[f]     what descriptor f refers to, and for which connection     *)
(*   knote[f, t] the udata of filter t of ident f, NoConn if there is none *)
(* The ident of a TIMER filter is a number of the same range, but it is    *)
(* only a number: close(f) drops the READ and WRITE filters of f and leaves*)
(* the TIMER filter alone.                                                 *)
(***************************************************************************)
EXTENDS Integers, FiniteSets

CONSTANTS Conn,    \* the connections clients may open, one Request each
          NoConn,  \* no connection: the NULL udata
          MaxFd    \* RLIMIT_NOFILE, less the descriptors never handed out

ASSUME NoConnAssumption == NoConn \notin Conn
ASSUME MaxFdAssumption == MaxFd \in Nat

Fd == 1 .. MaxFd
NoFd == -1                      \* what a field holds before pipe() fills it
ListenFd == 0                   \* the listening socket, open as long as the process
Filter == {"READ", "WRITE", "TIMER"}
PipeEnd == {"in0", "in1", "out0", "out1"}
Role == {"closed", "sock"} \cup PipeEnd

Descriptor == [role : Role, conn : Conn \cup {NoConn}]
Closed == [role |-> "closed", conn |-> NoConn]
Sock(c) == [role |-> "sock", conn |-> c]
Pipe(end, c) == [role |-> end, conn |-> c]

KernelState == [desc  : [Fd -> Descriptor],
                knote : [Fd \X Filter -> Conn \cup {NoConn}]]

EmptyKernel == [desc  |-> [f \in Fd |-> Closed],
                knote |-> [k \in Fd \X Filter |-> NoConn]]

(* fcntl(f, F_GETFD) # -1 *)
IsOpen(K, f) == f \in Fd /\ K.desc[f].role # "closed"

(* EV_ADD: the pair (ident, filter) has one filter, the latest udata wins. *)
Add(K, f, t, c) ==
    [desc  |-> K.desc,
     knote |-> [k \in Fd \X Filter |-> IF k = <<f, t>> THEN c ELSE K.knote[k]]]

(* EV_DELETE: deleting a filter that is not there only returns an error.   *)
Del(K, f, t) == Add(K, f, t, NoConn)

Open(K, f, d) ==
    [desc  |-> [g \in Fd |-> IF g = f THEN d ELSE K.desc[g]],
     knote |-> K.knote]

(* close() of every descriptor of S; numbers that are not open are EBADF.  *)
Close(K, S) ==
    [desc  |-> [f \in Fd |-> IF f \in S THEN Closed ELSE K.desc[f]],
     knote |-> [k \in Fd \X Filter |->
                   IF k[1] \in S /\ k[2] # "TIMER" THEN NoConn ELSE K.knote[k]]]

Unused(K) == {f \in Fd : K.desc[f].role = "closed"}

(* POSIX hands out the lowest unused numbers: the n lowest members of S,   *)
(* as a set, or {} if S has fewer.                                         *)
Lowest(S, n) ==
    IF Cardinality(S) < n THEN {}
    ELSE {f \in S : Cardinality({g \in S : g < f}) < n}

(* pipe(fds): the read end gets the lower number; on EMFILE fds keeps the  *)
(* two values it had, NoFd.                                                *)
NewPipe(K) ==
    LET S == Lowest(Unused(K), 2)
        P == {p \in S \X S : p[1] < p[2]}
    IN  IF P = {} THEN <<NoFd, NoFd>> ELSE CHOOSE p \in P : TRUE

Registered(K) == {k \in Fd \X Filter : K.knote[k] # NoConn}
=============================================================================
