----------------------------- MODULE LogServer -----------------------------
(***************************************************************************)
(* The log server of Socket/Server.cpp and its clients (Socket/Client.cpp).*)
(*                                                                         *)
(* main() accepts connections into ONE heap cell, *new_socket, and hands   *)
(* every handler thread the address of that cell, so a handler reads       *)
(* whichever connection was accepted last.  Handlers run one at a time     *)
(* under a global mutex.  A handler peeks at the 4-byte header, computes   *)
(* the packet length and then receives header and body with MSG_WAITALL;   *)
(* each of the two calls loads *csock afresh.                              *)
(*                                                                         *)
(* A connection and its descriptor are the same value: the server never    *)
(* closes a descriptor, so numbers are never reused.  The handler created  *)
(* for connection c is called c too.  A stream is two counters: packets    *)
(* sent and bytes taken; a packet of c is ByteSize[c] + Hdr bytes, as      *)
(* Client.cpp builds it: a varint of HdrLen[c] bytes, the message, and     *)
(* bytes that fill it up.  TCP may hand the peek fewer than the four bytes *)
(* it asks for.  A header that is cut, or that is read anywhere but at the *)
(* start of a packet, is whatever bytes, zeros and what the buffer held    *)
(* before say: any member of Bogus.                                        *)
(*                                                                         *)
(* readBody prints a line however its receive went.  That is a packet if   *)
(* the bytes received begin with one; otherwise it is a slip: the bytes of *)
(* something else, or what the stack held before, an earlier packet maybe. *)
(***************************************************************************)
EXTENDS Integers, Sequences, FiniteSets

CONSTANTS
    Conns,       \* the connections clients may open
    NoConn,      \* content of *new_socket before the first accept
    ByteSize,    \* ByteSize[c]: payload.ByteSize() of the packets client c sends
    HdrLen,      \* HdrLen[c]: bytes of the varint of that size, 1 below 128
    Bogus,       \* sizes readHdr may return for bytes that are no header
    StackLimit,  \* the largest buffer[siz+4] that fits the thread's stack
    FdLimit,     \* descriptors accept() can hand out before it fails
    MaxPackets   \* bound: packets a client sends on one connection

Hdr == 4

ASSUME LogServerAssumption ==
    /\ NoConn \notin Conns
    /\ ByteSize \in [Conns -> Nat]
    /\ HdrLen \in [Conns -> 1..Hdr]
    /\ Bogus \subseteq Nat
    /\ StackLimit \in Nat
    /\ \A c \in Conns : ByteSize[c] + Hdr <= StackLimit
    /\ FdLimit \in Nat
    /\ MaxPackets \in Nat

VARIABLES
    sock,       \* sock[c]: the peer side of the connection
    backlog,    \* connections established and not accepted yet
    sent,       \* sent[c]: packets client c has sent
    taken,      \* taken[c]: bytes of c's stream the server has consumed
    newSocket,  \* *new_socket, the cell all handlers share
    lock,       \* holder of the mutex, NoConn when it is free
    pc,         \* pc[h]: where handler h is
    fd,         \* fd[h]: descriptor of the recv() call h is in
    buf,        \* buf[h]: readHdr(buffer), kept when a peek fails
    up,         \* FALSE once the process is gone
    printed,    \* printed[c]: packets of c decoded and written to the log
    slipped     \* slipped[c]: lines written after other receives from c

clientVars == <<sock, sent>>
handlerVars == <<lock, pc, fd, buf>>
log == <<printed, slipped>>
vars == <<sock, backlog, sent, taken, newSocket, lock, pc, fd, buf, up, log>>

PktLen(c) == ByteSize[c] + Hdr
MsgLen(c) == ByteSize[c] + HdrLen[c]
Unread(c) == sent[c] * PktLen(c) - taken[c]
AtPacket(c) == \E k \in 0..sent[c] : taken[c] = k * PktLen(c)
Accepted == {c \in Conns : pc[c] # "none"}
InLoop(h) == pc[h] \in {"loop", "peek", "hdr", "body"}

SockStates == {"new", "open", "fin", "reset", "reported"}
HandlerStates == {"none", "nothread", "lock", "loop", "peek", "hdr", "body", "done"}

Init ==
    /\ sock = [c \in Conns |-> "new"]
    /\ backlog = <<>>
    /\ sent = [c \in Conns |-> 0]
    /\ taken = [c \in Conns |-> 0]
    /\ newSocket = NoConn
    /\ lock = NoConn
    /\ pc = [c \in Conns |-> "none"]
    /\ fd = [c \in Conns |-> NoConn]
    /\ buf = [c \in Conns |-> 0]
    /\ up = TRUE
    /\ printed = [c \in Conns |-> 0]
    /\ slipped = [c \in Conns |-> 0]

-----------------------------------------------------------------------------
(* Clients: connect, one send() per packet, exit.                          *)

Connect(c) ==
    /\ sock[c] = "new"
    /\ sock' = [sock EXCEPT ![c] = "open"]
    /\ backlog' = Append(backlog, c)
    /\ UNCHANGED <<sent, taken, newSocket, handlerVars, up, log>>

Send(c) ==
    /\ sock[c] = "open"
    /\ sent[c] < MaxPackets
    /\ sent' = [sent EXCEPT ![c] = @ + 1]
    /\ UNCHANGED <<sock, backlog, taken, newSocket, handlerVars, up, log>>

\* The client's process ends: the kernel closes its socket in order.
Finish(c) ==
    /\ sock[c] = "open"
    /\ sock' = [sock EXCEPT ![c] = "fin"]
    /\ UNCHANGED <<backlog, sent, taken, newSocket, handlerVars, up, log>>

\* The connection breaks: once its data is drained one recv() fails.
Reset(c) ==
    /\ sock[c] = "open"
    /\ sock' = [sock EXCEPT ![c] = "reset"]
    /\ UNCHANGED <<backlog, sent, taken, newSocket, handlerVars, up, log>>

-----------------------------------------------------------------------------
(* main(): the accept loop.                                                *)

\* MUTANT of Accept: a cell that is in use is not overwritten.
AcceptOnce ==
    /\ up
    /\ backlog # <<>>
    /\ Cardinality(Accepted) < FdLimit
    /\ newSocket' = IF newSocket = NoConn THEN Head(backlog) ELSE newSocket
    /\ backlog' = Tail(backlog)
    /\ \E s \in {"lock", "nothread"} : pc' = [pc EXCEPT ![Head(backlog)] = s]
    /\ UNCHANGED <<clientVars, taken, lock, fd, buf, up, log>>

\* The cell is overwritten whether or not a thread is created, and the
\* result of pthread_create is not looked at.
Accept ==
    /\ up
    /\ backlog # <<>>
    /\ Cardinality(Accepted) < FdLimit
    /\ newSocket' = Head(backlog)
    /\ backlog' = Tail(backlog)
    /\ \E s \in {"lock", "nothread"} : pc' = [pc EXCEPT ![Head(backlog)] = s]
    /\ UNCHANGED <<clientVars, taken, lock, fd, buf, up, log>>

\* No descriptor is ever closed; when none is left accept() stores -1 in
\* the cell and main() exits the process.
AcceptFails ==
    /\ up
    /\ backlog # <<>>
    /\ Cardinality(Accepted) >= FdLimit
    /\ newSocket' = NoConn
    /\ up' = FALSE
    /\ UNCHANGED <<clientVars, backlog, taken, handlerVars, log>>

-----------------------------------------------------------------------------
(* SocketHandler(), readHdr() and readBody().                              *)


\* MUTANT of Lock: the mutex is not waited for.
LockWithoutWaiting(h) ==
    /\ up
    /\ pc[h] = "lock"
    /\ lock' = h
    /\ pc' = [pc EXCEPT ![h] = "loop"]
    /\ buf' = [buf EXCEPT ![h] = 0]
    /\ UNCHANGED <<clientVars, backlog, taken, newSocket, fd, up, log>>

Lock(h) ==
    /\ up
    /\ pc[h] = "lock"
    /\ lock = NoConn
    /\ lock' = h
    /\ pc' = [pc EXCEPT ![h] = "loop"]
    /\ buf' = [buf EXCEPT ![h] = 0]
    /\ UNCHANGED <<clientVars, backlog, taken, newSocket, fd, up, log>>

\* recv(*csock, buffer, 4, MSG_PEEK) is called: *csock is loaded now, the
\* call may block for long on the connection found there.
CallPeek(h) ==
    /\ up
    /\ pc[h] = "loop"
    /\ fd' = [fd EXCEPT ![h] = newSocket]
    /\ pc' = [pc EXCEPT ![h] = "peek"]
    /\ UNCHANGED <<clientVars, backlog, taken, newSocket, lock, buf, up, log>>

\* What readHdr may make of a peek at connection c that is not empty: one
\* byte is always there, and four are zeroed or left from the peek before.
OneByteHeader(c) == HdrLen[c] = 1
Decoded(c) ==
    (IF AtPacket(c) THEN {ByteSize[c]} ELSE Bogus)
    \cup (IF OneByteHeader(c) THEN {} ELSE Bogus)

\* Bytes are there: the header is decoded but nothing is consumed.
PeekHeader(h) ==
    /\ up
    /\ pc[h] = "peek"
    /\ Unread(fd[h]) > 0
    /\ \E size \in Decoded(fd[h]) : buf' = [buf EXCEPT ![h] = size]
    /\ pc' = [pc EXCEPT ![h] = "hdr"]
    /\ UNCHANGED <<clientVars, backlog, taken, newSocket, lock, fd, up, log>>


\* MUTANT of PeekError: the -1 that recv() returned is taken for a size.
PeekErrorAsSize(h) ==
    /\ up
    /\ pc[h] = "peek"
    /\ Unread(fd[h]) <= 0
    /\ sock[fd[h]] = "reset"
    /\ sock' = [sock EXCEPT ![fd[h]] = "reported"]
    /\ buf' = [buf EXCEPT ![h] = -1]
    /\ pc' = [pc EXCEPT ![h] = "hdr"]
    /\ UNCHANGED <<backlog, sent, taken, newSocket, lock, fd, up, log>>

\* recv() returns -1: a line on stderr, and on to readBody with the buffer
\* as the last peek left it.
PeekError(h) ==
    /\ up
    /\ pc[h] = "peek"
    /\ Unread(fd[h]) <= 0
    /\ sock[fd[h]] = "reset"
    /\ sock' = [sock EXCEPT ![fd[h]] = "reported"]
    /\ pc' = [pc EXCEPT ![h] = "hdr"]
    /\ UNCHANGED <<backlog, sent, taken, newSocket, lock, fd, buf, up, log>>


\* MUTANT of PeekEof: the thread returns from the loop without the unlock.
PeekEofKeepsLock(h) ==
    /\ up
    /\ pc[h] = "peek"
    /\ Unread(fd[h]) <= 0
    /\ sock[fd[h]] \in {"fin", "reported"}
    /\ pc' = [pc EXCEPT ![h] = "done"]
    /\ UNCHANGED <<clientVars, backlog, taken, newSocket, lock, fd, buf, up, log>>

\* MUTANT of PeekEof: the break is forgotten.
PeekEofGoesOn(h) ==
    /\ up
    /\ pc[h] = "peek"
    /\ Unread(fd[h]) <= 0
    /\ sock[fd[h]] \in {"fin", "reported"}
    /\ pc' = [pc EXCEPT ![h] = "hdr"]
    /\ UNCHANGED <<clientVars, backlog, taken, newSocket, lock, fd, buf, up, log>>

\* recv() returns 0: break, unlock, and the thread ends without close().
PeekEof(h) ==
    /\ up
    /\ pc[h] = "peek"
    /\ Unread(fd[h]) <= 0
    /\ sock[fd[h]] \in {"fin", "reported"}
    /\ pc' = [pc EXCEPT ![h] = "done"]
    /\ lock' = NoConn
    /\ UNCHANGED <<clientVars, backlog, taken, newSocket, fd, buf, up, log>>

\* readBody(*csock, size): *csock is loaded again.
CallBody(h) ==
    /\ up
    /\ pc[h] = "hdr"
    /\ buf[h] + Hdr <= StackLimit
    /\ fd' = [fd EXCEPT ![h] = newSocket]
    /\ pc' = [pc EXCEPT ![h] = "body"]
    /\ UNCHANGED <<clientVars, backlog, taken, newSocket, lock, buf, up, log>>

\* char buffer[siz+4] does not fit the stack: the process dies.
Overflow(h) ==
    /\ up
    /\ pc[h] = "hdr"
    /\ buf[h] + Hdr > StackLimit
    /\ up' = FALSE
    /\ UNCHANGED <<clientVars, backlog, taken, newSocket, handlerVars, log>>


\* readBody once n bytes of c were received, none if recv() failed: it never
\* looks at n.  It decodes the header again and prints a line, which is a packet
\* of c if the message is there from its first byte on.
Prints(c, n) ==
    IF AtPacket(c) /\ n >= MsgLen(c)
    THEN printed' = [printed EXCEPT ![c] = @ + 1] /\ UNCHANGED slipped
    ELSE slipped' = [slipped EXCEPT ![c] = @ + 1] /\ UNCHANGED printed

\* A receive of n bytes that are all there; consumed of them leave the stream.
BodyTakes(h, n, consumed) ==
    /\ up
    /\ pc[h] = "body"
    /\ Unread(fd[h]) >= n
    /\ taken' = [taken EXCEPT ![fd[h]] = @ + consumed]
    /\ Prints(fd[h], n)
    /\ pc' = [pc EXCEPT ![h] = "loop"]
    /\ UNCHANGED <<clientVars, backlog, newSocket, lock, fd, buf, up>>

\* MUTANTS of BodyWhole: the header is not counted; MSG_PEEK is passed here
\* too.
BodyWithoutHeader(h) == BodyTakes(h, buf[h], buf[h])
BodyPeeks(h) == BodyTakes(h, buf[h] + Hdr, 0)

\* recv(csock, buffer, 4 + siz, MSG_WAITALL) has everything it waits for.
BodyWhole(h) == BodyTakes(h, buf[h] + Hdr, buf[h] + Hdr)


\* MUTANT of BodyShort: MSG_WAITALL is believed to return all it was asked for.
BodyShortAsWhole(h) ==
    /\ up
    /\ pc[h] = "body"
    /\ Unread(fd[h]) < buf[h] + Hdr
    /\ sock[fd[h]] \in {"fin", "reset", "reported"}
    /\ taken' = [taken EXCEPT ![fd[h]] = @ + buf[h] + Hdr]
    /\ Prints(fd[h], buf[h] + Hdr)
    /\ pc' = [pc EXCEPT ![h] = "loop"]
    /\ UNCHANGED <<clientVars, backlog, newSocket, lock, fd, buf, up>>

\* The connection ended first: what is left is consumed (an error is reported
\* only if nothing is), a line is printed and the loop goes on either way.
BodyShort(h) ==
    /\ up
    /\ pc[h] = "body"
    /\ Unread(fd[h]) < buf[h] + Hdr
    /\ sock[fd[h]] \in {"fin", "reset", "reported"}
    /\ taken' = [taken EXCEPT ![fd[h]] = @ + Unread(fd[h])]
    /\ Prints(fd[h], Unread(fd[h]))
    /\ sock' = IF sock[fd[h]] = "reset" /\ Unread(fd[h]) <= 0
               THEN [sock EXCEPT ![fd[h]] = "reported"]
               ELSE sock
    /\ pc' = [pc EXCEPT ![h] = "loop"]
    /\ UNCHANGED <<backlog, sent, newSocket, lock, fd, buf, up>>

-----------------------------------------------------------------------------
Client(c) == Connect(c) \/ Send(c) \/ Finish(c) \/ Reset(c)
Peek(h) == PeekHeader(h) \/ PeekError(h) \/ PeekEof(h)
Body(h) == BodyWhole(h) \/ BodyShort(h)
Handler(h) == Lock(h) \/ CallPeek(h) \/ Peek(h) \/ CallBody(h) \/ Overflow(h) \/ Body(h)
Main == Accept \/ AcceptFails

Next == Main \/ \E c \in Conns : Client(c) \/ Handler(c)

Spec == Init /\ [][Next]_vars

\* The scheduler runs main() and every thread that can run; a client that
\* connected does not stay forever (Client.cpp returns after one packet).
Fairness ==
    /\ WF_vars(Main)
    /\ \A c \in Conns : WF_vars(Handler(c)) /\ WF_vars(Finish(c))

FairSpec == Spec /\ Fairness

-----------------------------------------------------------------------------
(* Properties.                                                             *)

TypeOK ==
    /\ sock \in [Conns -> SockStates]
    /\ backlog \in Seq(Conns)
    /\ sent \in [Conns -> Nat]
    /\ taken \in [Conns -> Nat]
    /\ newSocket \in Conns \cup {NoConn}
    /\ lock \in Conns \cup {NoConn}
    /\ pc \in [Conns -> HandlerStates]
    /\ fd \in [Conns -> Conns \cup {NoConn}]
    /\ buf \in [Conns -> Nat]
    /\ up \in BOOLEAN
    /\ printed \in [Conns -> Nat]
    /\ slipped \in [Conns -> Nat]

\* Two handlers are never in the receive loop together, although both read
\* through the same cell: the thread in SocketHandler's loop is the one that
\* holds the mutex, through every early exit of the loop.
OneReader ==
    /\ \A h \in Conns : InLoop(h) => lock = h
    /\ lock # NoConn => InLoop(lock)

\* However the cell moves between a peek and the receive that follows it, and
\* however short or failed that receive is, readBody never consumes bytes that
\* were not sent, and decodes no packet twice from the bytes of its connection:
\* the packet of c printed last begins within what was taken of c.
AccountedFor ==
    \A c \in Conns :
        /\ taken[c] <= sent[c] * PktLen(c)
        /\ printed[c] > 0 => (printed[c] - 1) * PktLen(c) < taken[c]

Uniform == \A c, d \in Conns : ByteSize[c] = ByteSize[d] /\ OneByteHeader(c)
NoResets == \A c \in Conns : sock[c] \notin {"reset", "reported"}
Calm == Uniform /\ NoResets

\* When all clients send packets of one length below 128, as the clients of
\* Client.cpp do, no packet is torn or lost: a handler that peeks at one
\* connection and receives from another still takes whole packets and prints
\* each of them, and a peek that TCP cuts short finds the length all the same.
\* A reset breaks this (a failed peek leaves the length of another packet, or
\* 0, in the buffer).
WholePackets ==
    Calm => \A c \in Conns : taken[c] = printed[c] * PktLen(c)

\* For such clients readBody prints what was on the stack in one case only: a
\* client that left without a packet was accepted while the handler peeked at
\* another one, and one line is all that comes of it.
SlipsOncePerSilence ==
    Calm =>
        \A c \in Conns : slipped[c] > 0 => slipped[c] = 1 /\ sent[c] = 0 /\ sock[c] = "fin"

\* Server.cpp:104 has readBody "Read the entire buffer including the hdr" of
\* the packet whose length was peeked: as long as no connection breaks, bytes
\* leave a stream in whole packets only, whatever lengths the clients use.
ReadsEntirePacket == NoResets => \A c \in Conns : AtPacket(c)

\* No handler waits for ever: a thread that waits for the mutex ends, or the
\* process is gone, as long as clients end.  The descriptors a handler reads
\* change under it, and every one of them must be seen to end.
HandlersFinish == \A c \in Conns : pc[c] = "lock" ~> (pc[c] = "done" \/ ~up)

\* The log is the one LogSink describes, and calm as long as no connection
\* breaks and all packets have one length.
Sink == INSTANCE LogSink WITH calm <- Calm
PrintsWhatWasSent == Sink!Spec
=============================================================================
