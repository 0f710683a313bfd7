-------------------------- MODULE LogServerProofs --------------------------
(***************************************************************************)
(* Theorems about LogServer, for any number of connections, any packet     *)
(* lengths and any number of packets.                                      *)
(***************************************************************************)
EXTENDS LogServer, TLAPS

\* What the steps keep beside the properties: while main() runs the cell
\* holds a descriptor as soon as there is a thread to read it, and so does
\* every descriptor loaded from it.
CellFilled ==
    /\ (up /\ \E h \in Conns : pc[h] # "none") => newSocket \in Conns
    /\ \A h \in Conns : pc[h] \in {"peek", "hdr", "body"} => fd[h] \in Conns

\* With packets of one length and no resets, the length a handler holds
\* between its two receives is right for every connection.
LengthHeld ==
    Calm =>
        \A h, c \in Conns : pc[h] \in {"hdr", "body"} => buf[h] = ByteSize[c]

\* Every queued connection is there once and has no handler yet; a handler
\* exists only for a connection that was made.
BacklogFresh ==
    /\ \A i \in DOMAIN backlog : pc[backlog[i]] = "none" /\ sock[backlog[i]] # "new"
    /\ \A i, j \in DOMAIN backlog : i # j => backlog[i] # backlog[j]
    /\ \A c \in Conns : pc[c] # "none" => sock[c] # "new"

\* Nothing was received from a connection before it was accepted.
Untouched ==
    /\ \A c \in Conns : pc[c] = "none" => taken[c] = 0 /\ slipped[c] = 0
    /\ newSocket \in Conns => pc[newSocket] # "none"
    /\ \A h \in Conns : pc[h] \in {"peek", "hdr", "body"} => pc[fd[h]] # "none"

\* If the cell moved since the peek, nothing was received yet from the
\* connection in it; if it did not, the bytes seen by the peek are still there.
Ahead ==
    up => \A h \in Conns :
        /\ pc[h] \in {"peek", "hdr"} /\ fd[h] # newSocket =>
              taken[newSocket] = 0 /\ slipped[newSocket] = 0
        /\ NoResets /\ pc[h] = "hdr" /\ fd[h] = newSocket => Unread(newSocket) > 0
        /\ NoResets /\ pc[h] = "body" =>
              Unread(fd[h]) > 0 \/ (taken[fd[h]] = 0 /\ slipped[fd[h]] = 0)

IInv ==
    /\ TypeOK /\ BacklogFresh /\ CellFilled /\ OneReader /\ AccountedFor
    /\ LengthHeld /\ WholePackets /\ Untouched /\ Ahead /\ SlipsOncePerSilence

-----------------------------------------------------------------------------
(* Multiplication by a packet length.                                      *)

LEMMA MultiplesOrdered ==
    ASSUME NEW a \in Int, NEW b \in Int, NEW p \in Nat, p > 0, a * p <= b * p
    PROVE  a <= b
BY SMT

LEMMA StrictlyOrdered ==
    ASSUME NEW a \in Int, NEW b \in Int, NEW p \in Nat, p > 0, a * p < b * p
    PROVE  a < b
BY SMT

LEMMA NextMultiple ==
    ASSUME NEW a \in Int, NEW p \in Int
    PROVE  (a + 1) * p = a * p + p
BY SMT

LEMMA ProductNat ==
    ASSUME NEW a \in Nat, NEW p \in Nat
    PROVE  a * p \in Nat
BY SMT

LEMMA PktLenType ==
    ASSUME NEW c \in Conns
    PROVE  /\ PktLen(c) \in Nat /\ PktLen(c) > 0
           /\ MsgLen(c) \in Nat /\ MsgLen(c) > 0 /\ MsgLen(c) <= PktLen(c)
BY LogServerAssumption DEF PktLen, MsgLen, Hdr

\* Adding a number to one entry of a function keeps its type.
LEMMA BumpType ==
    ASSUME NEW S, NEW f \in [S -> Nat], NEW x \in S, NEW n \in Nat
    PROVE  [f EXCEPT ![x] = @ + n] \in [S -> Nat]
OBVIOUS

-----------------------------------------------------------------------------
LEMMA TypeInit == Init => TypeOK
BY LogServerAssumption DEF Init, TypeOK, SockStates, HandlerStates

\* A line in the log is one more of one of the two counts of its connection.
LEMMA LogType ==
    ASSUME TypeOK, NEW c \in Conns, NEW n, Prints(c, n)
    PROVE  printed' \in [Conns -> Nat] /\ slipped' \in [Conns -> Nat]
<1>1. printed \in [Conns -> Nat] /\ slipped \in [Conns -> Nat]
  BY DEF TypeOK
<1>2. /\ printed' = [printed EXCEPT ![c] = @ + 1] \/ printed' = printed
      /\ slipped' = [slipped EXCEPT ![c] = @ + 1] \/ slipped' = slipped
  BY DEF Prints
<1>3. printed' \in [Conns -> Nat]
  BY ONLY <1>1, <1>2, c \in Conns, BumpType
<1>4. slipped' \in [Conns -> Nat]
  BY ONLY <1>1, <1>2, c \in Conns, BumpType
<1> QED BY <1>3, <1>4

LEMMA TypeStep == TypeOK /\ CellFilled /\ [Next]_vars => TypeOK'
<1> SUFFICES ASSUME TypeOK, CellFilled, [Next]_vars PROVE TypeOK'
  OBVIOUS
<1> USE LogServerAssumption DEF TypeOK, SockStates, HandlerStates, log
<1>1. CASE Accept
  <2>1. Head(backlog) \in Conns /\ Tail(backlog) \in Seq(Conns)
    BY <1>1 DEF Accept
  <2>2. pc' \in [Conns -> HandlerStates]
    BY <1>1, <2>1 DEF Accept
  <2> QED BY <1>1, <2>1, <2>2 DEF Accept, clientVars
<1>2. CASE AcceptFails
  BY <1>2 DEF AcceptFails, clientVars, handlerVars
<1>3. ASSUME NEW c \in Conns, Client(c) PROVE TypeOK'
  <2>1. CASE Connect(c)
    <3>1. backlog' \in Seq(Conns)
      BY <2>1 DEF Connect
    <3>2. sock' \in [Conns -> SockStates]
      BY <2>1 DEF Connect
    <3> QED BY <2>1, <3>1, <3>2 DEF Connect, handlerVars
  <2>2. CASE Send(c)
    <3>1. sent' \in [Conns -> Nat]
      <4>1. sent' = [sent EXCEPT ![c] = @ + 1]
        BY ONLY <2>2 DEF Send
      <4>2. sent \in [Conns -> Nat]
        OBVIOUS
      <4> QED BY ONLY <4>1, <4>2, c \in Conns, BumpType
    <3>2. UNCHANGED <<sock, backlog, taken, newSocket, lock, pc, fd, buf, up, printed, slipped>>
      BY ONLY <2>2 DEF Send, handlerVars, log
    <3> QED BY <3>1, <3>2
  <2>3. CASE Finish(c)
    BY <2>3 DEF Finish, handlerVars
  <2>4. CASE Reset(c)
    BY <2>4 DEF Reset, handlerVars
  <2> QED BY <1>3, <2>1, <2>2, <2>3, <2>4 DEF Client
<1>4. ASSUME NEW h \in Conns, Handler(h) PROVE TypeOK'
  <2>1. CASE Lock(h)
    BY <2>1 DEF Lock, clientVars
  <2>2. CASE CallPeek(h)
    BY <2>2 DEF CallPeek, clientVars
  <2>3. CASE PeekHeader(h)
    <3>1. PICK size \in Decoded(fd[h]) :
             buf' = [buf EXCEPT ![h] = size]
      BY <2>3 DEF PeekHeader
    <3>2. size \in Nat
      BY <2>3, <3>1 DEF PeekHeader, Decoded, CellFilled
    <3> QED BY <2>3, <3>1, <3>2 DEF PeekHeader, clientVars
  <2>4. CASE PeekError(h)
    BY <2>4 DEF PeekError
  <2>5. CASE PeekEof(h)
    BY <2>5 DEF PeekEof, clientVars
  <2>6. CASE CallBody(h)
    BY <2>6 DEF CallBody, clientVars
  <2>7. CASE Overflow(h)
    BY <2>7 DEF Overflow, clientVars, handlerVars
  <2>8. CASE BodyWhole(h)
    <3>0. fd[h] \in Conns
      BY <2>8 DEF BodyWhole, BodyTakes, CellFilled
    <3>1. taken' \in [Conns -> Nat]
      <4>1. buf[h] \in Nat /\ taken \in [Conns -> Nat]
        OBVIOUS
      <4>2. buf[h] + Hdr \in Nat
        BY ONLY <4>1 DEF Hdr
      <4>3. taken' = [taken EXCEPT ![fd[h]] = @ + (buf[h] + Hdr)]
        BY <2>8, <4>1 DEF BodyWhole, BodyTakes, Hdr
      <4> QED BY ONLY <3>0, <4>1, <4>2, <4>3, BumpType
    <3>2. Prints(fd[h], buf[h] + Hdr)
      BY <2>8 DEF BodyWhole, BodyTakes
    <3>3. printed' \in [Conns -> Nat] /\ slipped' \in [Conns -> Nat]
      BY <3>0, <3>2, LogType
    <3>4. /\ UNCHANGED <<sock, sent, backlog, newSocket, lock, fd, buf, up>>
          /\ pc' = [pc EXCEPT ![h] = "loop"]
      BY ONLY <2>8 DEF BodyWhole, BodyTakes, clientVars
    <3>5. pc' \in [Conns -> HandlerStates]
      BY <3>4
    <3>6. /\ sock' \in [Conns -> SockStates] /\ sent' \in [Conns -> Nat]
          /\ backlog' \in Seq(Conns) /\ newSocket' \in Conns \cup {NoConn}
          /\ lock' \in Conns \cup {NoConn} /\ fd' \in [Conns -> Conns \cup {NoConn}]
          /\ buf' \in [Conns -> Nat] /\ up' \in BOOLEAN
      BY <3>4
    <3> QED BY <3>1, <3>3, <3>5, <3>6
  <2>9. CASE BodyShort(h)
    <3>0. fd[h] \in Conns
      BY <2>9 DEF BodyShort, CellFilled
    <3>1. fd[h] \in Conns /\ taken[fd[h]] + Unread(fd[h]) = sent[fd[h]] * PktLen(fd[h])
      <4>1. taken[fd[h]] \in Nat /\ sent[fd[h]] \in Nat /\ PktLen(fd[h]) \in Nat
        BY <3>0, PktLenType
      <4>2. sent[fd[h]] * PktLen(fd[h]) \in Nat
        BY ONLY <4>1, ProductNat
      <4> QED BY ONLY <3>0, <4>1, <4>2 DEF Unread
    <3>2. taken[fd[h]] + Unread(fd[h]) \in Nat
      <4>1. sent[fd[h]] \in Nat /\ PktLen(fd[h]) \in Nat
        BY <3>1, PktLenType
      <4>2. sent[fd[h]] * PktLen(fd[h]) \in Nat
        BY <4>1, ProductNat
      <4> QED BY <3>1, <4>2
    <3>3. Prints(fd[h], Unread(fd[h]))
      BY <2>9 DEF BodyShort
    <3>4. printed' \in [Conns -> Nat] /\ slipped' \in [Conns -> Nat]
      BY <3>1, <3>3, LogType
    <3> QED BY <2>9, <3>2, <3>4 DEF BodyShort
  <2> QED BY <1>4, <2>1, <2>2, <2>3, <2>4, <2>5, <2>6, <2>7, <2>8, <2>9 DEF Handler, Peek, Body
<1>5. CASE UNCHANGED vars
  BY <1>5 DEF vars
<1> QED BY <1>1, <1>2, <1>3, <1>4, <1>5 DEF Next, Main

-----------------------------------------------------------------------------
(* The queue of connections and the cell.                                  *)

LEMMA FreshStep == TypeOK /\ BacklogFresh /\ [Next]_vars => BacklogFresh'
<1> SUFFICES ASSUME TypeOK, BacklogFresh, [Next]_vars PROVE BacklogFresh'
  OBVIOUS
<1>t. pc \in [Conns -> HandlerStates] /\ sock \in [Conns -> SockStates]
      /\ backlog \in Seq(Conns)
  BY DEF TypeOK
<1>1. CASE Accept
  <2>0. Head(backlog) = backlog[1]
    BY <1>1, <1>t DEF Accept
  <2>1. /\ backlog # <<>>
        /\ backlog' = Tail(backlog)
        /\ sock' = sock
        /\ \E s \in {"lock", "nothread"} : pc' = [pc EXCEPT ![backlog[1]] = s]
    BY <1>1, <2>0 DEF Accept, clientVars
  <2>2. /\ backlog[1] \in Conns
        /\ DOMAIN backlog' = 1..(Len(backlog) - 1)
        /\ \A i \in DOMAIN backlog' : i + 1 \in DOMAIN backlog /\ backlog'[i] = backlog[i + 1]
    BY <2>1, <1>t
  <2>3. \A i \in DOMAIN backlog' : backlog'[i] # backlog[1]
    BY <2>1, <2>2, <1>t DEF BacklogFresh
  <2>4. \A i, j \in DOMAIN backlog' : i # j => backlog'[i] # backlog'[j]
    BY <2>2 DEF BacklogFresh
  <2> QED BY <2>1, <2>2, <2>3, <2>4, <1>t DEF BacklogFresh
<1>2. ASSUME NEW c \in Conns, Connect(c) PROVE BacklogFresh'
  <2>1. sock[c] = "new" /\ pc' = pc /\ sock' = [sock EXCEPT ![c] = "open"]
        /\ backlog' = Append(backlog, c)
    BY <1>2 DEF Connect, handlerVars
  <2>2. \A i \in DOMAIN backlog : backlog[i] \in Conns /\ backlog[i] # c
    BY <2>1, <1>t DEF BacklogFresh
  <2>3. /\ DOMAIN backlog' = 1..(Len(backlog) + 1)
        /\ \A i \in DOMAIN backlog' :
              IF i \in DOMAIN backlog THEN backlog'[i] = backlog[i]
                                      ELSE i = Len(backlog) + 1 /\ backlog'[i] = c
    BY <2>1, <1>t
  <2>4. pc[c] = "none"
    BY <2>1 DEF BacklogFresh
  <2> QED BY <2>1, <2>2, <2>3, <2>4, <1>t DEF BacklogFresh
<1>3. CASE UNCHANGED <<backlog, pc>> /\ \A c \in Conns : sock'[c] = "new" <=> sock[c] = "new"
  BY <1>3, <1>t DEF BacklogFresh
<1>4. ASSUME NEW h \in Conns, pc[h] # "none", NEW s \in HandlerStates \ {"none"},
             pc' = [pc EXCEPT ![h] = s], backlog' = backlog,
             \A c \in Conns : sock'[c] = "new" <=> sock[c] = "new"
      PROVE  BacklogFresh'
  <2>1. \A i \in DOMAIN backlog : backlog[i] # h /\ backlog[i] \in Conns
    BY <1>4, <1>t DEF BacklogFresh
  <2>2. \A c \in Conns : pc'[c] = "none" <=> pc[c] = "none"
    BY <1>4, <1>t
  <2> QED BY <1>4, <2>1, <2>2 DEF BacklogFresh
<1>5. ASSUME NEW c \in Conns, Send(c) \/ Finish(c) \/ Reset(c) PROVE BacklogFresh'
  <2>1. UNCHANGED <<backlog, pc>> /\ \A d \in Conns : sock'[d] = "new" <=> sock[d] = "new"
    BY <1>5, <1>t DEF Send, Finish, Reset, handlerVars
  <2> QED BY <2>1, <1>3
<1>6. ASSUME NEW h \in Conns, Handler(h) PROVE BacklogFresh'
  <2>1. backlog' = backlog
    BY <1>6 DEF Handler, Lock, CallPeek, Peek, PeekHeader, PeekError, PeekEof,
                CallBody, Overflow, Body, BodyWhole, BodyTakes, BodyShort
  <2>2. \A c \in Conns : sock'[c] = "new" <=> sock[c] = "new"
    BY <1>6, <1>t DEF Handler, Lock, CallPeek, Peek, PeekHeader, PeekError, PeekEof,
                CallBody, Overflow, Body, BodyWhole, BodyTakes, BodyShort, clientVars
  <2>3. \/ pc' = pc
        \/ pc[h] # "none" /\ \E s \in HandlerStates \ {"none"} : pc' = [pc EXCEPT ![h] = s]
    BY <1>6 DEF Handler, Lock, CallPeek, Peek, PeekHeader, PeekError, PeekEof,
                CallBody, Overflow, Body, BodyWhole, BodyTakes, BodyShort,
                handlerVars, HandlerStates
  <2> QED BY <2>1, <2>2, <2>3, <1>3, <1>4
<1>7. CASE AcceptFails \/ UNCHANGED vars
  BY <1>7, <1>3 DEF AcceptFails, clientVars, handlerVars, vars
<1> QED BY <1>1, <1>2, <1>5, <1>6, <1>7 DEF Next, Main, Client

LEMMA CellStep == TypeOK /\ CellFilled /\ [Next]_vars => CellFilled'
<1> SUFFICES ASSUME TypeOK, CellFilled, [Next]_vars PROVE CellFilled'
  OBVIOUS
<1>t. pc \in [Conns -> HandlerStates] /\ fd \in [Conns -> Conns \cup {NoConn}]
  BY DEF TypeOK
<1>1. CASE Accept
  <2>1. Head(backlog) \in Conns
    BY <1>1 DEF Accept, TypeOK
  <2> QED BY <1>1, <1>t, <2>1 DEF Accept, CellFilled
<1>2. CASE AcceptFails
  BY <1>2 DEF AcceptFails, CellFilled, handlerVars
<1>3. ASSUME NEW c \in Conns, Client(c) PROVE CellFilled'
  BY <1>3 DEF Client, Connect, Send, Finish, Reset, CellFilled, handlerVars
<1>4. ASSUME NEW h \in Conns, Handler(h) PROVE CellFilled'
  <2>1. CASE CallPeek(h)
    BY <2>1, <1>t DEF CallPeek, CellFilled
  <2>2. CASE CallBody(h)
    BY <2>2, <1>t DEF CallBody, CellFilled
  <2>3. CASE Lock(h) \/ Overflow(h)
    BY <2>3, <1>t DEF Lock, Overflow, CellFilled, handlerVars
  <2>4. CASE Peek(h) \/ Body(h)
    BY <2>4, <1>t DEF Peek, PeekHeader, PeekError, PeekEof, Body, BodyWhole,
                      BodyTakes, BodyShort, CellFilled
  <2> QED BY <1>4, <2>1, <2>2, <2>3, <2>4 DEF Handler
<1>5. CASE UNCHANGED vars
  BY <1>5 DEF vars, CellFilled
<1> QED BY <1>1, <1>2, <1>3, <1>4, <1>5 DEF Next, Main

-----------------------------------------------------------------------------
(* The mutex: the handler in the receive loop is the one that holds it.    *)

LEMMA OneReaderStep == TypeOK /\ BacklogFresh /\ OneReader /\ [Next]_vars => OneReader'
<1> SUFFICES ASSUME TypeOK, BacklogFresh, OneReader, [Next]_vars PROVE OneReader'
  OBVIOUS
<1>t. /\ pc \in [Conns -> HandlerStates]
      /\ lock \in Conns \cup {NoConn}
      /\ NoConn \notin Conns
  BY LogServerAssumption DEF TypeOK
<1>1. CASE Accept
  <2>1. Head(backlog) \in Conns /\ pc[Head(backlog)] = "none"
    BY <1>1 DEF Accept, TypeOK, BacklogFresh
  <2>2. \A h \in Conns : InLoop(h)' <=> InLoop(h)
    BY <1>1, <1>t, <2>1 DEF Accept, InLoop
  <2> QED BY <1>1, <1>t, <2>2 DEF Accept, OneReader
<1>2. CASE AcceptFails \/ UNCHANGED vars \/ \E c \in Conns : Client(c)
  <2>1. UNCHANGED <<pc, lock>>
    BY <1>2 DEF AcceptFails, vars, Client, Connect, Send, Finish, Reset, handlerVars
  <2> QED BY <2>1 DEF OneReader, InLoop
<1>3. ASSUME NEW h \in Conns, Handler(h) PROVE OneReader'
  <2>1. CASE Lock(h)
    BY <2>1, <1>t DEF Lock, OneReader, InLoop
  <2>2. CASE PeekEof(h)
    BY <2>2, <1>t DEF PeekEof, OneReader, InLoop
  <2>3. CASE Overflow(h)
    BY <2>3 DEF Overflow, OneReader, InLoop, handlerVars
  <2>4. ASSUME InLoop(h), lock' = lock,
               NEW s \in {"loop", "peek", "hdr", "body"}, pc' = [pc EXCEPT ![h] = s]
        PROVE  OneReader'
    BY <2>4, <1>t DEF OneReader, InLoop
  <2>5. CASE CallPeek(h) \/ PeekHeader(h) \/ PeekError(h) \/ CallBody(h) \/ Body(h)
    <3>1. InLoop(h) /\ lock' = lock
          /\ \E s \in {"loop", "peek", "hdr", "body"} : pc' = [pc EXCEPT ![h] = s]
      BY <2>5 DEF CallPeek, PeekHeader, PeekError, CallBody, Body, BodyWhole,
                  BodyTakes, BodyShort, InLoop
    <3> QED BY <3>1, <2>4
  <2> QED BY <1>3, <2>1, <2>2, <2>3, <2>5 DEF Handler, Peek
<1> QED BY <1>1, <1>2, <1>3 DEF Next, Main

-----------------------------------------------------------------------------
(* Bytes: taken from a stream in step with what is printed of it.          *)

\* The three ways a step can touch the counters of a stream.
LEMMA CountersStep ==
    ASSUME TypeOK, CellFilled, [Next]_vars
    PROVE  \/ UNCHANGED <<sent, taken, printed, slipped>>
           \/ \E c \in Conns : Send(c)
           \/ \E h \in Conns : fd[h] \in Conns /\ Body(h)
<1>t. pc \in [Conns -> HandlerStates]
  BY DEF TypeOK
<1>1. CASE Main \/ UNCHANGED vars
  BY <1>1 DEF Main, Accept, AcceptFails, clientVars, vars, log
<1>2. ASSUME NEW c \in Conns, Client(c)
      PROVE  UNCHANGED <<sent, taken, printed, slipped>> \/ Send(c)
  BY <1>2 DEF Client, Connect, Finish, Reset, log
<1>3. ASSUME NEW h \in Conns, Handler(h)
      PROVE  UNCHANGED <<sent, taken, printed, slipped>> \/ (fd[h] \in Conns /\ Body(h))
  <2>1. CASE Body(h)
    BY <2>1 DEF Body, BodyWhole, BodyTakes, BodyShort, CellFilled
  <2>2. CASE ~Body(h)
    BY <1>3, <2>2 DEF Handler, Lock, CallPeek, Peek, PeekHeader, PeekError,
                      PeekEof, CallBody, Overflow, clientVars, log
  <2> QED BY <2>1, <2>2
<1> QED BY <1>1, <1>2, <1>3 DEF Next

\* What a line does to the counts of all connections.
LEMMA PrintsEffect ==
    ASSUME TypeOK, NEW f \in Conns, NEW n \in Int, Prints(f, n)
    PROVE  /\ \A c \in Conns : c # f => printed'[c] = printed[c] /\ slipped'[c] = slipped[c]
           /\ IF AtPacket(f) /\ n >= MsgLen(f)
              THEN printed'[f] = printed[f] + 1 /\ slipped'[f] = slipped[f]
              ELSE printed'[f] = printed[f] /\ slipped'[f] = slipped[f] + 1
<1>1. printed \in [Conns -> Nat] /\ slipped \in [Conns -> Nat]
  BY DEF TypeOK
<1> QED BY <1>1 DEF Prints

\* What the two outcomes of the receive in readBody do to the counters.
LEMMA BodyEffect ==
    ASSUME TypeOK, NEW h \in Conns, fd[h] \in Conns, Body(h)
    PROVE  /\ sent' = sent
           /\ \A c \in Conns : c # fd[h] => taken'[c] = taken[c]
           /\ \E n \in Int :
                 /\ n <= buf[h] + Hdr
                 /\ n <= Unread(fd[h])
                 /\ \/ n = buf[h] + Hdr
                    \/ n = Unread(fd[h]) /\ sock[fd[h]] \in {"fin", "reset", "reported"}
                 /\ taken'[fd[h]] = taken[fd[h]] + n
                 /\ Prints(fd[h], n)
<1>t. /\ taken \in [Conns -> Nat]
      /\ sent \in [Conns -> Nat]
      /\ buf \in [Conns -> Nat]
      /\ PktLen(fd[h]) \in Nat
  BY PktLenType DEF TypeOK
<1>0. buf[h] + Hdr \in Int /\ Unread(fd[h]) \in Int
  BY <1>t, ProductNat DEF Unread, Hdr
<1>1. CASE BodyWhole(h)
  <2>1. taken' = [taken EXCEPT ![fd[h]] = taken[fd[h]] + (buf[h] + Hdr)]
    BY <1>1, <1>t DEF BodyWhole, BodyTakes, Hdr
  <2>2. Unread(fd[h]) >= buf[h] + Hdr /\ sent' = sent /\ Prints(fd[h], buf[h] + Hdr)
    BY <1>1 DEF BodyWhole, BodyTakes, clientVars
  <2>3. /\ \A c \in Conns : c # fd[h] => taken'[c] = taken[c]
        /\ taken'[fd[h]] = taken[fd[h]] + (buf[h] + Hdr)
    BY ONLY <1>t, <2>1, fd[h] \in Conns
  <2> DEFINE n == buf[h] + Hdr
  <2>4. n \in Int /\ n <= n /\ n <= Unread(fd[h])
    BY <1>0, <2>2
  <2> QED BY <2>2, <2>3, <2>4
<1>2. CASE BodyShort(h)
  <2>1. /\ taken' = [taken EXCEPT ![fd[h]] = taken[fd[h]] + Unread(fd[h])]
        /\ Unread(fd[h]) < buf[h] + Hdr /\ sent' = sent
        /\ sock[fd[h]] \in {"fin", "reset", "reported"}
        /\ Prints(fd[h], Unread(fd[h]))
    BY <1>2 DEF BodyShort
  <2>2. /\ \A c \in Conns : c # fd[h] => taken'[c] = taken[c]
        /\ taken'[fd[h]] = taken[fd[h]] + Unread(fd[h])
    BY ONLY <1>t, <2>1, fd[h] \in Conns
  <2> DEFINE n == Unread(fd[h])
  <2>3. n \in Int /\ n <= n /\ n <= buf[h] + Hdr
    BY <1>0, <2>1
  <2> QED BY <2>1, <2>2, <2>3
<1> QED BY <1>1, <1>2 DEF Body

\* At a packet's start no more was printed than came before, and if bytes of it
\* are there, than was sent before it.
LEMMA PrintedBehind ==
    ASSUME TypeOK, AccountedFor, NEW c \in Conns, AtPacket(c)
    PROVE  /\ printed[c] * PktLen(c) <= taken[c]
           /\ Unread(c) > 0 => printed[c] < sent[c]
<1>t. /\ sent[c] \in Nat /\ printed[c] \in Nat /\ taken[c] \in Nat
      /\ PktLen(c) \in Nat /\ PktLen(c) > 0
  BY PktLenType DEF TypeOK
<1>1. PICK k \in 0..sent[c] : taken[c] = k * PktLen(c)
  BY DEF AtPacket
<1>2. k \in Nat /\ k <= sent[c]
  BY <1>1, <1>t
<1>3. printed[c] <= k
  <2>1. CASE printed[c] = 0
    BY <1>2, <2>1
  <2>2. CASE printed[c] > 0
    <3>1. (printed[c] - 1) * PktLen(c) < k * PktLen(c)
      BY <1>1, <2>2 DEF AccountedFor
    <3>2. printed[c] - 1 < k
      BY <1>t, <1>2, <3>1, StrictlyOrdered
    <3> QED BY <1>t, <1>2, <3>2
  <2> QED BY <1>t, <2>1, <2>2
<1>4. printed[c] * PktLen(c) <= k * PktLen(c)
  BY ONLY <1>t, <1>2, <1>3, SMT
<1>5. ASSUME Unread(c) > 0 PROVE k < sent[c]
  <2>1. sent[c] * PktLen(c) \in Nat /\ k * PktLen(c) \in Nat
    BY <1>t, <1>2, ProductNat
  <2>2. k * PktLen(c) < sent[c] * PktLen(c)
    BY <1>1, <1>5, <2>1 DEF Unread
  <2> QED BY <1>t, <1>2, <2>2, StrictlyOrdered
<1> QED BY <1>t, <1>1, <1>2, <1>3, <1>4, <1>5

LEMMA AccountedForStep == TypeOK /\ CellFilled /\ AccountedFor /\ [Next]_vars => AccountedFor'
<1> SUFFICES ASSUME TypeOK, CellFilled, AccountedFor, [Next]_vars, NEW c \in Conns
             PROVE  /\ taken'[c] <= sent'[c] * PktLen(c)
                    /\ printed'[c] > 0 => (printed'[c] - 1) * PktLen(c) < taken'[c]
  BY DEF AccountedFor, PktLen
<1>t. /\ sent \in [Conns -> Nat]
      /\ sent[c] \in Nat /\ taken[c] \in Nat /\ printed[c] \in Nat /\ PktLen(c) \in Nat
      /\ sent[c] * PktLen(c) \in Nat
  BY PktLenType, ProductNat DEF TypeOK
<1>i. /\ taken[c] <= sent[c] * PktLen(c)
      /\ printed[c] > 0 => (printed[c] - 1) * PktLen(c) < taken[c]
  BY DEF AccountedFor
<1>1. CASE UNCHANGED <<sent, taken, printed, slipped>>
  BY <1>1, <1>i
<1>2. ASSUME NEW d \in Conns, Send(d)
      PROVE  /\ taken'[c] <= sent'[c] * PktLen(c)
             /\ printed'[c] > 0 => (printed'[c] - 1) * PktLen(c) < taken'[c]
  <2>1. sent' = [sent EXCEPT ![d] = @ + 1] /\ taken' = taken /\ printed' = printed
    BY <1>2 DEF Send, log
  <2>2. (sent[c] + 1) * PktLen(c) = sent[c] * PktLen(c) + PktLen(c)
    BY <1>t, NextMultiple
  <2>3. sent'[c] = sent[c] \/ sent'[c] = sent[c] + 1
    BY <2>1, <1>t
  <2> QED BY ONLY <1>t, <1>i, <2>1, <2>2, <2>3
<1>3. ASSUME NEW h \in Conns, fd[h] \in Conns, Body(h)
      PROVE  /\ taken'[c] <= sent'[c] * PktLen(c)
             /\ printed'[c] > 0 => (printed'[c] - 1) * PktLen(c) < taken'[c]
  <2>1. PICK n \in Int :
          /\ n <= Unread(fd[h])
          /\ n = buf[h] + Hdr \/ n = Unread(fd[h])
          /\ taken'[fd[h]] = taken[fd[h]] + n
          /\ Prints(fd[h], n)
    BY <1>3, BodyEffect
  <2>2. sent' = sent /\ (c # fd[h] => taken'[c] = taken[c] /\ printed'[c] = printed[c])
    BY <1>3, <2>1, BodyEffect, PrintsEffect
  <2>3. CASE c = fd[h]
    <3>1. n \in Nat
      <4>1. buf[h] \in Nat
        BY DEF TypeOK
      <4> QED BY ONLY <2>1, <2>3, <1>t, <1>i, <4>1 DEF Unread, Hdr
    <3>2. taken'[c] = taken[c] + n /\ taken[c] + n <= sent[c] * PktLen(c)
      BY ONLY <2>1, <2>3, <3>1, <1>t DEF Unread
    <3>3. CASE AtPacket(c) /\ n >= MsgLen(c)
      <4>1. printed'[c] = printed[c] + 1
        BY <1>3, <2>1, <2>3, <3>3, PrintsEffect
      <4>2. printed[c] * PktLen(c) <= taken[c] /\ n > 0
        BY <3>1, <3>3, PrintedBehind, PktLenType
      <4>3. printed'[c] - 1 = printed[c] /\ printed[c] * PktLen(c) \in Nat
        BY <1>t, <4>1, ProductNat
      <4> QED BY ONLY <1>t, <2>2, <3>1, <3>2, <4>2, <4>3
    <3>4. CASE ~(AtPacket(c) /\ n >= MsgLen(c))
      <4>1. printed'[c] = printed[c]
        BY <1>3, <2>1, <2>3, <3>4, PrintsEffect
      <4>2. printed[c] > 0 => (printed[c] - 1) * PktLen(c) \in Nat
        BY <1>t, ProductNat
      <4> QED BY ONLY <1>t, <1>i, <2>2, <3>1, <3>2, <4>1, <4>2
    <3> QED BY <3>3, <3>4
  <2> QED BY <1>i, <2>2, <2>3
<1> QED BY <1>1, <1>2, <1>3, CountersStep

-----------------------------------------------------------------------------
(* Packets of one length and no resets: nothing is torn.                   *)

\* A reset is never undone.
LEMMA ResetsStay == TypeOK /\ [Next]_vars /\ NoResets' => NoResets
<1> SUFFICES ASSUME TypeOK, [Next]_vars, NEW c \in Conns, sock[c] \in {"reset", "reported"}
             PROVE  sock'[c] \in {"reset", "reported"}
  BY DEF NoResets
<1>t. sock \in [Conns -> SockStates]
  BY DEF TypeOK
<1>1. CASE Main \/ UNCHANGED vars
  BY <1>1 DEF Main, Accept, AcceptFails, clientVars, vars
<1>2. ASSUME NEW d \in Conns, Client(d) PROVE sock'[c] \in {"reset", "reported"}
  BY <1>2, <1>t DEF Client, Connect, Send, Finish, Reset
<1>3. ASSUME NEW h \in Conns, Handler(h) PROVE sock'[c] \in {"reset", "reported"}
  <2>1. sock' = sock \/ sock' = [sock EXCEPT ![fd[h]] = "reported"]
    BY <1>3 DEF Handler, Lock, CallPeek, Peek, PeekHeader, PeekError, PeekEof, CallBody,
                Overflow, Body, BodyWhole, BodyTakes, BodyShort, clientVars
  <2> QED BY <2>1, <1>t
<1> QED BY <1>1, <1>2, <1>3 DEF Next

\* Whole packets were taken from a connection that holds more bytes: it is at
\* the start of a packet, and all of that packet is there.
LEMMA AtWholePacket ==
    ASSUME TypeOK, AccountedFor, NEW c \in Conns, taken[c] = printed[c] * PktLen(c)
    PROVE  /\ AtPacket(c)
           /\ printed[c] <= sent[c]
           /\ Unread(c) < PktLen(c) => printed[c] = sent[c]
<1>t. /\ sent[c] \in Nat /\ printed[c] \in Nat /\ PktLen(c) \in Nat /\ PktLen(c) > 0
      /\ sent[c] * PktLen(c) \in Nat /\ printed[c] * PktLen(c) \in Nat
  BY PktLenType, ProductNat DEF TypeOK
<1>1. printed[c] * PktLen(c) <= sent[c] * PktLen(c)
  BY DEF AccountedFor
<1>2. printed[c] <= sent[c]
  BY <1>1, <1>t, MultiplesOrdered
<1>3. AtPacket(c)
  BY <1>2, <1>t DEF AtPacket
<1>4. ASSUME Unread(c) < PktLen(c) PROVE printed[c] = sent[c]
  <2>1. (printed[c] + 1) * PktLen(c) = printed[c] * PktLen(c) + PktLen(c)
    BY <1>t, NextMultiple
  <2>2. ~((printed[c] + 1) * PktLen(c) <= sent[c] * PktLen(c))
    BY <1>4, <2>1, <1>t DEF Unread
  <2>3. CASE printed[c] + 1 <= sent[c]
    <3>1. PICK k \in Nat : sent[c] = (printed[c] + 1) + k
      <4>1. sent[c] - (printed[c] + 1) \in Nat /\ sent[c] = (printed[c] + 1) + (sent[c] - (printed[c] + 1))
        BY <2>3, <1>t
      <4> QED BY <4>1
    <3>2. sent[c] * PktLen(c) = (printed[c] + 1) * PktLen(c) + k * PktLen(c)
      BY ONLY <3>1, <1>t, SMT
    <3>3. k * PktLen(c) \in Nat /\ (printed[c] + 1) * PktLen(c) \in Nat
      BY <1>t, ProductNat
    <3> QED BY ONLY <3>2, <3>3, <2>2, <1>t
  <2> QED BY <2>3, <1>2, <1>t
<1> QED BY <1>2, <1>3, <1>4

LEMMA LengthHeldStep ==
    TypeOK /\ CellFilled /\ AccountedFor /\ LengthHeld /\ WholePackets /\ [Next]_vars
        => LengthHeld'
<1> SUFFICES ASSUME TypeOK, CellFilled, AccountedFor, LengthHeld, WholePackets, [Next]_vars,
                    Uniform, NoResets, NoResets'
             PROVE  \A h, c \in Conns : pc'[h] \in {"hdr", "body"} => buf'[h] = ByteSize[c]
  BY ResetsStay DEF LengthHeld, Calm, Uniform, OneByteHeader
<1>t. pc \in [Conns -> HandlerStates] /\ buf \in [Conns -> Nat] /\ sock \in [Conns -> SockStates]
  BY DEF TypeOK
<1>i. \A h, c \in Conns : pc[h] \in {"hdr", "body"} => buf[h] = ByteSize[c]
  BY DEF LengthHeld, Calm
<1>1. CASE Accept
  <2>1. Head(backlog) \in Conns
    BY <1>1 DEF Accept, TypeOK
  <2> QED BY <1>1, <1>t, <1>i, <2>1 DEF Accept
<1>2. CASE AcceptFails \/ UNCHANGED vars \/ \E c \in Conns : Client(c)
  <2>1. UNCHANGED <<pc, buf>>
    BY <1>2 DEF AcceptFails, vars, Client, Connect, Send, Finish, Reset, handlerVars
  <2> QED BY <2>1, <1>i
<1>3. ASSUME NEW h \in Conns, Handler(h)
      PROVE  \A g, c \in Conns : pc'[g] \in {"hdr", "body"} => buf'[g] = ByteSize[c]
  <2>1. CASE Lock(h)
    BY <2>1, <1>t, <1>i DEF Lock
  <2>2. CASE CallPeek(h) \/ PeekEof(h) \/ Body(h)
    <3>1. buf' = buf /\ \E s \in {"peek", "done", "loop"} : pc' = [pc EXCEPT ![h] = s]
      BY <2>2 DEF CallPeek, PeekEof, Body, BodyWhole, BodyTakes, BodyShort
    <3> QED BY <3>1, <1>t, <1>i
  <2>3. CASE CallBody(h) \/ Overflow(h)
    BY <2>3, <1>t, <1>i DEF CallBody, Overflow, handlerVars
  <2>4. CASE PeekHeader(h)
    <3>1. fd[h] \in Conns
      BY <2>4 DEF PeekHeader, CellFilled
    <3>2. AtPacket(fd[h])
      BY <3>1, AtWholePacket DEF WholePackets, Calm
    <3>3. buf' = [buf EXCEPT ![h] = ByteSize[fd[h]]] /\ pc' = [pc EXCEPT ![h] = "hdr"]
      BY <2>4, <3>1, <3>2 DEF PeekHeader, Decoded, Uniform
    <3> QED BY <3>1, <3>3, <1>t, <1>i DEF Uniform
  <2>5. CASE PeekError(h)
    BY <2>5 DEF PeekError, NoResets, CellFilled
  <2> QED BY <1>3, <2>1, <2>2, <2>3, <2>4, <2>5 DEF Handler, Peek
<1> QED BY <1>1, <1>2, <1>3 DEF Next, Main

\* What a receive from f does when packets have one length and none is torn:
\* it takes the next packet and prints it, or finds that none is left, prints
\* what was on the stack and takes nothing.
LEMMA CalmBody ==
    ASSUME TypeOK, AccountedFor, LengthHeld, WholePackets, Calm,
           NEW h \in Conns, fd[h] \in Conns, Body(h)
    PROVE  LET f == fd[h] IN
           \/ /\ taken'[f] = taken[f] + PktLen(f)
              /\ printed'[f] = printed[f] + 1 /\ slipped'[f] = slipped[f]
           \/ /\ Unread(f) = 0 /\ sock[f] = "fin"
              /\ taken'[f] = taken[f] /\ printed'[f] = printed[f]
              /\ slipped'[f] = slipped[f] + 1
<1> DEFINE f == fd[h]
<1>1. buf[h] + Hdr = PktLen(f)
  BY DEF LengthHeld, Calm, Body, BodyWhole, BodyTakes, BodyShort, PktLen
<1>2. PICK n \in Int :
        /\ n <= PktLen(f) /\ n <= Unread(f)
        /\ \/ n = PktLen(f)
           \/ n = Unread(f) /\ sock[f] \in {"fin", "reset", "reported"}
        /\ taken'[f] = taken[f] + n
        /\ Prints(f, n)
  BY <1>1, BodyEffect
<1>3. AtPacket(f) /\ (Unread(f) < PktLen(f) => printed[f] = sent[f])
  BY AtWholePacket DEF WholePackets
<1>4. /\ PktLen(f) \in Nat /\ MsgLen(f) \in Nat /\ MsgLen(f) > 0 /\ MsgLen(f) <= PktLen(f)
      /\ taken[f] \in Nat /\ sent[f] * PktLen(f) \in Nat
  BY PktLenType, ProductNat DEF TypeOK
<1>5. CASE n >= MsgLen(f)
  <2>1. printed'[f] = printed[f] + 1 /\ slipped'[f] = slipped[f]
    BY <1>2, <1>3, <1>5, PrintsEffect
  <2>2. Unread(f) < PktLen(f) => Unread(f) = 0
    BY <1>3, <1>4 DEF WholePackets, Unread
  <2>3. n = PktLen(f)
    <3>1. CASE Unread(f) < PktLen(f)
      BY <1>2, <1>4, <1>5, <2>2, <3>1
    <3>2. CASE ~(Unread(f) < PktLen(f))
      <4>1. Unread(f) \in Int
        BY <1>4 DEF Unread
      <4> QED BY ONLY <1>2, <1>4, <4>1, <3>2
    <3> QED BY <3>1, <3>2
  <2> QED BY <1>2, <2>1, <2>3
<1>6. CASE ~(n >= MsgLen(f))
  <2>1. printed'[f] = printed[f] /\ slipped'[f] = slipped[f] + 1
    BY <1>2, <1>6, PrintsEffect
  <2>2. n = Unread(f) /\ n < PktLen(f) /\ sock[f] \in {"fin", "reset", "reported"}
    BY ONLY <1>2, <1>4, <1>6
  <2>3. Unread(f) = 0
    BY <1>3, <1>4, <2>2 DEF WholePackets, Unread
  <2>4. sock[f] = "fin"
    BY <2>2 DEF Calm, NoResets
  <2>5. taken'[f] = taken[f]
    BY ONLY <1>2, <1>4, <2>2, <2>3
  <2> QED BY <2>1, <2>3, <2>4, <2>5
<1> QED BY <1>5, <1>6

\* Calm never comes back.
LEMMA CalmEnds == TypeOK /\ [Next]_vars /\ Calm' => Calm
BY ResetsStay DEF Calm, Uniform, OneByteHeader

LEMMA WholePacketsStep ==
    TypeOK /\ CellFilled /\ AccountedFor /\ LengthHeld /\ WholePackets /\ [Next]_vars
        => WholePackets'
<1> SUFFICES ASSUME TypeOK, CellFilled, AccountedFor, LengthHeld, WholePackets, [Next]_vars,
                    Calm, NEW c \in Conns
             PROVE  taken'[c] = printed'[c] * PktLen(c)
  BY CalmEnds DEF WholePackets, PktLen
<1>i. taken[c] = printed[c] * PktLen(c)
  BY DEF WholePackets
<1>1. CASE UNCHANGED <<sent, taken, printed, slipped>> \/ \E d \in Conns : Send(d)
  BY <1>1, <1>i DEF Send, log
<1>2. ASSUME NEW h \in Conns, fd[h] \in Conns, Body(h)
      PROVE  taken'[c] = printed'[c] * PktLen(c)
  <2>1. CASE c # fd[h]
    BY <1>2, <1>i, <2>1, BodyEffect, PrintsEffect
  <2>2. CASE c = fd[h]
    <3>1. \/ taken'[c] = taken[c] + PktLen(c) /\ printed'[c] = printed[c] + 1
          \/ taken'[c] = taken[c] /\ printed'[c] = printed[c]
      BY <1>2, <2>2, CalmBody
    <3>2. printed[c] \in Nat /\ PktLen(c) \in Nat
      BY PktLenType DEF TypeOK
    <3>3. (printed[c] + 1) * PktLen(c) = printed[c] * PktLen(c) + PktLen(c)
      BY <3>2, NextMultiple
    <3> QED BY <1>i, <3>1, <3>2, <3>3
  <2> QED BY <2>1, <2>2
<1> QED BY <1>1, <1>2, CountersStep

-----------------------------------------------------------------------------
(* The cell between a peek and the receive after it.                       *)

LEMMA UntouchedStep ==
    TypeOK /\ CellFilled /\ BacklogFresh /\ Untouched /\ [Next]_vars => Untouched'
<1> SUFFICES ASSUME TypeOK, CellFilled, BacklogFresh, Untouched, [Next]_vars PROVE Untouched'
  OBVIOUS
<1>t. /\ pc \in [Conns -> HandlerStates] /\ fd \in [Conns -> Conns \cup {NoConn}]
      /\ NoConn \notin Conns
  BY LogServerAssumption DEF TypeOK
<1>1. CASE Accept
  <2>1. Head(backlog) \in Conns /\ newSocket' = Head(backlog)
    BY <1>1 DEF Accept, TypeOK
  <2>2. PICK s \in {"lock", "nothread"} : pc' = [pc EXCEPT ![Head(backlog)] = s]
    BY <1>1 DEF Accept
  <2>3. UNCHANGED <<taken, slipped, fd>>
    BY <1>1 DEF Accept, log
  <2>4. \A c \in Conns : pc'[c] = IF c = Head(backlog) THEN s ELSE pc[c]
    BY <1>t, <2>2
  <2>5. \A h \in Conns : pc'[h] \in {"peek", "hdr", "body"} => pc'[fd'[h]] # "none"
    BY <2>3, <2>4 DEF Untouched, CellFilled
  <2> QED BY <2>1, <2>3, <2>4, <2>5 DEF Untouched
<1>2. ASSUME UNCHANGED <<taken, slipped, fd, pc>>, newSocket' \in {newSocket, NoConn}
      PROVE  Untouched'
  BY <1>2, <1>t DEF Untouched
<1>3. CASE AcceptFails \/ UNCHANGED vars \/ \E c \in Conns : Client(c)
  <2>1. UNCHANGED <<taken, slipped, fd, pc>> /\ newSocket' \in {newSocket, NoConn}
    BY <1>3 DEF AcceptFails, vars, log, Client, Connect, Send, Finish, Reset, handlerVars
  <2> QED BY <2>1, <1>2
<1>4. ASSUME NEW h \in Conns, Handler(h) PROVE Untouched'
  <2>1. newSocket' = newSocket
    BY <1>4 DEF Handler, Lock, CallPeek, Peek, PeekHeader, PeekError, PeekEof, CallBody,
                Overflow, Body, BodyWhole, BodyTakes, BodyShort
  <2>2. pc[h] # "none" /\ \E s \in HandlerStates \ {"none"} :
            pc' = [pc EXCEPT ![h] = s] \/ pc' = pc
    BY <1>4 DEF Handler, Lock, CallPeek, Peek, PeekHeader, PeekError, PeekEof, CallBody,
                Overflow, Body, BodyWhole, BodyTakes, BodyShort, handlerVars, HandlerStates
  <2>3. \A c \in Conns : pc'[c] = "none" <=> pc[c] = "none"
    BY <1>t, <2>2
  <2>4. ASSUME NEW c \in Conns, pc[c] = "none" PROVE taken'[c] = 0 /\ slipped'[c] = 0
    <3>1. CASE Body(h)
      <4>1. fd[h] \in Conns /\ c # fd[h]
        BY <2>4, <3>1 DEF Body, BodyWhole, BodyTakes, BodyShort, Untouched, CellFilled
      <4> QED BY <2>4, <3>1, <4>1, BodyEffect, PrintsEffect DEF Untouched
    <3>2. CASE ~Body(h)
      <4>1. UNCHANGED <<taken, slipped>>
        BY <1>4, <3>2 DEF Handler, Lock, CallPeek, Peek, PeekHeader, PeekError, PeekEof,
                          CallBody, Overflow, log
      <4> QED BY <2>4, <4>1 DEF Untouched
    <3> QED BY <3>1, <3>2
  <2>5. ASSUME NEW g \in Conns, pc'[g] \in {"peek", "hdr", "body"} PROVE pc'[fd'[g]] # "none"
    <3>1. CASE CallPeek(h) \/ CallBody(h)
      <4>1. up /\ fd' = [fd EXCEPT ![h] = newSocket] /\ (g # h => pc'[g] = pc[g])
        BY <1>t, <3>1 DEF CallPeek, CallBody
      <4>2. newSocket \in Conns
        BY <2>2, <4>1 DEF CellFilled
      <4>3. fd'[g] = newSocket \/ (fd'[g] = fd[g] /\ g # h)
        BY <1>t, <4>1
      <4> QED BY <2>3, <2>5, <4>1, <4>2, <4>3 DEF Untouched, CellFilled
    <3>2. CASE ~(CallPeek(h) \/ CallBody(h))
      <4>1. fd' = fd /\ pc[g] \in {"peek", "hdr", "body"}
        BY <1>4, <1>t, <2>5, <3>2 DEF Handler, Lock, Peek, PeekHeader, PeekError, PeekEof,
                Overflow, Body, BodyWhole, BodyTakes, BodyShort, handlerVars
      <4> QED BY <2>3, <4>1 DEF Untouched, CellFilled
    <3> QED BY <3>1, <3>2
  <2> QED BY <2>1, <2>3, <2>4, <2>5 DEF Untouched
<1> QED BY <1>1, <1>3, <1>4 DEF Next, Main

LEMMA AheadStep ==
    TypeOK /\ CellFilled /\ OneReader /\ Untouched /\ BacklogFresh /\ Ahead /\ [Next]_vars
        => Ahead'
<1> SUFFICES ASSUME TypeOK, CellFilled, OneReader, Untouched, BacklogFresh, Ahead, [Next]_vars,
                    up', NEW g \in Conns
             PROVE  /\ pc'[g] \in {"peek", "hdr"} /\ fd'[g] # newSocket' =>
                          taken'[newSocket'] = 0 /\ slipped'[newSocket'] = 0
                    /\ NoResets' /\ pc'[g] = "hdr" /\ fd'[g] = newSocket' =>
                          Unread(newSocket)' > 0
                    /\ NoResets' /\ pc'[g] = "body" =>
                          Unread(fd[g])' > 0 \/ (taken'[fd'[g]] = 0 /\ slipped'[fd'[g]] = 0)
  BY DEF Ahead
<1>t. /\ pc \in [Conns -> HandlerStates] /\ fd \in [Conns -> Conns \cup {NoConn}]
      /\ sent \in [Conns -> Nat] /\ taken \in [Conns -> Nat]
      /\ NoConn \notin Conns
  BY LogServerAssumption DEF TypeOK
<1>i. up =>
      /\ pc[g] \in {"peek", "hdr"} /\ fd[g] # newSocket =>
            taken[newSocket] = 0 /\ slipped[newSocket] = 0
      /\ NoResets /\ pc[g] = "hdr" /\ fd[g] = newSocket => Unread(newSocket) > 0
      /\ NoResets /\ pc[g] = "body" =>
            Unread(fd[g]) > 0 \/ (taken[fd[g]] = 0 /\ slipped[fd[g]] = 0)
  BY DEF Ahead
<1>n. NoResets' => NoResets
  BY ResetsStay
<1>f. up /\ pc[g] \in {"peek", "hdr", "body"} => fd[g] \in Conns /\ pc[fd[g]] # "none" /\ newSocket \in Conns
  BY DEF CellFilled, Untouched
<1>1. CASE Accept
  <2>1. /\ up /\ newSocket' = Head(backlog)
        /\ UNCHANGED <<sent, taken, slipped, fd>>
        /\ \E s \in {"lock", "nothread"} : pc' = [pc EXCEPT ![Head(backlog)] = s]
    BY <1>1 DEF Accept, clientVars, log
  <2>2. Head(backlog) \in Conns /\ pc[Head(backlog)] = "none"
    BY <1>1 DEF Accept, TypeOK, BacklogFresh
  <2>3. taken[Head(backlog)] = 0 /\ slipped[Head(backlog)] = 0
    BY <2>2 DEF Untouched
  <2>4. pc'[g] \in {"peek", "hdr", "body"} => pc'[g] = pc[g] /\ fd[g] # Head(backlog)
    BY <1>t, <1>f, <2>1, <2>2
  <2> QED BY <1>i, <1>n, <2>1, <2>3, <2>4 DEF Unread, PktLen
<1>2. CASE UNCHANGED <<up, pc, fd, newSocket, taken, slipped, sent>>
  BY <1>2, <1>i, <1>n DEF Unread, PktLen
<1>3. ASSUME NEW c \in Conns, Send(c)
      PROVE  /\ pc'[g] \in {"peek", "hdr"} /\ fd'[g] # newSocket' =>
                   taken'[newSocket'] = 0 /\ slipped'[newSocket'] = 0
             /\ NoResets' /\ pc'[g] = "hdr" /\ fd'[g] = newSocket' =>
                   Unread(newSocket)' > 0
             /\ NoResets' /\ pc'[g] = "body" =>
                   Unread(fd[g])' > 0 \/ (taken'[fd'[g]] = 0 /\ slipped'[fd'[g]] = 0)
  <2>1. /\ UNCHANGED <<up, pc, fd, newSocket, taken, slipped>>
        /\ sent' = [sent EXCEPT ![c] = @ + 1]
    BY <1>3 DEF Send, handlerVars, log
  <2>2. ASSUME NEW d \in Conns, Unread(d) > 0 PROVE Unread(d)' > 0
    <3>1. /\ sent[d] \in Nat /\ taken[d] \in Nat /\ PktLen(d) \in Nat
          /\ sent[d] * PktLen(d) \in Nat
      BY <1>t, PktLenType, ProductNat
    <3>2. (sent[d] + 1) * PktLen(d) = sent[d] * PktLen(d) + PktLen(d)
      BY <3>1, NextMultiple
    <3>3. sent'[d] = sent[d] \/ sent'[d] = sent[d] + 1
      BY <1>t, <2>1
    <3>4. sent'[d] * PktLen(d) >= sent[d] * PktLen(d)
      BY ONLY <3>1, <3>2, <3>3
    <3>5. sent[d] * PktLen(d) - taken[d] > 0 /\ sent'[d] * PktLen(d) \in Int
      BY <2>2, <3>1, <3>2, <3>3 DEF Unread
    <3>6. sent'[d] * PktLen(d) - taken[d] > 0
      BY ONLY <3>1, <3>4, <3>5
    <3> QED BY <2>1, <3>6 DEF Unread, PktLen
  <2>3. up
    BY <2>1
  <2>4. CASE pc[g] \in {"peek", "hdr", "body"}
    BY <1>i, <1>n, <1>f, <2>1, <2>2, <2>3, <2>4 DEF Unread, PktLen
  <2> QED BY <2>1, <2>4
<1>4. ASSUME NEW h \in Conns, Handler(h)
      PROVE  /\ pc'[g] \in {"peek", "hdr"} /\ fd'[g] # newSocket' =>
                   taken'[newSocket'] = 0 /\ slipped'[newSocket'] = 0
             /\ NoResets' /\ pc'[g] = "hdr" /\ fd'[g] = newSocket' =>
                   Unread(newSocket)' > 0
             /\ NoResets' /\ pc'[g] = "body" =>
                   Unread(fd[g])' > 0 \/ (taken'[fd'[g]] = 0 /\ slipped'[fd'[g]] = 0)
  <2>1. CASE Body(h)
    <3>1. InLoop(h) /\ pc' = [pc EXCEPT ![h] = "loop"]
      BY <2>1 DEF Body, BodyWhole, BodyTakes, BodyShort, InLoop
    <3>2. pc'[g] \notin {"peek", "hdr", "body"}
      BY <1>t, <3>1 DEF OneReader, InLoop
    <3> QED BY <3>2
  <2>2. CASE ~Body(h)
    <3>1. up /\ UNCHANGED <<sent, taken, slipped, newSocket>>
      BY <1>4, <2>2 DEF Handler, Lock, CallPeek, Peek, PeekHeader, PeekError, PeekEof,
                        CallBody, Overflow, clientVars, log
    <3>2. CASE CallPeek(h)
      <4>1. fd' = [fd EXCEPT ![h] = newSocket] /\ pc' = [pc EXCEPT ![h] = "peek"]
        BY <3>2 DEF CallPeek
      <4>2. CASE g = h
        BY <1>t, <4>1, <4>2, <3>1
      <4>3. CASE g # h
        BY <1>t, <1>i, <1>n, <4>1, <4>3, <3>1 DEF Unread, PktLen
      <4> QED BY <4>2, <4>3
    <3>3. CASE PeekHeader(h)
      <4>1. fd' = fd /\ pc[h] = "peek" /\ pc' = [pc EXCEPT ![h] = "hdr"] /\ Unread(fd[h]) > 0
        BY <3>3 DEF PeekHeader
      <4>2. CASE g = h
        BY <1>t, <1>i, <4>1, <4>2, <3>1 DEF Unread, PktLen
      <4>3. CASE g # h
        BY <1>t, <1>i, <1>n, <4>1, <4>3, <3>1 DEF Unread, PktLen
      <4> QED BY <4>2, <4>3
    <3>4. CASE PeekError(h)
      <4>1. fd' = fd /\ pc[h] = "peek" /\ pc' = [pc EXCEPT ![h] = "hdr"] /\ sock[fd[h]] = "reset"
        BY <3>4 DEF PeekError
      <4>2. CASE g = h
        <5>1. ~NoResets
          BY <1>f, <3>1, <4>1, <4>2 DEF NoResets
        <5> QED BY <1>t, <1>i, <1>n, <4>1, <4>2, <5>1, <3>1
      <4>3. CASE g # h
        BY <1>t, <1>i, <1>n, <4>1, <4>3, <3>1 DEF Unread, PktLen
      <4> QED BY <4>2, <4>3
    <3>5. CASE CallBody(h)
      <4>1. fd' = [fd EXCEPT ![h] = newSocket] /\ pc[h] = "hdr" /\ pc' = [pc EXCEPT ![h] = "body"]
        BY <3>5 DEF CallBody
      <4>2. CASE g = h
        <5>1. fd'[g] = newSocket /\ pc'[g] = "body"
          BY <1>t, <4>1, <4>2
        <5> QED BY <1>i, <1>n, <3>1, <4>1, <4>2, <5>1 DEF Unread, PktLen
      <4>3. CASE g # h
        BY <1>t, <1>i, <1>n, <4>1, <4>3, <3>1 DEF Unread, PktLen
      <4> QED BY <4>2, <4>3
    <3>6. CASE Lock(h) \/ PeekEof(h)
      <4>1. fd' = fd /\ \E s \in {"loop", "done"} : pc' = [pc EXCEPT ![h] = s]
        BY <3>6 DEF Lock, PeekEof
      <4> QED BY <1>t, <1>i, <1>n, <4>1, <3>1 DEF Unread, PktLen
    <3>7. ~Overflow(h)
      BY DEF Overflow
    <3> QED BY <1>4, <2>2, <3>2, <3>3, <3>4, <3>5, <3>6, <3>7 DEF Handler, Peek
  <2> QED BY <2>1, <2>2
<1>5. ~AcceptFails
  BY DEF AcceptFails
<1>6. ASSUME NEW c \in Conns, Connect(c) \/ Finish(c) \/ Reset(c)
      PROVE  UNCHANGED <<up, pc, fd, newSocket, taken, slipped, sent>>
  BY <1>6 DEF Connect, Finish, Reset, handlerVars, log
<1>7. CASE UNCHANGED vars
  BY <1>7, <1>2 DEF vars, log
<1> QED BY <1>1, <1>2, <1>3, <1>4, <1>5, <1>6, <1>7 DEF Next, Main, Client

\* A slip on a calm connection: it had no packet and has ended.
LEMMA SlipCause ==
    ASSUME TypeOK, AccountedFor, LengthHeld, WholePackets, Ahead, Calm,
           NEW h \in Conns, fd[h] \in Conns, Body(h), slipped'[fd[h]] # slipped[fd[h]]
    PROVE  /\ slipped[fd[h]] = 0 /\ slipped'[fd[h]] = 1
           /\ sent[fd[h]] = 0 /\ sock[fd[h]] = "fin"
<1> DEFINE f == fd[h]
<1>1. Unread(f) = 0 /\ sock[f] = "fin" /\ slipped'[f] = slipped[f] + 1
  BY CalmBody
<1>2. up /\ pc[h] = "body"
  BY DEF Body, BodyWhole, BodyTakes, BodyShort
<1>3. taken[f] = 0 /\ slipped[f] = 0
  BY <1>1, <1>2 DEF Ahead, Calm
<1>4. /\ sent[f] \in Nat /\ PktLen(f) \in Nat /\ PktLen(f) > 0
      /\ sent[f] * PktLen(f) \in Nat
  BY PktLenType, ProductNat DEF TypeOK
<1>5. sent[f] * PktLen(f) <= 0 * PktLen(f)
  BY <1>1, <1>3, <1>4 DEF Unread
<1>6. sent[f] = 0
  BY <1>4, <1>5, MultiplesOrdered
<1> QED BY <1>1, <1>3, <1>6

LEMMA SlipsStep ==
    /\ TypeOK /\ CellFilled /\ AccountedFor /\ LengthHeld /\ WholePackets /\ Ahead
    /\ SlipsOncePerSilence /\ [Next]_vars
    => SlipsOncePerSilence'
<1> SUFFICES ASSUME TypeOK, CellFilled, AccountedFor, LengthHeld, WholePackets, Ahead,
                    SlipsOncePerSilence, [Next]_vars, Calm, Calm',
                    NEW c \in Conns, slipped'[c] > 0
             PROVE  slipped'[c] = 1 /\ sent'[c] = 0 /\ sock'[c] = "fin"
  BY CalmEnds DEF SlipsOncePerSilence
<1>t. sock \in [Conns -> SockStates] /\ sent \in [Conns -> Nat]
  BY DEF TypeOK
<1>i. slipped[c] > 0 => slipped[c] = 1 /\ sent[c] = 0 /\ sock[c] = "fin"
  BY DEF SlipsOncePerSilence
<1>0. sock[c] = "fin" => sock'[c] = "fin"
  <2>1. CASE Main \/ UNCHANGED vars
    BY <2>1 DEF Main, Accept, AcceptFails, clientVars, vars
  <2>2. ASSUME NEW d \in Conns, Client(d) PROVE sock[c] = "fin" => sock'[c] = "fin"
    BY <2>2, <1>t DEF Client, Connect, Send, Finish, Reset
  <2>3. ASSUME NEW h \in Conns, Handler(h) PROVE sock[c] = "fin" => sock'[c] = "fin"
    <3>1. \/ sock' = sock
          \/ sock[fd[h]] = "reset" /\ sock' = [sock EXCEPT ![fd[h]] = "reported"]
      BY <2>3 DEF Handler, Lock, CallPeek, Peek, PeekHeader, PeekError, PeekEof, CallBody,
                  Overflow, Body, BodyWhole, BodyTakes, BodyShort, clientVars
    <3> QED BY <3>1, <1>t
  <2> QED BY <2>1, <2>2, <2>3 DEF Next
<1>1. CASE UNCHANGED <<sent, taken, printed, slipped>>
  BY <1>0, <1>1, <1>i
<1>2. ASSUME NEW d \in Conns, Send(d)
      PROVE  slipped'[c] = 1 /\ sent'[c] = 0 /\ sock'[c] = "fin"
  <2>1. sock[d] = "open" /\ sent' = [sent EXCEPT ![d] = @ + 1] /\ slipped' = slipped
    BY <1>2 DEF Send, log
  <2> QED BY <1>0, <1>i, <1>t, <2>1
<1>3. ASSUME NEW h \in Conns, fd[h] \in Conns, Body(h)
      PROVE  slipped'[c] = 1 /\ sent'[c] = 0 /\ sock'[c] = "fin"
  <2>1. sent' = sent /\ (c # fd[h] => slipped'[c] = slipped[c])
    BY <1>3, BodyEffect, PrintsEffect
  <2> QED BY <1>0, <1>3, <1>i, <2>1, SlipCause
<1> QED BY <1>1, <1>2, <1>3, CountersStep

-----------------------------------------------------------------------------
(* The theorems.                                                           *)

LEMMA InitIInv == Init => IInv
<1> SUFFICES ASSUME Init PROVE IInv
  OBVIOUS
<1>1. TypeOK
  BY TypeInit
<1>2. BacklogFresh /\ CellFilled /\ OneReader /\ LengthHeld
  BY DEF Init, BacklogFresh, CellFilled, OneReader, InLoop, LengthHeld
<1>3. \A c \in Conns : 0 * PktLen(c) = 0
  BY PktLenType
<1>4. AccountedFor /\ WholePackets
  BY <1>3 DEF Init, AccountedFor, WholePackets
<1>5. Untouched /\ Ahead /\ SlipsOncePerSilence
  BY LogServerAssumption DEF Init, Untouched, Ahead, SlipsOncePerSilence
<1> QED BY <1>1, <1>2, <1>4, <1>5 DEF IInv

LEMMA NextIInv == IInv /\ [Next]_vars => IInv'
BY TypeStep, FreshStep, CellStep, OneReaderStep, AccountedForStep, LengthHeldStep,
   WholePacketsStep, UntouchedStep, AheadStep, SlipsStep DEF IInv

\* The inductive invariant holds in every state.
THEOREM Invariance == Spec => []IInv
BY InitIInv, NextIInv, PTL DEF Spec

\* Every variable keeps its type: SocketHandler never computes a negative
\* length or count, and never reads through a cell nobody filled.
THEOREM TypeCorrect == Spec => []TypeOK
BY Invariance, PTL DEF IInv

\* Server.cpp's mutex: one thread at a time in SocketHandler's loop.
THEOREM MutualExclusion == Spec => []OneReader
BY Invariance, PTL DEF IInv

\* However receives fall out, nothing is consumed that was not sent, and no
\* packet is decoded twice from the bytes of its connection.
THEOREM NothingInvented == Spec => []AccountedFor
BY Invariance, PTL DEF IInv

\* With the packets of Client.cpp, which all have one length, sharing the
\* descriptor cell never tears or drops a packet while no connection is reset.
THEOREM NothingTorn == Spec => []WholePackets
BY Invariance, PTL DEF IInv

\* Nor does it make readBody print what is on the stack, but once for a
\* connection that ends without a packet.
THEOREM SlipsBounded == Spec => []SlipsOncePerSilence
BY Invariance, PTL DEF IInv

\* readBody prints a packet only when one more was sent than printed, and in the
\* calm anything else only of a silent connection: a step of the server is a
\* step of LogSink or leaves the sink's state alone.
LEMMA SinkStep == IInv /\ [Next]_vars => [Sink!Next]_<<sent, printed, slipped, Calm>>
<1> SUFFICES ASSUME IInv, [Next]_vars PROVE [Sink!Next]_<<sent, printed, slipped, Calm>>
  OBVIOUS
<1>t. /\ sent \in [Conns -> Nat] /\ printed \in [Conns -> Nat] /\ slipped \in [Conns -> Nat]
  BY DEF IInv, TypeOK
<1>u. Uniform' <=> Uniform
  BY DEF Uniform, OneByteHeader
<1>1. CASE UNCHANGED <<sent, taken, printed, slipped>>
  <2>1. CASE Calm /\ ~Calm'
    BY <1>1, <2>1 DEF Sink!Next, Sink!Break
  <2>2. CASE ~(Calm /\ ~Calm')
    <3>1. Calm' <=> Calm
      BY <2>2, CalmEnds DEF IInv
    <3>2. Calm' = Calm
      BY <3>1 DEF Calm
    <3> QED BY <1>1, <3>2
  <2> QED BY <2>1, <2>2
<1>2. ASSUME NEW c \in Conns, Send(c) PROVE Sink!Next
  <2>1. /\ sent[c] < MaxPackets /\ sent' = [sent EXCEPT ![c] = @ + 1]
        /\ sock[c] = "open" /\ UNCHANGED <<printed, slipped, sock>>
    BY <1>2 DEF Send, log
  <2>2. Calm' = Calm
    BY <1>u, <2>1 DEF Calm, NoResets
  <2>3. Calm => slipped[c] = 0
    BY <1>t, <2>1 DEF IInv, SlipsOncePerSilence
  <2>4. Sink!Send(c)
    BY <2>1, <2>2, <2>3 DEF Sink!Send
  <2> QED BY <2>4 DEF Sink!Next
<1>3. ASSUME NEW h \in Conns, fd[h] \in Conns, Body(h) PROVE Sink!Next
  <2> DEFINE f == fd[h]
  <2>1. PICK n \in Int : n <= Unread(f) /\ Prints(f, n)
    BY <1>3, BodyEffect DEF IInv
  <2>2. sent' = sent
    BY <1>3, BodyEffect DEF IInv
  <2>3. Calm' = Calm
    <3>1. \/ sock' = sock
          \/ sock[f] = "reset" /\ sock' = [sock EXCEPT ![f] = "reported"]
      BY <1>3 DEF Body, BodyWhole, BodyTakes, BodyShort, clientVars
    <3>2. sock' # sock => ~NoResets /\ ~NoResets'
      BY <1>3, <3>1 DEF NoResets, IInv, TypeOK
    <3>3. sock' = sock => (NoResets' <=> NoResets)
      BY DEF NoResets
    <3>4. NoResets' <=> NoResets
      BY <3>2, <3>3
    <3> QED BY <1>u, <3>4 DEF Calm
  <2>4. CASE AtPacket(f) /\ n >= MsgLen(f)
    <3>1. printed' = [printed EXCEPT ![f] = @ + 1] /\ slipped' = slipped
      BY <2>1, <2>4 DEF Prints
    <3>2. MsgLen(f) \in Nat /\ MsgLen(f) > 0 /\ Unread(f) \in Int
      BY <1>3, <1>t, PktLenType, ProductNat DEF IInv, TypeOK, Unread
    <3>3. Unread(f) > 0
      BY ONLY <2>1, <2>4, <3>2
    <3>4. printed[f] < sent[f]
      BY <1>3, <2>4, <3>3, PrintedBehind DEF IInv
    <3>5. Sink!Log(f)
      BY <2>2, <2>3, <3>1, <3>4 DEF Sink!Log
    <3> QED BY <1>3, <3>5 DEF Sink!Next
  <2>5. CASE ~(AtPacket(f) /\ n >= MsgLen(f))
    <3>1. slipped' = [slipped EXCEPT ![f] = @ + 1] /\ printed' = printed
      BY <2>1, <2>5 DEF Prints
    <3>2. slipped'[f] # slipped[f]
      BY <1>3, <1>t, <3>1
    <3>3. Calm => slipped[f] = 0 /\ sent[f] = 0
      BY <1>3, <3>2, SlipCause DEF IInv
    <3>4. Sink!Slip(f)
      BY <2>2, <2>3, <3>1, <3>3 DEF Sink!Slip
    <3> QED BY <1>3, <3>4 DEF Sink!Next
  <2> QED BY <2>4, <2>5
<1> QED BY <1>1, <1>2, <1>3, CountersStep DEF IInv

\* Server and clients implement LogSink: of what clients send, each packet is
\* printed at most once and none before it was sent, and until a connection
\* breaks nothing else is but one line for a client that never sent.
THEOREM Refinement == Spec => PrintsWhatWasSent
<1>1. Init => Sink!Init
  BY DEF Init, Sink!Init, Calm
<1>2. IInv /\ [Next]_vars => [Sink!Next]_(Sink!sinkVars)
  BY SinkStep DEF Sink!sinkVars
<1> QED BY <1>1, <1>2, Invariance, PTL DEF Spec, PrintsWhatWasSent, Sink!Spec
=============================================================================
