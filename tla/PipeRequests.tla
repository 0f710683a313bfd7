---------------------------- MODULE PipeRequests ----------------------------
(***************************************************************************)
(* The requests one winexe session sends (async.c and the callbacks of     *)
(* winexe.c), over a connection that behaves as SmbRequests says: replies  *)
(* in any order, and when it breaks the newest request that waits, and     *)
(* only that one, is told.  Winexe has the protocol of the pipes, on a     *)
(* connection that stands; this module has the connection that breaks,     *)
(* what comes from stdin, and the server that works on several requests at *)
(* once.                                                                   *)
(*                                                                         *)
(* A callback runs to its end, but a request it sends may find out that    *)
(* the connection is broken, and then another callback runs inside it:     *)
(* todo has the calls the running callbacks still make, the innermost      *)
(* first.  The service has the right version, and a session sends fewer    *)
(* requests than there are mids.  Left out: installing, the exit code,     *)
(* aborts, what the data is (see Winexe).                                  *)
(***************************************************************************)
EXTENDS Naturals, SequencesExt

CONSTANTS
    MaxIn,    \* bound: what is read from stdin
    MaxOut,   \* bound: what the command writes
    Outs      \* the pipes of its output: "out" and "err"

ASSUME PipesAssumption == MaxIn \in Nat /\ MaxOut \in Nat /\ Outs \subseteq {"out", "err"}

VARIABLES
    alive,    \* the connection stands
    pending,  \* transport.pending_recv, the newest request first
    todo,     \* calls of async.c to be made before the next event
    up,       \* the client: "run", "gone" or "crashed"
    stage,    \* stage[p]: async_open and async_close were called for pipe p
    ioWrite,  \* ac_in->io_write is allocated
    watch,    \* stdin is watched
    typed,    \* parts of stdin read so far, numbered from 1
    sent,     \* requests that are with the server
    reply,    \* replies under way: request, success and the message of a read
    srv,      \* srv[p]: the server's end of pipe p
    heard,    \* commands the service got: 1 version, 2 run
    said,     \* messages it sent: 1 version, 2 std_io_err, 3 return code
    got,      \* parts of stdin that arrived in the in pipe
    output    \* pieces of output that were read

connection == <<alive, pending>>
client == <<todo, up, ioWrite, watch>>
wire == <<sent, reply>>
server == <<srv, heard, said, got, output>>
vars == <<connection, client, stage, typed, wire, server>>

Pipes == {"ctrl", "in"} \cup Outs

Call(op, p, n) == [op |-> op, pipe |-> p, data |-> n]
Open(p) == Call("open", p, 0)
Read(p) == Call("read", p, 0)
Write(p, n) == Call("write", p, n)
\* A write that fails closes its pipe, whatever was closed before: n tells the
\* requests apart.
Close(p, n) == Call("close", p, n)
Exit == Call("exit", "ctrl", 0)

\* The request that waits in rreq of pipe p.
Waits(c, p) == c.pipe = p /\ c.op \in {"open", "read"}

Init ==
    /\ alive = TRUE
    /\ pending = <<>>
    /\ todo = <<Open("ctrl")>>
    /\ up = "run"
    /\ stage = [p \in Pipes |-> "none"]
    /\ ioWrite = FALSE
    /\ watch = FALSE
    /\ typed = 0
    /\ sent = {}
    /\ reply = <<>>
    /\ \E s \in {"none", "open"} : srv = [p \in Pipes |-> IF p = "ctrl" THEN s ELSE "none"]
    /\ heard = {}
    /\ said = 0
    /\ got = <<>>
    /\ output = 0

-----------------------------------------------------------------------------
(* Callbacks: what each of them sends, or the end of the client.           *)

\* The opens of the data pipes, in the order of on_ctrl_pipe_read.
OpenData == <<Open("in")>> \o (IF "out" \in Outs THEN <<Open("out")>> ELSE <<>>)
                           \o (IF "err" \in Outs THEN <<Open("err")>> ELSE <<>>)

\* async_open_recv, async_read_recv, async_write_recv and async_close_recv with
\* the callbacks of the control pipe: the message of a read is m.
CtrlCalls(op, ok, m) ==
    CASE ~ok -> <<Exit>>
      [] ok /\ op = "open" -> <<Write("ctrl", 1), Read("ctrl")>>
      [] ok /\ op = "read" /\ m = 1 -> <<Write("ctrl", 2), Read("ctrl")>>
      [] ok /\ op = "read" /\ m = 2 -> OpenData \o <<Read("ctrl")>>
      [] ok /\ op = "read" /\ m = 3 -> <<Read("ctrl")>>
      [] OTHER -> <<>>

\* The same with those of a data pipe.
DataCalls(p, op, n, ok) ==
    CASE ok /\ op \in {"open", "read"} -> <<Read(p)>>
      [] ~ok /\ op # "close" -> <<Close(p, n)>>
      [] OTHER -> <<>>

\* MUTANT of Freed: a write that is done frees the structure of the next one.
FreedByWrite(c, ok) == c.pipe = "in" /\ c.op \in {"write", "close"}

\* What happens to ac_in->io_write in async_write_recv and async_close_recv.
Freed(c, ok) == c.pipe = "in" /\ (c.op = "close" \/ (c.op = "write" /\ ~ok))

\* smb_raw_write_recv looks into io_write when the reply is good.
UsesFreed(c, ok, io) == c.pipe = "in" /\ c.op = "write" /\ ok /\ ~io

\* The callback of request c, run before rest, with or without an io_write.
Callback(c, ok, m, io, rest) ==
    /\ up' = IF UsesFreed(c, ok, io) THEN "crashed" ELSE up
    /\ ioWrite' = (io /\ ~Freed(c, ok))
    /\ watch' = (watch \/ (ok /\ c = Open("in")))
    /\ todo' = (IF c.pipe = "ctrl" THEN CtrlCalls(c.op, ok, m)
                                   ELSE DataCalls(c.pipe, c.op, c.data, ok)) \o rest

\* smbcli_transport_dead: the newest of the pending requests is called back,
\* and whatever is under way is lost.
Dead(waiting, io, rest) ==
    /\ alive' = FALSE
    /\ sent' = {} /\ reply' = <<>>
    /\ IF waiting = <<>>
       THEN /\ todo' = rest
            /\ ioWrite' = io
            /\ UNCHANGED <<pending, up, watch>>
       ELSE /\ pending' = Tail(waiting)
            /\ Callback(Head(waiting), FALSE, 0, io, rest)

-----------------------------------------------------------------------------
(* The client.                                                             *)

\* The next call of async.c.
Calling(ops) == up = "run" /\ todo # <<>> /\ Head(todo).op \in ops

\* MUTANT of ClosePending: the request stays, although its pipe is closed.
CloseNothing(c) == pending

\* async_close destroys the request in rreq, the last one that waits, before it
\* sends its own.
ClosePending(c) ==
    IF c.op = "close" THEN RemoveFirstMatch(pending, LAMBDA r : Waits(r, c.pipe)) ELSE pending

\* async_write allocates io_write when there is none.
Allocated(c) == ioWrite \/ (c.op = "write" /\ c.pipe = "in")

Staged(c) ==
    stage' = CASE c.op = "open" -> [stage EXCEPT ![c.pipe] = "opened"]
               [] c.op = "close" -> [stage EXCEPT ![c.pipe] = "closed"]
               [] OTHER -> stage

\* The request is sent and waited for.
SendCall ==
    /\ Calling({"open", "read", "write", "close"})
    /\ alive
    /\ LET c == Head(todo) IN
       /\ pending' = <<c>> \o ClosePending(c)
       /\ sent' = sent \cup {c}
       /\ ioWrite' = Allocated(c)
       /\ Staged(c)
    /\ todo' = Tail(todo)
    /\ UNCHANGED <<alive, up, watch, typed, reply, server>>

\* The connection turns out to be broken: another request is called back, and
\* this one never will be.
SendBreaks ==
    /\ Calling({"open", "read", "write", "close"})
    /\ alive
    /\ Dead(ClosePending(Head(todo)), Allocated(Head(todo)), Tail(todo))
    /\ Staged(Head(todo))
    /\ UNCHANGED <<typed, server>>

\* It is known to be broken: the request is not sent, nor ever called back.
SendRefused ==
    /\ Calling({"open", "read", "write", "close"})
    /\ ~alive
    /\ LET c == Head(todo) IN
       /\ pending' = ClosePending(c)
       /\ ioWrite' = Allocated(c)
       /\ Staged(c)
    /\ todo' = Tail(todo)
    /\ UNCHANGED <<alive, up, watch, typed, wire, server>>

\* exit_program
Exits ==
    /\ Calling({"exit"})
    /\ up' = "gone"
    /\ todo' = <<>>
    /\ UNCHANGED <<connection, ioWrite, watch, stage, typed, wire, server>>

Idle == up = "run" /\ todo = <<>>

\* The next reply is read: a request that waits for it is called back, and the
\* reply to one that was destroyed is dropped.
Receive ==
    /\ Idle
    /\ alive
    /\ reply # <<>>
    /\ LET c == Head(reply).req IN
       IF Contains(pending, c)
       THEN /\ pending' = RemoveFirst(pending, c)
            /\ Callback(c, Head(reply).ok, Head(reply).data, ioWrite, <<>>)
       ELSE UNCHANGED <<pending, client>>
    /\ reply' = Tail(reply)
    /\ UNCHANGED <<alive, stage, typed, sent, server>>

\* The connection is found broken when it is read from.
Break ==
    /\ Idle
    /\ alive
    /\ Dead(pending, ioWrite, <<>>)
    /\ UNCHANGED <<stage, typed, server>>

\* MUTANT of StdinRead: the end of the input is taken for more of it.
StdinAnyway == typed' = typed + 1 /\ typed <= MaxIn

\* read(0) has something; after the end of the input it has nothing, and
\* nothing is done about that.
StdinRead == typed' = typed + 1 /\ typed < MaxIn

\* MUTANT of WriteInput: the part that finds no io_write is lost over making it.
WriteInputMakes(n) == IF n = 1 THEN <<>> ELSE <<Write("in", n)>>

\* wreq is never set: no write waits for another one.
WriteInput(n) == <<Write("in", n)>>

\* on_stdin_read_event, also when the pipe is closed or the connection broken.
StdinEvent ==
    /\ Idle
    /\ watch
    /\ StdinRead
    /\ todo' = WriteInput(typed')
    /\ UNCHANGED <<connection, up, ioWrite, watch, stage, wire, server>>

-----------------------------------------------------------------------------
(* The server and the service.                                             *)

IsOpen(c) == srv[c.pipe] = "open"

\* The server is done with c.
Replies(c, ok, m) ==
    /\ sent' = sent \ {c}
    /\ reply' = Append(reply, [req |-> c, ok |-> ok, data |-> m])

ServeOpen(c) ==
    /\ c.op = "open"
    /\ Replies(c, IsOpen(c), 0)
    /\ UNCHANGED server

\* Writes to one pipe are done in their order.
ServeWrite(c) ==
    /\ c.op = "write"
    /\ \A d \in sent : d.op = "write" /\ d.pipe = c.pipe => d.data >= c.data
    /\ Replies(c, IsOpen(c), 0)
    /\ heard' = IF IsOpen(c) /\ c.pipe = "ctrl" THEN heard \cup {c.data} ELSE heard
    /\ got' = IF IsOpen(c) /\ c.pipe = "in" THEN Append(got, c.data) ELSE got
    /\ UNCHANGED <<srv, said, output>>

\* A read of a pipe that is closed fails.
ReadFails(c) ==
    /\ c.op = "read"
    /\ ~IsOpen(c)
    /\ Replies(c, FALSE, 0)
    /\ UNCHANGED server

\* The next message of the service; with the second one its pipes are there.
ServeCtrl(c) ==
    /\ c = Read("ctrl")
    /\ IsOpen(c)
    /\ said < 3
    /\ said < 2 => said + 1 \in heard
    /\ said' = said + 1
    /\ srv' = IF said' = 2 THEN [p \in Pipes |-> "open"] ELSE srv
    /\ Replies(c, TRUE, said')
    /\ UNCHANGED <<heard, got, output>>

ServeOutput(c) ==
    /\ c \in {Read(p) : p \in Outs}
    /\ IsOpen(c)
    /\ output < MaxOut
    /\ output' = output + 1
    /\ Replies(c, TRUE, 0)
    /\ UNCHANGED <<srv, heard, said, got>>

ServeClose(c) ==
    /\ c.op = "close"
    /\ Replies(c, IsOpen(c), 0)
    /\ srv' = [srv EXCEPT ![c.pipe] = "gone"]
    /\ UNCHANGED <<heard, said, got, output>>

\* What the server does between two calls of one callback could as well be done
\* after it, and what it does when no client is there to see it is left out.
Serve(c) ==
    /\ Idle
    /\ \/ ServeOpen(c) \/ ServeWrite(c) \/ ReadFails(c)
       \/ ServeCtrl(c) \/ ServeOutput(c) \/ ServeClose(c)
    /\ UNCHANGED <<connection, client, stage, typed>>

\* The service disconnects a pipe.
HangUp(p) ==
    /\ Idle /\ alive
    /\ srv[p] = "open"
    /\ srv' = [srv EXCEPT ![p] = "gone"]
    /\ UNCHANGED <<connection, client, stage, typed, wire, heard, said, got, output>>

-----------------------------------------------------------------------------
Perform == SendCall \/ SendBreaks \/ SendRefused \/ Exits
EventLoop == Receive \/ Break \/ StdinEvent
Server == (\E c \in sent : Serve(c)) \/ (\E p \in Pipes : HangUp(p))

Next == Perform \/ EventLoop \/ Server

Spec == Init /\ [][Next]_vars

\* The client runs its callbacks, and reads the replies that come.
FairSpec == Spec /\ WF_vars(Perform) /\ WF_vars(Receive)

-----------------------------------------------------------------------------
(* Properties.                                                             *)

Calls == [op : {"open", "read", "write", "close", "exit"}, pipe : Pipes, data : 0..MaxIn + 2]

\* Types of the variables.
TypeOK ==
    /\ alive \in BOOLEAN /\ ioWrite \in BOOLEAN /\ watch \in BOOLEAN
    /\ \A q \in {pending, todo} : \A i \in DOMAIN q : q[i] \in Calls
    /\ \A i \in DOMAIN reply : reply[i] \in [req : Calls, ok : BOOLEAN, data : 0..3]
    /\ up \in {"run", "gone", "crashed"}
    /\ stage \in [Pipes -> {"none", "opened", "closed"}]
    /\ sent \subseteq Calls
    /\ typed \in 0..MaxIn
    /\ srv \in [Pipes -> {"none", "open", "gone"}]
    /\ heard \subseteq 1..2 /\ said \in 0..3
    /\ output \in 0..MaxOut

\* What reaches the in pipe is what was read from stdin up to some point: no
\* part is missing or out of order, although every part has a write of its own
\* that waits for no other, all of them in one structure (async_write).
InputWithoutGaps == \A i \in 1..Len(got) : got[i] = i

\* No good reply to a write finds io_write freed, whatever was closed or has
\* failed while the write was under way (async_write_recv, async_close_recv).
WritesHaveStructure == up # "crashed"

\* Where in q the requests of pipe p are that wait.
Listeners(q, p) == {i \in DOMAIN q : Waits(q[i], p)}

\* Between two events the client has one request out that will tell it of each
\* pipe it has opened and not closed, and none for one that it has closed: two
\* would fill one buffer, and none would leave a pipe nobody listens to.
Listens ==
    (Idle /\ alive) =>
        \A p \in Pipes :
            Cardinality(Listeners(pending, p)) = IF stage[p] = "opened" THEN 1 ELSE 0

\* A client that has lost its connection ends.
BrokenConnectionEnds == ~alive ~> up # "run"
=============================================================================
