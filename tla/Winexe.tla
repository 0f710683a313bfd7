------------------------------- MODULE Winexe -------------------------------
(***************************************************************************)
(* One run of the winexe client (winexe.c, async.c) against the winexesvc  *)
(* service of a Windows host (winexesvc.c), over named pipes carried by    *)
(* one SMB connection.                                                     *)
(*                                                                         *)
(* The client is one thread: it handles one SMB reply, timer or signal at  *)
(* a time, and blocks in svc_install and svc_uninstall (flow names where). *)
(* The service runs server_loop and one handle_connection thread for each  *)
(* connection to the control pipe.  A handle to a pipe is the pipe's name  *)
(* and the number of the connection it belongs to, which is the number     *)
(* winexesvc puts into the names of the data pipes; 0 is no handle.        *)
(*                                                                         *)
(* The SMB server answers on one ordered stream, wire.  Writes, reads and  *)
(* closes take effect when they are sent, which the pace of the service    *)
(* hides; opens are served later.  Successful write replies, to which the  *)
(* client does nothing, are left out, and so is what stdin carries.  Data  *)
(* on stdout and stderr is counted in chunks of one read.  What the SMB    *)
(* client library does when the TCP connection breaks is not modelled.     *)
(***************************************************************************)
EXTENDS Integers, Sequences, FiniteSets

CONSTANTS
    MaxConn,      \* bound: connections to the control pipe
    MaxOut,       \* bound: chunks the command writes to stdout, and to stderr
    ExitCode,     \* the exit code of the command when it ends by itself
    CommandLines, \* the sets of the options --uninstall and --reinstall given
    FirstVersion, \* winexesvc.exe at the start: "none", "good" or "bad"
    Sticky        \* TRUE if the old winexesvc.exe may resist its deletion

Conns == 1..MaxConn
Streams == {"out", "err"}
DataPipes == {"in", "out", "err"}
Pipes == {"ctrl"} \cup DataPipes
Ends == Pipes \X Conns

ASSUME WinexeAssumption ==
    /\ MaxConn \in Nat \ {0}
    /\ MaxOut \in Nat
    /\ ExitCode \notin {"rc1", "rc99", "0x1234", "none"}
    /\ ExitCode \notin {"good", "bad", "error", "error:", "std_io_err"}
    /\ ExitCode \notin {"done", "failed", "chunk", "notfound", "busy"}
    /\ CommandLines \subseteq SUBSET {"uninstall", "reinstall"}
    /\ FirstVersion \in {"none", "good", "bad"}
    /\ Sticky \in BOOLEAN

VARIABLES
    flow,      \* where the client is: in a blocking call, "loop", or gone
    state,     \* winexe_context.state
    rc,        \* winexe_context.return_code
    activated, \* static flag of on_ctrl_pipe_error
    sigint,    \* disposition of SIGINT: "default" or "catch"
    abort,     \* abort_requested
    timers,    \* timed events armed by on_ctrl_pipe_open
    fd,        \* fd[p]: async_context.fd of pipe p
    ioRead,    \* ioRead[p]: handle in the cached io_read, 0 if NULL
    ioWrite,   \* ioWrite[p]: handle in the cached io_write, 0 if NULL
    ends,      \* client ends that are open on the SMB server
    met,       \* ends a client ever opened
    pending,   \* ends with a read waiting for data
    opening,   \* opens sent and not served
    wire,      \* replies of the SMB server not handled by the client
    flags,     \* options.flags: which of the two options were given
    exe,       \* winexesvc.exe on the host: "none", "good" or "bad"
    registered,\* the service exists in the host's service manager
    loop,      \* server_loop: "off", "create", "listen" or "ended"
    nconn,     \* conn_number
    inst,      \* server ends that exist and are not disconnected
    hpc,       \* hpc[k]: where handle_connection of k is
    inbox,     \* inbox[k]: command lines the handler has not read
    reply,     \* reply[k]: reply in the control pipe the client has not read
    buffered,  \* buffered[s]: chunks in stream s the client has not read
    proc,      \* the command's process
    owner,     \* the connection the command was started for, 0 if none
    ec,        \* ec of cmd_run, once it waited for the process
    watch,     \* the control pipe is being read while the process runs
    starts,    \* how often the command was started
    produced,  \* produced[s]: chunks the command wrote to stream s
    printed    \* printed[s]: chunks of s the client wrote out

client == <<state, rc, activated, sigint, abort, timers, fd>>
io == <<ioRead, ioWrite>>
smb == <<ends, met, pending, opening, wire>>
host == <<flags, exe, registered, loop, nconn>>
service == <<inst, hpc, inbox, reply>>
command == <<proc, owner, ec, watch, starts, produced>>
vars == <<flow, client, io, smb, host, service, buffered, command, printed>>

Up == flow \notin {"exited", "killed"}

\* The service process runs.
Running == loop # "off"

\* Replies: the result of a request on pipe p, with what it carries.
Reply(what, p, k, result) == [what |-> what, pipe |-> p, conn |-> k, result |-> result]

Init ==
    /\ flags \in CommandLines
    /\ flow = IF "reinstall" \in flags THEN "mainUninstall" ELSE "mainInstall"
    /\ state = "OPENING"
    /\ rc = "rc99"
    /\ activated = FALSE
    /\ sigint = "default"
    /\ abort = FALSE
    /\ timers = 0
    /\ fd = [p \in Pipes |-> 0]
    /\ ioRead = [p \in Pipes |-> 0]
    /\ ioWrite = [p \in Pipes |-> 0]
    /\ ends = {}
    /\ met = {}
    /\ pending = {}
    /\ opening = <<>>
    /\ wire = <<>>
    /\ exe = FirstVersion
    /\ registered = (FirstVersion # "none")
    /\ loop \in IF FirstVersion = "none" THEN {"off"} ELSE {"off", "listen"}
    /\ nconn = 0
    /\ inst = {}
    /\ hpc = [k \in Conns |-> "none"]
    /\ inbox = [k \in Conns |-> <<>>]
    /\ reply = [k \in Conns |-> "none"]
    /\ buffered = [s \in Streams |-> 0]
    /\ proc = "none"
    /\ owner = 0
    /\ ec = "none"
    /\ watch = FALSE
    /\ starts = 0
    /\ produced = [s \in Streams |-> 0]
    /\ printed = [s \in Streams |-> 0]

-----------------------------------------------------------------------------
(* Named pipes as the SMB server sees them.                                *)

Open(e) == e \in ends /\ e \in inst

HasData(e) ==
    \/ e[1] = "ctrl" /\ reply[e[2]] # "none"
    \/ e[1] \in Streams /\ buffered[e[1]] > 0

ReadReply(e) ==
    Reply("read", e[1], e[2], IF e[1] = "ctrl" THEN reply[e[2]] ELSE "chunk")

\* A read of end e that is sent after the replies w were queued: it takes
\* what is there, waits for more, or fails.
SendRead(e, w) ==
    \/ /\ e \in ends /\ HasData(e)
       /\ wire' = Append(w, ReadReply(e))
       /\ reply' = [k \in Conns |-> IF e = <<"ctrl", k>> THEN "none" ELSE reply[k]]
       /\ buffered' = [s \in Streams |-> IF s = e[1] THEN buffered[s] - 1 ELSE buffered[s]]
       /\ UNCHANGED pending
    \/ /\ Open(e) /\ ~HasData(e)
       /\ pending' = pending \cup {e}
       /\ wire' = w
       /\ UNCHANGED <<reply, buffered>>
    \/ /\ e \notin ends \/ (e \notin inst /\ ~HasData(e))
       /\ wire' = Append(w, Reply("read", e[1], e[2], "failed"))
       /\ UNCHANGED <<pending, reply, buffered>>

\* Lines written to control pipe k, and the reply if that fails.
Written(k, lines) ==
    inbox' = IF Open(<<"ctrl", k>>) THEN [inbox EXCEPT ![k] = @ \o lines] ELSE inbox
WriteFails(k, w) ==
    IF Open(<<"ctrl", k>>) THEN w ELSE Append(w, Reply("write", "ctrl", k, "failed"))

\* The reads of connection k that fail when its server ends of the pipes ps are
\* closed, which is done in this order.
FailedReads(k, ps) ==
    LET Of(p) == IF p \in ps /\ <<p, k>> \in inst \cap pending
                 THEN <<Reply("read", p, k, "failed")>> ELSE <<>>
    IN  Of("err") \o Of("out") \o Of("in") \o Of("ctrl")

-----------------------------------------------------------------------------
(* async.c: one context for each pipe, with cached request structures.     *)

\* Handle a request on p uses in a context whose fd is k: the cached one,
\* which is set from fd only when it is NULL.
Cached(cache, p, k) == IF cache[p] = 0 THEN k ELSE cache[p]

\* async_read(p) after w, in a context whose fd is k.
AsyncRead(p, k, w) ==
    LET h == Cached(ioRead, p, k) IN
    /\ ioRead' = [ioRead EXCEPT ![p] = h]
    /\ SendRead(<<p, h>>, w)

\* async_write(ctrl, lines) followed by async_read(ctrl), the end of every
\* callback of the control pipe that sends a command.
WriteThenRead(lines, k, w) ==
    LET h == Cached(ioWrite, "ctrl", k) IN
    /\ ioWrite' = [ioWrite EXCEPT !["ctrl"] = h]
    /\ Written(h, lines)
    /\ AsyncRead("ctrl", k, WriteFails(h, w))

\* async_close(p) after w, with the read of p that is under way withdrawn.
CloseReply(p, w) == Append(w, Reply("close", p, fd[p], "done"))
Closed(p) == <<p, fd[p]>>

-----------------------------------------------------------------------------
(* winexe.c: the end of the client.                                        *)

\* The process is gone: its SMB connection and all its handles with it.
ClientGone(how) ==
    /\ flow' = how
    /\ ends' = {}
    /\ UNCHANGED met
    /\ pending' = {}
    /\ opening' = <<>>
    /\ wire' = <<>>

\* exit_program: with --uninstall the service is removed first, while timers
\* still run and replies wait.
ExitProgram(w) ==
    IF "uninstall" \in flags
    THEN flow' = "exitUninstall" /\ wire' = w /\ UNCHANGED <<ends, met, pending, opening>>
    ELSE ClientGone("exited")

(* winexe.c: callbacks, each run by one reply at the head of the wire.     *)

Handles(what, result) ==
    /\ flow = "loop"
    /\ wire # <<>>
    /\ Head(wire).what = what
    /\ Head(wire).result \in result

\* async_open_recv and on_ctrl_pipe_open: the version is asked for, signals
\* are caught and one more timer is armed.
CtrlOpened ==
    /\ Handles("open", {"done"})
    /\ Head(wire).pipe = "ctrl"
    /\ fd' = [fd EXCEPT !["ctrl"] = Head(wire).conn]
    /\ state' = "GETTING_VERSION"
    /\ sigint' = "catch"
    /\ timers' = timers + 1
    /\ WriteThenRead(<<"get version">>, Head(wire).conn, Tail(wire))
    /\ UNCHANGED <<flow, rc, activated, abort, ends, met, opening, host, inst, hpc,
                   command, printed>>

\* async_open_recv for a data pipe: on_in_pipe_open registers stdin.
DataOpened ==
    /\ Handles("open", {"done"})
    /\ LET p == Head(wire).pipe IN
       /\ p \in DataPipes
       /\ fd' = [fd EXCEPT ![p] = Head(wire).conn]
       /\ AsyncRead(p, Head(wire).conn, Tail(wire))
    /\ UNCHANGED <<flow, state, rc, activated, sigint, abort, timers, ioWrite, ends, met,
                   opening, host, inst, hpc, inbox, command, printed>>

\* on_ctrl_pipe_error after a failed open: once, a missing pipe has the
\* service installed; anything else ends the client.
CtrlOpenFailed ==
    /\ Handles("open", {"notfound", "busy"})
    /\ Head(wire).pipe = "ctrl"
    /\ IF ~activated /\ Head(wire).result = "notfound"
       THEN /\ flow' = "errorInstall"
            /\ wire' = Tail(wire)
            /\ UNCHANGED <<rc, ends, met, pending, opening>>
       ELSE /\ rc' = "rc1"
            /\ ExitProgram(Tail(wire))
    /\ UNCHANGED <<state, activated, sigint, abort, timers, fd, io, host, service,
                   buffered, command, printed>>

\* on_in_pipe_error, on_out_pipe_error, on_err_pipe_error: the context is
\* closed, whether its open or its read failed.
DataFailed ==
    /\ Handles("open", {"notfound", "busy"}) \/ Handles("read", {"failed"})
    /\ LET p == Head(wire).pipe IN
       /\ p \in DataPipes
       /\ ends' = ends \ {Closed(p)}
       /\ UNCHANGED met
       /\ wire' = CloseReply(p, Tail(wire))
    /\ UNCHANGED <<flow, client, io, pending, opening, host, service, buffered, command,
                   printed>>

\* MUTANT of DataRead: a write that took all of a chunk is repeated.
DataReadTwice ==
    /\ Handles("read", {"chunk"})
    /\ LET p == Head(wire).pipe IN
       /\ printed' = [printed EXCEPT ![p] = @ + 2]
       /\ AsyncRead(p, fd[p], Tail(wire))
    /\ UNCHANGED <<flow, client, ioWrite, ends, met, opening, host, inst, hpc, inbox, command>>

\* on_out_pipe_read, on_err_pipe_read: the chunk is written out.
DataRead ==
    /\ Handles("read", {"chunk"})
    /\ LET p == Head(wire).pipe IN
       /\ printed' = [printed EXCEPT ![p] = @ + 1]
       /\ AsyncRead(p, fd[p], Tail(wire))
    /\ UNCHANGED <<flow, client, ioWrite, ends, met, opening, host, inst, hpc, inbox, command>>

\* on_ctrl_pipe_read, std_io_err: the three pipes are opened.
ReadStdIoErr ==
    /\ Handles("read", {"std_io_err"})
    /\ opening' = opening \o <<"in", "out", "err">>
    /\ AsyncRead("ctrl", fd["ctrl"], Tail(wire))
    /\ UNCHANGED <<flow, client, ioWrite, ends, met, host, inst, hpc, inbox, command, printed>>

\* on_ctrl_pipe_read, return_code.
ReadReturnCode ==
    /\ Handles("read", {ExitCode, "0x1234"})
    /\ rc' = Head(wire).result
    /\ AsyncRead("ctrl", fd["ctrl"], Tail(wire))
    /\ UNCHANGED <<flow, state, activated, sigint, abort, timers, fd, ioWrite, ends, met,
                   opening, host, inst, hpc, inbox, command, printed>>

\* MUTANT of ReadGoodVersion: the version is not compared.
ReadAnyVersion ==
    /\ Handles("read", {"good", "bad"})
    /\ state' = "RUNNING"
    /\ WriteThenRead(<<"set system", "run">>, fd["ctrl"], Tail(wire))
    /\ UNCHANGED <<flow, rc, activated, sigint, abort, timers, fd, ends, met, opening, host,
                   inst, hpc, command, printed>>

\* on_ctrl_pipe_read, version: the right one gets the command to run.
ReadGoodVersion ==
    /\ Handles("read", {"good"})
    /\ state' = "RUNNING"
    /\ WriteThenRead(<<"set system", "run">>, fd["ctrl"], Tail(wire))
    /\ UNCHANGED <<flow, rc, activated, sigint, abort, timers, fd, ends, met, opening, host,
                   inst, hpc, command, printed>>

\* MUTANT of ReadBadVersion: "error: ..." is taken for the answer "error".
ReadBadVersionOrError ==
    /\ \/ Handles("read", {"bad"})
       \/ Handles("read", {"error", "error:"}) /\ state = "GETTING_VERSION"
    /\ state' = "CLOSING_FOR_REINSTALL"
    /\ ends' = ends \ {Closed("ctrl")}
    /\ UNCHANGED met
    /\ ioRead' = [ioRead EXCEPT !["ctrl"] = Cached(ioRead, "ctrl", fd["ctrl"])]
    /\ wire' = Append(CloseReply("ctrl", Tail(wire)),
                      Reply("read", "ctrl", Cached(ioRead, "ctrl", fd["ctrl"]), "failed"))
    /\ UNCHANGED <<flow, rc, activated, sigint, abort, timers, fd, ioWrite, pending,
                   opening, host, service, buffered, command, printed>>

\* A wrong version, or an error instead of one: the control pipe is closed to
\* reinstall the service, and async_read_recv still sends its next read.
ReadBadVersion ==
    /\ \/ Handles("read", {"bad"})
       \/ Handles("read", {"error"}) /\ state = "GETTING_VERSION"
    /\ state' = "CLOSING_FOR_REINSTALL"
    /\ ends' = ends \ {Closed("ctrl")}
    /\ UNCHANGED met
    /\ ioRead' = [ioRead EXCEPT !["ctrl"] = Cached(ioRead, "ctrl", fd["ctrl"])]
    /\ wire' = Append(CloseReply("ctrl", Tail(wire)),
                      Reply("read", "ctrl", Cached(ioRead, "ctrl", fd["ctrl"]), "failed"))
    /\ UNCHANGED <<flow, rc, activated, sigint, abort, timers, fd, ioWrite, pending,
                   opening, host, service, buffered, command, printed>>

\* Any other error message is printed and nothing more, and so is the message
\* of a handler without memory: "error" followed by a colon is no command.
ReadOtherError ==
    /\ \/ Handles("read", {"error"}) /\ state # "GETTING_VERSION"
       \/ Handles("read", {"error:"})
    /\ AsyncRead("ctrl", fd["ctrl"], Tail(wire))
    /\ UNCHANGED <<flow, client, ioWrite, ends, met, opening, host, inst, hpc, inbox, command,
                   printed>>

\* MUTANTS of CtrlFailed: every failed read is ignored; an error of a pipe that
\* was open has the service installed and the pipe opened again.
CtrlFailedIgnored ==
    /\ Handles("read", {"failed"}) \/ Handles("write", {"failed"})
    /\ Head(wire).pipe = "ctrl"
    /\ wire' = Tail(wire)
    /\ UNCHANGED <<flow, client, io, ends, met, pending, opening, host, service, buffered,
                   command, printed>>
CtrlFailedRetried ==
    /\ Handles("read", {"failed"}) \/ Handles("write", {"failed"})
    /\ Head(wire).pipe = "ctrl"
    /\ IF activated
       THEN ExitProgram(Tail(wire))
       ELSE /\ flow' = "errorInstall"
            /\ wire' = Tail(wire)
            /\ UNCHANGED <<ends, met, pending, opening>>
    /\ UNCHANGED <<client, io, host, service, buffered, command, printed>>

\* on_ctrl_pipe_error after a failed read or write: the read that was sent
\* after the close is expected, the rest ends the client.
CtrlFailed ==
    /\ Handles("read", {"failed"}) \/ Handles("write", {"failed"})
    /\ Head(wire).pipe = "ctrl"
    /\ ioWrite' = IF Head(wire).what = "write" THEN [ioWrite EXCEPT !["ctrl"] = 0] ELSE ioWrite
    /\ IF Head(wire).what = "read" /\ state = "OPENING"
       THEN wire' = Tail(wire) /\ UNCHANGED <<flow, ends, met, pending, opening>>
       ELSE ExitProgram(Tail(wire))
    /\ UNCHANGED <<client, ioRead, host, service, buffered, command, printed>>

\* MUTANT of CloseDone: the cached write request survives the close.
CloseKeepsWrite ==
    /\ Handles("close", {"done"})
    /\ LET p == Head(wire).pipe IN
       /\ ioRead' = [ioRead EXCEPT ![p] = 0]
       /\ flow' = IF p = "ctrl" /\ state = "CLOSING_FOR_REINSTALL" THEN "reUninstall" ELSE flow
    /\ wire' = Tail(wire)
    /\ UNCHANGED <<client, ioWrite, ends, met, pending, opening, host, service, buffered,
                   command, printed>>

\* async_close_recv drops the cached requests; on_ctrl_pipe_close goes on to
\* reinstall the service.
CloseDone ==
    /\ Handles("close", {"done"})
    /\ LET p == Head(wire).pipe IN
       /\ ioRead' = [ioRead EXCEPT ![p] = 0]
       /\ ioWrite' = [ioWrite EXCEPT ![p] = 0]
       /\ flow' = IF p = "ctrl" /\ state = "CLOSING_FOR_REINSTALL" THEN "reUninstall" ELSE flow
    /\ wire' = Tail(wire)
    /\ UNCHANGED <<client, ends, met, pending, opening, host, service, buffered, command,
                   printed>>

\* timer: nothing but re-arming happens until a signal was caught; then
\* "Aborting..." is printed and one line is written, also while the client
\* blocks in svc_install or svc_uninstall, whose event loops run timers.
Timer ==
    /\ Up
    /\ timers > 0
    /\ abort
    /\ timers' = timers - 1
    /\ LET k == Cached(ioWrite, "ctrl", fd["ctrl"]) IN
       /\ ioWrite' = [ioWrite EXCEPT !["ctrl"] = k]
       /\ Written(k, <<"abort">>)
       /\ wire' = WriteFails(k, wire)
    /\ UNCHANGED <<flow, state, rc, activated, sigint, abort, fd, ioRead, ends, met, pending,
                   opening, host, inst, hpc, reply, buffered, command, printed>>

\* The first open of the control pipe, and the first read of it, carry the
\* time-out of the connection, which async_read sets to 0 once it has sent that
\* read: whatever is sent later waits without limit.
FirstReadAnswered ==
    /\ \E k \in Conns : hpc[k] \in {"flushLost", "lost"} /\ reply[k] = "none"
    /\ \A i \in DOMAIN wire : wire[i].pipe # "ctrl" \/ wire[i].what # "read"
OneConnection == Cardinality({e \in met : e[1] = "ctrl"}) = 1
Timed == \/ fd["ctrl"] = 0
         \/ state = "GETTING_VERSION" /\ OneConnection /\ ~FirstReadAnswered

\* smbcli_timeout_handler: the request fails, which ends the client; its
\* answer may be on the way.
RequestTimesOut ==
    /\ flow = "loop"
    /\ Timed
    /\ rc' = IF fd["ctrl"] = 0 THEN "rc1" ELSE rc
    /\ ExitProgram(wire)
    /\ UNCHANGED <<state, activated, sigint, abort, timers, fd, io, host, service, buffered,
                   command, printed>>

\* catch_alarm: the first signal is noted and restores the default, with
\* which the next one kills the client.
Signal ==
    /\ Up
    /\ IF sigint = "catch"
       THEN /\ abort' = TRUE
            /\ sigint' = "default"
            /\ UNCHANGED <<flow, ends, met, pending, opening, wire>>
       ELSE /\ ClientGone("killed")
            /\ UNCHANGED <<abort, sigint>>
    /\ UNCHANGED <<state, rc, activated, timers, fd, io, host, service, buffered, command,
                   printed>>

-----------------------------------------------------------------------------
(* service.c: the client's calls to the host's service manager, in which   *)
(* it blocks while the host, its own timers and signals go on.             *)

\* Server ends that close when the service process ends: all but those a
\* running command inherited.
Dying == IF proc = "running" THEN {e \in inst : e[1] = "ctrl"} ELSE inst

\* The service process ends, and every handler with it.
ServiceGone ==
    /\ loop' = "off"
    /\ hpc' = [k \in Conns |-> IF hpc[k] = "none" THEN "none" ELSE "gone"]
    /\ inst' = inst \ Dying
    /\ watch' = FALSE
    /\ UNCHANGED <<flags, nconn, inbox, reply, buffered, proc, owner, ec, starts,
                   produced>>

\* The file winexesvc.exe after an attempt to delete it.
Unlinked == IF Sticky THEN {"none", exe} ELSE {"none"}

\* MUTANT of SvcUninstall: the file is left where it is.
SvcUninstallKeepsFile ==
    IF registered
    THEN /\ registered' = FALSE
         /\ UNCHANGED exe
         /\ ServiceGone
    ELSE UNCHANGED <<host, service, buffered, command>>

\* svc_uninstall: without a service it fails; otherwise the service is
\* stopped and deleted and its file unlinked, unless that is still in use.
SvcUninstall ==
    IF registered
    THEN /\ registered' = FALSE
         /\ exe' \in Unlinked
         /\ ServiceGone
    ELSE UNCHANGED <<host, service, buffered, command>>

\* What a blocked client will find on its wire when the service ends: its reads
\* have failed, in any order.
LosesReads(stops) ==
    LET lost == IF stops THEN pending \cap Dying ELSE {} IN
    /\ pending' = pending \ lost
    /\ \E order \in [1..Cardinality(lost) -> lost] :
          /\ \A e \in lost : \E i \in DOMAIN order : order[i] = e
          /\ wire' = wire \o [i \in DOMAIN order |->
                                Reply("read", order[i][1], order[i][2], "failed")]

\* svc_UploadService and the rest of svc_install.  The file is kept when it
\* exists, or replaced under --reinstall, which fails while it is in use.
\* need_start is not initialised for a service that exists: it is either.
SvcInstall(done, failed) ==
    /\ UNCHANGED <<flags, nconn, service, buffered, command>>
    /\ \/ /\ "reinstall" \in flags /\ exe # "none" /\ (Running \/ Sticky)
          /\ UNCHANGED <<exe, registered, loop>>
          /\ failed
       \/ /\ ~("reinstall" \in flags /\ exe # "none" /\ Running)
          /\ exe' = IF exe = "none" \/ "reinstall" \in flags THEN "good" ELSE exe
          /\ registered' = TRUE
          /\ \E needStart \in IF registered THEN BOOLEAN ELSE {TRUE} :
                /\ loop' = IF needStart /\ ~Running THEN "create" ELSE loop
                /\ IF needStart = Running THEN failed ELSE done

\* main: what the calls return is ignored.
MainUninstall ==
    /\ flow = "mainUninstall"
    /\ SvcUninstall
    /\ LosesReads(registered)
    /\ flow' = "mainInstall"
    /\ UNCHANGED <<client, io, ends, met, opening, printed>>

MainInstall ==
    /\ flow = "mainInstall"
    /\ SvcInstall(TRUE, TRUE)
    /\ flow' = "loop"
    /\ opening' = <<"ctrl">>
    /\ UNCHANGED <<client, io, ends, met, pending, wire, printed>>

\* on_ctrl_pipe_error: the pipe is opened once more, or the client ends.
ErrorInstall ==
    /\ flow = "errorInstall"
    /\ SvcInstall(/\ activated' = TRUE
                  /\ opening' = <<"ctrl">>
                  /\ flow' = "loop"
                  /\ UNCHANGED <<rc, ends, met, pending, wire>>,
                  /\ rc' = "rc1"
                  /\ UNCHANGED activated
                  /\ ExitProgram(wire))
    /\ UNCHANGED <<state, sigint, abort, timers, fd, io, printed>>

\* on_ctrl_pipe_close: what the calls return is ignored again.
ReUninstall ==
    /\ flow = "reUninstall"
    /\ SvcUninstall
    /\ LosesReads(registered)
    /\ flow' = "reInstall"
    /\ UNCHANGED <<client, io, ends, met, opening, printed>>

ReInstall ==
    /\ flow = "reInstall"
    /\ SvcInstall(TRUE, TRUE)
    /\ flow' = "loop"
    /\ state' = "OPENING"
    /\ opening' = <<"ctrl">>
    /\ UNCHANGED <<rc, activated, sigint, abort, timers, fd, io, ends, met, pending, wire,
                   printed>>

\* exit_program under --uninstall: the process exits with the last call.
ExitUninstall ==
    /\ flow = "exitUninstall"
    /\ SvcUninstall
    /\ ClientGone("exited")
    /\ UNCHANGED <<client, io, printed>>

-----------------------------------------------------------------------------
(* winexesvc.c, server_loop.                                               *)

\* A pipe instance is created and waits for a client.
CreateInstance ==
    /\ loop = "create"
    /\ loop' = "listen"
    /\ UNCHANGED <<flow, client, io, smb, flags, exe, registered, nconn, service, buffered,
                   command, printed>>

\* CreatePipesSA or CreateNamedPipe fails: the thread returns, the service
\* process stays.
LoopEnds ==
    /\ loop = "create"
    /\ loop' = "ended"
    /\ UNCHANGED <<flow, client, io, smb, flags, exe, registered, nconn, service, buffered,
                   command, printed>>

\* Another client's connection takes the instance.
OtherClient ==
    /\ loop = "listen"
    /\ loop' = "create"
    /\ UNCHANGED <<flow, client, io, smb, flags, exe, registered, nconn, service, buffered,
                   command, printed>>

\* The SMB server serves the open of the control pipe.  With an instance, a
\* handler thread is created for the connection, which finds memory for its
\* buffer or not, or its pipe closed when that fails; without one the pipe does
\* not exist, or is busy while the instances of other connections do.
ServeCtrlOpen ==
    /\ opening # <<>> /\ Head(opening) = "ctrl"
    /\ opening' = Tail(opening)
    /\ IF loop = "listen"
       THEN LET k == nconn + 1 IN
            /\ k \in Conns
            /\ nconn' = k
            /\ loop' = "create"
            /\ ends' = ends \cup {<<"ctrl", k>>}
            /\ met' = met \cup {<<"ctrl", k>>}
            /\ wire' = Append(wire, Reply("open", "ctrl", k, "done"))
            /\ \/ /\ inst' = inst \cup {<<"ctrl", k>>}
                  /\ \E at \in {"gets", "nomem"} : hpc' = [hpc EXCEPT ![k] = at]
               \/ /\ hpc' = [hpc EXCEPT ![k] = "gone"]
                  /\ UNCHANGED inst
       ELSE /\ \E why \in IF Running THEN {"notfound", "busy"} ELSE {"notfound"} :
                  wire' = Append(wire, Reply("open", "ctrl", 0, why))
            /\ UNCHANGED <<nconn, loop, ends, met, inst, hpc>>
    /\ UNCHANGED <<flow, client, io, pending, flags, exe, registered, inbox, reply, buffered,
                   command, printed>>

\* The SMB server serves the open of a data pipe of the connection.
ServeDataOpen ==
    /\ opening # <<>> /\ Head(opening) # "ctrl"
    /\ opening' = Tail(opening)
    /\ LET e == <<Head(opening), fd["ctrl"]>> IN
       IF e \in inst
       THEN /\ ends' = ends \cup {e}
            /\ met' = met \cup {e}
            /\ wire' = Append(wire, Reply("open", e[1], e[2], "done"))
       ELSE /\ wire' = Append(wire, Reply("open", e[1], 0, "notfound"))
            /\ UNCHANGED <<ends, met>>
    /\ UNCHANGED <<flow, client, io, pending, host, service, buffered, command, printed>>

-----------------------------------------------------------------------------
(* winexesvc.c, handle_connection and the commands of cmd_table.           *)

\* hprintf: the message goes to the client's waiting read, or stays in the
\* pipe until FlushFileBuffers, the next step, sees it read.  Nothing is
\* written when the client is gone.
Hprintf(k, message) ==
    LET e == <<"ctrl", k>> IN
    IF e \in pending
    THEN /\ wire' = Append(wire, Reply("read", "ctrl", k, message))
         /\ pending' = pending \ {e}
         /\ UNCHANGED reply
    ELSE /\ reply' = IF e \in ends THEN [reply EXCEPT ![k] = message] ELSE reply
         /\ UNCHANGED <<wire, pending>>

Says(k, message, next) ==
    /\ Hprintf(k, message)
    /\ hpc' = [hpc EXCEPT ![k] = next]
    /\ UNCHANGED <<flow, client, io, ends, met, opening, host, buffered, printed>>

Moves(k, next) ==
    /\ hpc' = [hpc EXCEPT ![k] = next]
    /\ UNCHANGED <<flow, client, io, smb, host, inst, inbox, reply, buffered, printed>>

\* FlushFileBuffers on the control pipe.
Flushed(k) == reply[k] = "none" \/ <<"ctrl", k>> \notin ends
Flush(k, at, next) ==
    /\ hpc[k] = at
    /\ Flushed(k)
    /\ Moves(k, next)
    /\ UNCHANGED command

\* hgets finds a line, which the next step executes.
Gets(k, line) ==
    /\ hpc[k] = "gets"
    /\ inbox[k] # <<>>
    /\ Head(inbox[k]) = line
    /\ inbox' = [inbox EXCEPT ![k] = Tail(@)]

\* handle_connection without memory: it says so and returns, with the pipe
\* left open that nobody will read or close.
NoMemory(k) ==
    /\ hpc[k] = "nomem"
    /\ Says(k, "error:", "flushLost")
    /\ UNCHANGED <<inst, inbox, command>>

\* MUTANT of GetsEof: a line of length 0 is taken for a command.
GetsEofAgain(k) ==
    /\ hpc[k] = "gets"
    /\ inbox[k] = <<>>
    /\ <<"ctrl", k>> \notin ends
    /\ Moves(k, "gets")
    /\ UNCHANGED command

\* hgets fails: the client closed the pipe.
GetsEof(k) ==
    /\ hpc[k] = "gets"
    /\ inbox[k] = <<>>
    /\ <<"ctrl", k>> \notin ends
    /\ Moves(k, "finish")
    /\ UNCHANGED command

\* cmd_get; a service of another version answers with its own version or
\* does not know the command.
GetVersion(k) ==
    /\ Gets(k, "get version")
    /\ \E message \in IF exe = "good" THEN {"good"} ELSE {"bad", "error"} :
          Says(k, message, "flushAnswer")
    /\ UNCHANGED <<inst, command>>

\* cmd_set answers nothing.
SetSystem(k) ==
    /\ Gets(k, "set system")
    /\ UNCHANGED <<flow, client, io, smb, host, inst, hpc, reply, buffered, command, printed>>

\* A line that is no command: "abort" too, unless a command is running.
UnknownCommand(k) ==
    /\ Gets(k, "abort")
    /\ Says(k, "error", "flushAnswer")
    /\ UNCHANGED <<inst, command>>

\* cmd_run, up to the answer that names the pipes.
Run(k) ==
    /\ Gets(k, "run")
    /\ Says(k, "std_io_err", "flushPipes")
    /\ inst' = inst \cup {<<p, k>> : p \in DataPipes}
    /\ UNCHANGED command

\* get_token or CreateNamedPipe fails: an error, and the connection ends.
RunFails(k) ==
    /\ Gets(k, "run")
    /\ Says(k, "error", "flushFailure")
    /\ UNCHANGED <<inst, command>>

\* ConnectNamedPipe of in, out and err, one after another, each for as long as
\* the client does not open its end.
Connect(k, p, at, next) ==
    /\ hpc[k] = at
    /\ <<p, k>> \in ends
    /\ Moves(k, next)
    /\ UNCHANGED command

\* The client opened its end and closed it again.
ConnectFails(k, p, at) ==
    /\ hpc[k] = at
    /\ <<p, k>> \in met \ ends
    /\ Says(k, "error", "flushCode")
    /\ UNCHANGED <<inst, inbox, command>>

\* CreateProcessAsUser, and the read of one byte of the control pipe whose
\* completion is waited for beside the process.  A read that fails at once,
\* because the client is gone already, never signals its event.
CreateProcess(k) ==
    /\ hpc[k] = "create"
    /\ Moves(k, "wait")
    /\ proc' = "running"
    /\ owner' = k
    /\ starts' = starts + 1
    /\ watch' = (<<"ctrl", k>> \in ends)
    /\ UNCHANGED <<ec, produced>>

CreateProcessFails(k) ==
    /\ hpc[k] = "create"
    /\ Says(k, "error", "flushCode")
    /\ UNCHANGED <<inst, inbox, command>>

\* MUTANT of CtrlSignalled: only input counts.
InputSignalled(k) == inbox[k] # <<>>

\* The event of the control pipe: input, or the end of the client.
CtrlSignalled(k) == inbox[k] # <<>> \/ (watch /\ <<"ctrl", k>> \notin ends)

\* MUTANT of Terminate: the process is terminated whichever event came.
TerminateAnyway(k) ==
    /\ hpc[k] = "wait"
    /\ CtrlSignalled(k) \/ proc = "exited"
    /\ Moves(k, "flushOut")
    /\ ec' = "0x1234"
    /\ proc' = IF proc = "running" THEN "terminated" ELSE proc
    /\ UNCHANGED <<owner, watch, starts, produced>>

\* WaitForMultipleObjects prefers the control pipe.
Terminate(k) ==
    /\ hpc[k] = "wait"
    /\ CtrlSignalled(k)
    /\ Moves(k, "flushOut")
    /\ ec' = "0x1234"
    /\ proc' = IF proc = "running" THEN "terminated" ELSE proc
    /\ UNCHANGED <<owner, watch, starts, produced>>

ProcessDone(k) ==
    /\ hpc[k] = "wait"
    /\ ~CtrlSignalled(k)
    /\ proc = "exited"
    /\ Moves(k, "flushOut")
    /\ ec' = ExitCode
    /\ UNCHANGED <<proc, owner, watch, starts, produced>>

\* MUTANT of FlushStream: the result is sent without waiting for the reader.
FlushNothing(k, s, at, next) ==
    /\ hpc[k] = at
    /\ Moves(k, next)
    /\ UNCHANGED command

\* FlushFileBuffers on stdout, then on stderr.
FlushStream(k, s, at, next) ==
    /\ hpc[k] = at
    /\ buffered[s] = 0 \/ <<s, k>> \notin ends
    /\ Moves(k, next)
    /\ UNCHANGED command

ReturnCode(k) ==
    /\ hpc[k] = "code"
    /\ Says(k, ec, "flushCode")
    /\ UNCHANGED <<inst, inbox, command>>

\* DisconnectNamedPipe, of err first, drops what was not read and fails
\* waiting reads.
Disconnect(k, ps) ==
    LET gone == {<<p, k>> : p \in ps} \cap inst IN
    /\ inst' = inst \ gone
    /\ pending' = pending \ gone
    /\ wire' = wire \o FailedReads(k, ps)

DisconnectData(k) ==
    /\ hpc[k] = "disconnect"
    /\ Disconnect(k, DataPipes)
    /\ hpc' = [hpc EXCEPT ![k] = "finish"]
    /\ buffered' = [s \in Streams |-> 0]
    /\ UNCHANGED <<flow, client, io, ends, met, opening, host, inbox, reply, command, printed>>

Finish(k) ==
    /\ hpc[k] = "finish"
    /\ Flushed(k)
    /\ Disconnect(k, {"ctrl"})
    /\ hpc' = [hpc EXCEPT ![k] = "gone"]
    /\ UNCHANGED <<flow, client, io, ends, met, opening, host, inbox, reply, buffered,
                   command, printed>>

HandleConnection(k) ==
    \/ NoMemory(k) \/ Flush(k, "flushLost", "lost")
    \/ GetsEof(k) \/ GetVersion(k) \/ SetSystem(k) \/ UnknownCommand(k) \/ Run(k) \/ RunFails(k)
    \/ Flush(k, "flushAnswer", "gets")
    \/ Flush(k, "flushFailure", "finish")
    \/ Flush(k, "flushPipes", "connectIn")
    \/ Connect(k, "in", "connectIn", "connectOut") \/ ConnectFails(k, "in", "connectIn")
    \/ Connect(k, "out", "connectOut", "connectErr") \/ ConnectFails(k, "out", "connectOut")
    \/ Connect(k, "err", "connectErr", "create") \/ ConnectFails(k, "err", "connectErr")
    \/ CreateProcess(k) \/ CreateProcessFails(k) \/ Terminate(k) \/ ProcessDone(k)
    \/ FlushStream(k, "out", "flushOut", "flushErr")
    \/ FlushStream(k, "err", "flushErr", "code")
    \/ ReturnCode(k)
    \/ Flush(k, "flushCode", "disconnect")
    \/ DisconnectData(k) \/ Finish(k)

-----------------------------------------------------------------------------
(* The command, and what may happen to the host.                           *)

\* A chunk goes to the client's waiting read, or stays in the pipe; it is
\* lost once the client closed its end.
Produce(s) ==
    LET e == <<s, owner>> IN
    /\ proc = "running"
    /\ produced[s] < MaxOut
    /\ produced' = [produced EXCEPT ![s] = @ + 1]
    /\ IF e \in pending
       THEN /\ wire' = Append(wire, Reply("read", s, owner, "chunk"))
            /\ pending' = pending \ {e}
            /\ UNCHANGED buffered
       ELSE /\ buffered' = IF Open(e) THEN [buffered EXCEPT ![s] = @ + 1] ELSE buffered
            /\ UNCHANGED <<wire, pending>>
    /\ UNCHANGED <<flow, client, io, ends, met, opening, host, service, proc, owner, ec,
                   watch, starts, printed>>

\* The command ends; without a service the pipes it inherited end with it.
Exit ==
    /\ proc = "running"
    /\ proc' = "exited"
    /\ IF hpc[owner] = "gone"
       THEN Disconnect(owner, DataPipes)
       ELSE UNCHANGED <<inst, pending, wire>>
    /\ UNCHANGED <<flow, client, io, ends, met, opening, host, hpc, inbox, reply, buffered,
                   owner, ec, watch, starts, produced, printed>>

\* The service process is stopped by another client's --uninstall, or dies.
ServiceDies ==
    /\ Running
    /\ \/ UNCHANGED <<exe, registered>>
       \/ registered /\ registered' = FALSE /\ exe' \in Unlinked
    /\ ServiceGone
    /\ LosesReads(TRUE)
    /\ UNCHANGED <<flow, client, io, ends, met, opening, printed>>

-----------------------------------------------------------------------------
Callback ==
    \/ CtrlOpened \/ DataOpened \/ CtrlOpenFailed \/ DataFailed \/ DataRead
    \/ ReadStdIoErr \/ ReadReturnCode \/ ReadGoodVersion \/ ReadBadVersion
    \/ ReadOtherError \/ CtrlFailed \/ CloseDone
Blocked ==
    \/ MainUninstall \/ MainInstall \/ ErrorInstall \/ ReUninstall \/ ReInstall
    \/ ExitUninstall
Client == Callback \/ Blocked \/ Timer
SmbServer == ServeCtrlOpen \/ ServeDataOpen
ServerLoop == CreateInstance \/ LoopEnds
Command == Exit \/ \E s \in Streams : Produce(s)
Environment == Signal \/ RequestTimesOut \/ OtherClient \/ ServiceDies

Next ==
    \/ Client \/ SmbServer \/ ServerLoop \/ Command \/ Environment
    \/ \E k \in Conns : HandleConnection(k)

Spec == Init /\ [][Next]_vars

\* The client's event loop, the SMB server and the host's threads are
\* scheduled.  Nothing is owed by the user, by other clients, or by the
\* command: it may run forever.
Fairness ==
    /\ WF_vars(Callback) /\ WF_vars(Blocked) /\ WF_vars(Timer)
    /\ WF_vars(SmbServer) /\ WF_vars(ServerLoop)
    /\ \A k \in Conns : WF_vars(HandleConnection(k))
FairSpec == Spec /\ Fairness

-----------------------------------------------------------------------------
Handlers == {"none", "gets", "flushAnswer", "flushFailure", "flushPipes", "connectIn",
             "connectOut", "connectErr", "create", "wait", "flushOut", "flushErr", "code",
             "flushCode", "disconnect", "finish", "gone", "nomem", "flushLost", "lost"}
Codes == {ExitCode, "0x1234"}
Messages == {"good", "bad", "error", "error:", "std_io_err"} \cup Codes
Lines == {"get version", "set system", "run", "abort"}
Replies == [what : {"open", "read", "write", "close"}, pipe : Pipes, conn : 0..MaxConn,
            result : Messages \cup {"done", "failed", "chunk", "notfound", "busy"}]

\* Types of the variables.
TypeOK ==
    /\ flow \in {"mainUninstall", "mainInstall", "loop", "errorInstall", "reUninstall",
                 "reInstall", "exitUninstall", "exited", "killed"}
    /\ state \in {"OPENING", "GETTING_VERSION", "RUNNING", "CLOSING_FOR_REINSTALL"}
    /\ rc \in {"rc99", "rc1"} \cup Codes
    /\ activated \in BOOLEAN /\ abort \in BOOLEAN /\ watch \in BOOLEAN
    /\ registered \in BOOLEAN
    /\ sigint \in {"default", "catch"}
    /\ timers \in 0..MaxConn /\ nconn \in 0..MaxConn /\ owner \in 0..MaxConn
    /\ starts \in 0..MaxConn
    /\ fd \in [Pipes -> 0..MaxConn]
    /\ ioRead \in [Pipes -> 0..MaxConn] /\ ioWrite \in [Pipes -> 0..MaxConn]
    /\ ends \subseteq met /\ met \subseteq Ends /\ pending \subseteq Ends
    /\ inst \subseteq Ends
    /\ opening \in Seq(Pipes) /\ wire \in Seq(Replies)
    /\ flags \in CommandLines
    /\ exe \in {"none", "good", "bad"}
    /\ loop \in {"off", "create", "listen", "ended"}
    /\ hpc \in [Conns -> Handlers]
    /\ inbox \in [Conns -> Seq(Lines)]
    /\ reply \in [Conns -> Messages \cup {"none"}]
    /\ buffered \in [Streams -> 0..MaxOut]
    /\ proc \in {"none", "running", "exited", "terminated"}
    /\ ec \in Codes \cup {"none"}
    /\ produced \in [Streams -> 0..MaxOut] /\ printed \in [Streams -> 0..MaxOut]

\* The client knows a result only when the command came to it: its own exit
\* code only if it ended by itself, 0x1234 only if the user asked for an abort.
ResultIsEarned ==
    /\ rc = ExitCode => proc = "exited"
    /\ rc = "0x1234" => abort /\ proc \in {"exited", "terminated"}

\* Once the client knows the result, it has written out everything the command
\* wrote, whatever the order in which three pipes and the network deliver.
OutputComplete == rc \in Codes => printed = produced

\* The command is never started by a service of another version.
OnlyByItsVersion == [][starts' # starts => exe = "good"]_vars

\* A control pipe in use is used through its current handle: no request
\* structure cached before a reopen survives it, unless an abort used it while
\* the pipe was being opened and its failure, which ends the client, is on the
\* way.
Ending == \E i \in DOMAIN wire : wire[i].what = "write"
NoStaleHandle ==
    flow = "loop" /\ state \in {"GETTING_VERSION", "RUNNING"} =>
        {ioRead["ctrl"], ioWrite["ctrl"]} \subseteq {0, fd["ctrl"]} \/ (abort /\ Ending)

\* The client ends when its command does, and also when no command could be
\* started: it never waits on a control pipe with no read under way or to come.
\* What keeps it for ever is a handler that returned without memory.
ClientEnds ==
    \/ <>~Up
    \/ <>[](proc = "running")
    \/ <>[](\E k \in Conns : hpc[k] = "lost")

\* Only a service of another version is removed for its version: no answer of
\* the right one, not even that it has no memory, is taken for the answer of an
\* old one.
ReinstallsOnlyOther ==
    [][flow # "reUninstall" /\ flow' = "reUninstall" => exe # "good"]_vars

\* Reinstalled once, a service answers with the right version, and the client
\* does not reinstall it again, if its old file can be deleted.
ReinstalledOnce == [][ReadBadVersion => OneConnection]_vars

\* A command whose client vanished while its handler watched the control pipe
\* is terminated, unless the service itself is gone.
OrphanStops == (~Up /\ watch /\ proc = "running") ~> (proc # "running" \/ ~Running)

\* After the client is gone its handler ends, but for the calls in which
\* nothing wakes it: a pipe the client did not open, a command that runs on
\* and whose control pipe could not be watched.
Stuck(k) ==
    \/ hpc[k] \in {"connectIn", "connectOut", "connectErr"}
    \/ hpc[k] = "wait" /\ ~watch
HandlersEnd == \A k \in Conns : ~Up ~> (hpc[k] \in {"none", "gone", "lost"} \/ Stuck(k))

\* An abort that was caught ends the command for good, unless the client or
\* the service dies first: what "Aborting..." tells the user.
AbortStopsCommand == abort ~> (flow = "killed" \/ ~Running \/ [](proc # "running"))

\* svc_install "Start, Creates, Install service": after it the service runs.
InstallStarts == [][MainInstall => loop' # "off"]_vars

\* The program does what RemoteRun says: the command is started once, and its
\* result is known after it ended and all its output was shown.
Remote == INSTANCE RemoteRun WITH
    phase <- CASE proc = "none" -> "idle" [] proc = "running" -> "running" [] OTHER -> "ended",
    written <- produced,
    shown <- printed,
    result <- IF rc \in Codes THEN rc ELSE "unknown"
ImplementsRemoteRun == Remote!Spec
=============================================================================
