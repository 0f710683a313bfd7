---------------------------- MODULE SmbTransport ----------------------------
(***************************************************************************)
(* One SMB connection of the client library: requests that are sent,       *)
(* waited for and answered (libcli/raw/clitransport.c) in packets that are *)
(* queued and read (lib/stream/packet.c).  All of it runs in one event     *)
(* loop; a callback may block in an event loop of its own, in which        *)
(* everything but the reading of further replies goes on.                  *)
(*                                                                         *)
(* A request is known by its place in the order of sending; its mid, the   *)
(* number its reply carries, is chosen among 1..MaxMid, where 0 is no mid  *)
(* (MaxMid is 2^16 - 1).  pending_recv is the set of requests in state     *)
(* "recv": its head is the newest.  A packet goes out whole and comes in   *)
(* whole: reads cut a packet, but not its fate.  The server answers in any *)
(* order, or not at all.  Who is called back frees the request, and with   *)
(* it its timer, before anything else happens.  Left out: oplock breaks,   *)
(* readbraw, signing, requests that are cancelled or want no reply.        *)
(***************************************************************************)
EXTENDS Naturals

CONSTANTS
    MaxReq,   \* bound: requests sent over the connection
    MaxMid    \* the largest mid

ASSUME SmbAssumption == MaxReq \in Nat /\ MaxMid \in Nat \ {0}

VARIABLES
    nreq,       \* requests made so far
    status,     \* status[r]: smbcli_request.state, "gone" when it was destroyed
    from,       \* from[r]: the request whose reply answered r, 0 if none
    mid,        \* mid[r]: smbcli_request.mid
    timer,      \* timer[r]: r has a time-out
    packet,     \* packet[r]: where r's packet is: "queued" in send_queue, with
                \* the "server", its reply on the "wire", or "over"
    nextMid,    \* transport.next_mid
    broke,      \* "no", or what found that out: "reading" or "sending"
    processing, \* packet_context.processing: 1 while a callback runs, 2 if the
                \* socket became readable meanwhile
    readable,   \* EVENT_FD_READ of the socket
    writeable   \* EVENT_FD_WRITE of the socket

requests == <<nreq, status, from>>
events == <<processing, readable, writeable>>
vars == <<requests, mid, timer, packet, nextMid, broke, events>>

Req == 1..MaxReq
Mids == 1..MaxMid
Pending == {r \in Req : status[r] = "recv"}
Queued == {r \in Req : packet[r] = "queued"}
Alive == broke = "no"

Init ==
    /\ nreq = 0
    /\ status = [r \in Req |-> "none"]
    /\ from = [r \in Req |-> 0]
    /\ mid = [r \in Req |-> 0]
    /\ timer = [r \in Req |-> FALSE]
    /\ packet = [r \in Req |-> "none"]
    /\ nextMid = 0
    /\ broke = "no"
    /\ processing = 0
    /\ readable = TRUE
    /\ writeable = FALSE

-----------------------------------------------------------------------------
(* smbcli_transport_next_mid                                               *)

FirstMid == IF nextMid = 0 THEN 1 ELSE nextMid

\* Counting up from FirstMid, and from 1 again after MaxMid, u comes before m.
Before(u, m) ==
    IF FirstMid <= m THEN FirstMid <= u /\ u < m ELSE FirstMid <= u \/ u < m

Used(m) == \E r \in Pending : mid[r] = m

\* MUTANT of NextMid: the pending requests are not looked at.
NextMidAnyway(m) == m = FirstMid

\* The next mid that no pending request has.
NextMid(m) == ~Used(m) /\ \A u \in Mids : Before(u, m) => Used(u)

\* MUTANT of MidAfter: next_mid is a wider integer and does not wrap.
MidAfterWide(m) == m + 1

MidAfter(m) == IF m = MaxMid THEN 0 ELSE m + 1

\* r is the next request, with a mid of its own.
Numbered(r) ==
    /\ r = nreq + 1
    /\ r \in Req
    /\ nreq' = r
    /\ \E m \in Mids :
          /\ NextMid(m)
          /\ mid' = [mid EXCEPT ![r] = m]
          /\ nextMid' = MidAfter(m)

-----------------------------------------------------------------------------
(* The connection breaks.                                                  *)

\* smbcli_transport_dead: the socket and its events are gone; of the requests
\* that st has pending the first in the list is told, and only that one.
Dead(how, st) ==
    /\ broke' = how
    /\ LET waiting == {r \in Req : st[r] = "recv"} IN
       \/ waiting = {} /\ status' = st
       \/ \E r \in waiting :
             /\ \A s \in waiting : s <= r
             /\ status' = [st EXCEPT ![r] = "error"]

\* MUTANT of TimersAfter: the connection takes the timers with it.
NoTimers == [r \in Req |-> FALSE]

\* What the break leaves of the timers, which belong to the requests.
TimersAfter == timer

\* socket_recv() fails or finds the end of the stream.
ReadError ==
    /\ Alive
    /\ readable
    /\ processing = 0
    /\ Dead("reading", status)
    /\ timer' = TimersAfter
    /\ UNCHANGED <<nreq, from, mid, packet, nextMid, events>>

-----------------------------------------------------------------------------
(* smbcli_transport_send and packet_queue_run                              *)

\* MUTANT of StillWriteable: the queue that could not be sent is forgotten.
NeverWriteable(pk) == FALSE

\* The socket is watched for writing until the queue is empty.
StillWriteable(pk) == \E r \in Req : pk[r] = "queued"

\* packet_queue_run on the packets pk: the oldest go out, up to some n, and
\* more if the socket takes more; then either that is all it takes ...
QueueRun(pk, n) ==
    LET after == [r \in Req |-> IF pk[r] = "queued" /\ r <= n THEN "server" ELSE pk[r]]
    IN  /\ packet' = after
        /\ writeable' = StillWriteable(after)

\* ... or it fails.
SendError(st) ==
    /\ Dead("sending", st)
    /\ timer' = TimersAfter

\* The request r goes out or is queued, and is waited for with or without a
\* time-out.
Send(r) ==
    /\ Alive
    /\ Numbered(r)
    /\ \E n \in 0..r : QueueRun([packet EXCEPT ![r] = "queued"], n)
    /\ status' = [status EXCEPT ![r] = "recv"]
    /\ \E t \in BOOLEAN : timer' = [timer EXCEPT ![r] = t]
    /\ UNCHANGED <<from, broke, processing, readable>>

\* The connection is found broken, now or before: r is not sent, and it is up
\* to the caller to look at its state.
SendFails(r) ==
    /\ Numbered(r)
    /\ LET unsent == [status EXCEPT ![r] = "unsent"] IN
       IF Alive
       THEN SendError(unsent)
       ELSE status' = unsent /\ UNCHANGED <<broke, timer>>
    /\ UNCHANGED <<from, packet, events>>

\* The socket can be written again.
WriteEvent ==
    /\ Alive
    /\ writeable
    /\ \/ /\ \E n \in Queued : QueueRun(packet, n)
          /\ UNCHANGED <<status, broke, timer>>
       \/ /\ SendError(status)
          /\ UNCHANGED <<packet, writeable>>
    /\ UNCHANGED <<nreq, from, mid, nextMid, processing, readable>>

-----------------------------------------------------------------------------
(* packet_recv and smbcli_transport_finish_recv                            *)

\* The server answers q, or sends one more part of its answer.
Reply(q) ==
    /\ packet[q] = "server"
    /\ packet' = [packet EXCEPT ![q] = "wire"]
    /\ UNCHANGED <<requests, mid, timer, nextMid, broke, events>>

\* MUTANT of Match: a reply is taken for the first request in the list.
MatchHead(q, r) == \A s \in Pending : s <= r

\* r is the first in the list of pending requests with the mid of q's reply.
Match(q, r) ==
    /\ mid[r] = mid[q]
    /\ \A s \in Pending : mid[s] = mid[q] => s <= r

\* A reply is read, when the socket is watched and no callback is running.
Reads(q) ==
    /\ Alive
    /\ readable
    /\ processing = 0
    /\ packet[q] = "wire"

\* A request is answered: well, or by a reply that makes no sense.  It leaves
\* the list and its callback is run.
Answered(q) ==
    /\ Reads(q)
    /\ \E r \in Pending :
          /\ Match(q, r)
          /\ \E result \in {"done", "error"} : status' = [status EXCEPT ![r] = result]
          /\ from' = [from EXCEPT ![r] = q]
    /\ packet' = [packet EXCEPT ![q] = "over"]
    /\ processing' = 1
    /\ UNCHANGED <<nreq, mid, timer, nextMid, broke, readable, writeable>>

\* recv_helper wants more parts: the request stays in the list.
AnsweredInPart(q) ==
    /\ Reads(q)
    /\ \E r \in Pending : Match(q, r)
    /\ packet' = [packet EXCEPT ![q] = "server"]
    /\ UNCHANGED <<requests, mid, timer, nextMid, broke, events>>

\* A reply nobody waits for is dropped.
Unmatched(q) ==
    /\ Reads(q)
    /\ ~\E r \in Pending : Match(q, r)
    /\ packet' = [packet EXCEPT ![q] = "over"]
    /\ UNCHANGED <<requests, mid, timer, nextMid, broke, events>>

Receive(q) == Answered(q) \/ AnsweredInPart(q) \/ Unmatched(q)

\* The callback blocks in an event loop, and the socket is readable: it is
\* not watched any more until the callback has returned.
ReadableInCallback ==
    /\ Alive
    /\ readable
    /\ processing > 0
    /\ processing' = processing + 1
    /\ readable' = FALSE
    /\ UNCHANGED <<requests, mid, timer, packet, nextMid, broke, writeable>>

\* MUTANT of CallbackReturns: the socket stays unwatched.
CallbackForgets ==
    /\ processing > 0
    /\ processing' = 0
    /\ UNCHANGED <<requests, mid, timer, packet, nextMid, broke, readable, writeable>>

CallbackReturns ==
    /\ processing > 0
    /\ processing' = 0
    /\ readable' = (readable \/ processing > 1)
    /\ UNCHANGED <<requests, mid, timer, packet, nextMid, broke, writeable>>

-----------------------------------------------------------------------------
(* Requests end without an answer.                                         *)

\* smbcli_timeout_handler
Expire(r) ==
    /\ status[r] = "recv"
    /\ timer[r]
    /\ status' = [status EXCEPT ![r] = "error"]
    /\ UNCHANGED <<nreq, from, mid, timer, packet, nextMid, broke, events>>

\* smbcli_request_destructor: the caller frees the request; its packet goes
\* out and is answered all the same.
Destroy(r) ==
    /\ status[r] = "recv"
    /\ status' = [status EXCEPT ![r] = "gone"]
    /\ UNCHANGED <<nreq, from, mid, timer, packet, nextMid, broke, events>>

-----------------------------------------------------------------------------
User == (\E r \in Req : Send(r) \/ SendFails(r) \/ Destroy(r)) \/ CallbackReturns
EventLoop ==
    \/ ReadError \/ WriteEvent \/ ReadableInCallback
    \/ \E r \in Req : Receive(r) \/ Expire(r)
Server == \E q \in Req : Reply(q)

Next == User \/ EventLoop \/ Server

Spec == Init /\ [][Next]_vars

\* The event loop runs: replies are read in the order they came, timers go
\* off, the peer takes what is sent to it, and callbacks return.  The server
\* owes no reply, the user no request.
Fairness ==
    /\ \A r \in Req : WF_vars(Receive(r)) /\ WF_vars(Expire(r))
    /\ WF_vars(WriteEvent)
    /\ WF_vars(CallbackReturns)

FairSpec == Spec /\ Fairness

-----------------------------------------------------------------------------
(* Properties.                                                             *)

Statuses == {"none", "recv", "done", "error", "unsent", "gone"}
Places == {"none", "queued", "server", "wire", "over"}

\* Types of the variables.
TypeOK ==
    /\ nreq \in 0..MaxReq
    /\ status \in [Req -> Statuses]
    /\ from \in [Req -> 0..MaxReq]
    /\ mid \in [Req -> 0..MaxMid]
    /\ timer \in [Req -> BOOLEAN]
    /\ packet \in [Req -> Places]
    /\ nextMid \in 0..MaxMid
    /\ broke \in {"no", "reading", "sending"}
    /\ processing \in 0..2
    /\ readable \in BOOLEAN
    /\ writeable \in BOOLEAN

\* While the connection stands, nobody waits in vain: the packet of a request
\* that is waited for is in the queue, with the server or on its way back.  No
\* reply to another request, early or late, has used it up.
AwaitedIsComing ==
    Alive => \A r \in Pending : packet[r] \in {"queued", "server", "wire"}

\* A reply that arrived is read, even if the socket became readable while a
\* callback was blocked and was not watched for that time.
RepliesHandled == \A q \in Req : packet[q] = "wire" ~> (packet[q] # "wire" \/ ~Alive)

\* What the socket did not take at once goes out later.
AllGoesOut == \A r \in Req : packet[r] = "queued" ~> (packet[r] # "queued" \/ ~Alive)

\* A request with a time-out is never waited for without end, although only
\* one request is told when the connection breaks.
TimedRequestsEnd ==
    \A r \in Req : (status[r] = "recv" /\ timer[r]) ~> status[r] # "recv"

\* The transport does what SmbRequests says.
Requests == INSTANCE SmbRequests WITH alive <- Alive
ImplementsRequests == Requests!Spec
=============================================================================
