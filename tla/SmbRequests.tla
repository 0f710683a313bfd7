---------------------------- MODULE SmbRequests ----------------------------
(***************************************************************************)
(* What the SMB transport of libcli/raw (clitransport.c) promises those    *)
(* who send requests over one connection, whatever its packets, its queue  *)
(* and its socket do: a request that is waited for is answered at most     *)
(* once, by a reply of its own, or told an error.  Two things it does not  *)
(* promise: once more requests were sent than there are numbers for them,  *)
(* a late reply to a request that was given up may answer a newer one; and *)
(* when the connection breaks only the newest request that is waited for   *)
(* is told.                                                                *)
(***************************************************************************)
EXTENDS Naturals

CONSTANTS
    MaxReq,   \* bound: requests sent over the connection
    MaxMid    \* the largest number of a request, 2^16 - 1

VARIABLES
    nreq,     \* requests made so far, numbered from 1
    status,   \* status[r]: what became of request r
    from,     \* from[r]: the request whose reply r was answered by, 0 if none
    alive     \* the connection stands

requestVars == <<nreq, status, from, alive>>

Req == 1..MaxReq
Statuses == {"none", "recv", "done", "error", "unsent", "gone"}

Waiting(st) == {r \in Req : st[r] = "recv"}

Init ==
    /\ nreq = 0
    /\ status = [r \in Req |-> "none"]
    /\ from = [r \in Req |-> 0]
    /\ alive = TRUE

\* The newest of the requests that st waits for is told of the break.
Told(st) ==
    \/ Waiting(st) = {} /\ status' = st
    \/ \E r \in Waiting(st) :
          /\ \A s \in Waiting(st) : s <= r
          /\ status' = [st EXCEPT ![r] = "error"]

\* A request is sent and waited for.
Issue ==
    /\ alive
    /\ nreq + 1 \in Req
    /\ nreq' = nreq + 1
    /\ status' = [status EXCEPT ![nreq + 1] = "recv"]
    /\ UNCHANGED <<from, alive>>

\* A request cannot be sent: the caller sees that, and no callback is run.
Refuse ==
    /\ ~alive
    /\ nreq + 1 \in Req
    /\ nreq' = nreq + 1
    /\ status' = [status EXCEPT ![nreq + 1] = "unsent"]
    /\ UNCHANGED <<from, alive>>

\* Sending a request finds out that the connection is broken: an older one is
\* told, by its callback, and this one is not sent.
IssueBreaks ==
    /\ alive
    /\ nreq + 1 \in Req
    /\ nreq' = nreq + 1
    /\ Told([status EXCEPT ![nreq + 1] = "unsent"])
    /\ alive' = FALSE
    /\ UNCHANGED from

\* The reply to q answers r: its own, or an old one of the same number.
Answer(r, q) ==
    /\ alive
    /\ r \in Waiting(status)
    /\ \/ q = r
       \/ r > MaxMid /\ q < r /\ q \notin Waiting(status)
    /\ \A s \in Req : from[s] # q
    /\ from' = [from EXCEPT ![r] = q]
    /\ \E result \in {"done", "error"} : status' = [status EXCEPT ![r] = result]
    /\ UNCHANGED <<nreq, alive>>

\* The time-out of r.
Fail(r) ==
    /\ r \in Waiting(status)
    /\ status' = [status EXCEPT ![r] = "error"]
    /\ UNCHANGED <<nreq, from, alive>>

\* The caller gives up r: nobody will be told.
Forget(r) ==
    /\ r \in Waiting(status)
    /\ status' = [status EXCEPT ![r] = "gone"]
    /\ UNCHANGED <<nreq, from, alive>>

Break ==
    /\ alive
    /\ Told(status)
    /\ alive' = FALSE
    /\ UNCHANGED <<nreq, from>>

Next ==
    \/ Issue \/ Refuse \/ IssueBreaks \/ Break
    \/ \E r \in Req : Fail(r) \/ Forget(r) \/ \E q \in Req : Answer(r, q)

Spec == Init /\ [][Next]_requestVars
=============================================================================
