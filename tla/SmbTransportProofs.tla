------------------------- MODULE SmbTransportProofs -------------------------
(***************************************************************************)
(* Theorems about SmbTransport, for any number of requests and of mids.    *)
(***************************************************************************)
EXTENDS SmbTransport, TLAPS

\* What is not made yet is nowhere.
Made == \A r \in Req : status[r] # "none" \/ packet[r] # "none" => r <= nreq

\* A request has a mid that no older one is still waited for with.
MidsApart ==
    \A p, q \in Req : p < q /\ q <= nreq /\ status[p] = "recv" => mid[p] # mid[q]

\* The mids of the first requests are given in order.
FirstMids ==
    /\ \A r \in Req : r <= nreq /\ r <= MaxMid => mid[r] = r
    /\ nreq < MaxMid => FirstMid = nreq + 1

\* A reply is used for one request.
UsedUp == \A r \in Req : from[r] # 0 => packet[from[r]] = "over"

\* Whoever waits has a packet under way, also after the break.
Coming == \A r \in Req : status[r] = "recv" => packet[r] \in {"queued", "server", "wire"}

\* The socket that became readable in a callback is not watched.
Unwatched == processing = 2 => ~readable

IInv == TypeOK /\ Made /\ MidsApart /\ FirstMids /\ UsedUp /\ Coming /\ Unwatched

-----------------------------------------------------------------------------
(* Mids.                                                                   *)

\* The mid of a request that is made is new, and while there are mids that
\* were never given it is the next of these.
LEMMA NumberedMid ==
    ASSUME NEW r \in Req, Numbered(r), TypeOK, Made, FirstMids
    PROVE  \E m \in Mids : /\ mid' = [mid EXCEPT ![r] = m]
                           /\ \A s \in Req : status[s] = "recv" => mid[s] # m
                           /\ r <= MaxMid => m = r
                           /\ nextMid' = MidAfter(m)
<1>1. PICK m \in Mids : /\ NextMid(m)
                        /\ mid' = [mid EXCEPT ![r] = m]
                        /\ nextMid' = MidAfter(m)
  BY DEF Numbered
<1>2. \A s \in Req : status[s] = "recv" => mid[s] # m
  BY <1>1 DEF NextMid, Used, Pending
<1>3. ASSUME r <= MaxMid PROVE m = r
  <2>1. r = nreq + 1 /\ nreq \in Nat /\ MaxMid \in Nat /\ r \in Nat
    BY SmbAssumption DEF Numbered, TypeOK, Req
  <2>2. FirstMid = r /\ r \in Mids
    BY <2>1, <1>3 DEF FirstMids, Mids
  <2>3. ~Used(r)
    <3>1. SUFFICES ASSUME NEW s \in Req, status[s] = "recv", mid[s] = r PROVE FALSE
      BY DEF Used, Pending
    <3>2. s <= nreq /\ s \in Nat
      BY <3>1, <2>1 DEF Made, Req
    <3> QED BY <3>1, <3>2, <2>1, <1>3 DEF FirstMids
  <2>4. m # r => Before(r, m)
    BY <2>2, <2>1 DEF Before, Mids
  <2> QED BY <2>2, <2>3, <2>4, <1>1 DEF NextMid
<1> QED BY <1>1, <1>2, <1>3

\* What the numbering of a request keeps, whatever else the step does.
LEMMA NumberedKeeps ==
    ASSUME NEW r \in Req, Numbered(r), TypeOK, Made, MidsApart, FirstMids,
           NEW m \in Mids, mid' = [mid EXCEPT ![r] = m],
           \A s \in Req : status[s] = "recv" => mid[s] # m,
           r <= MaxMid => m = r,
           nextMid' = MidAfter(m),
           \A s \in Req \ {r} : status'[s] = "recv" => status[s] = "recv"
    PROVE  /\ nreq' \in 0..MaxReq
           /\ mid' \in [Req -> 0..MaxMid]
           /\ nextMid' \in 0..MaxMid
           /\ MidsApart'
           /\ FirstMids'
<1>1. /\ nreq' = r /\ r = nreq + 1 /\ r \in 1..MaxReq /\ r \in Nat /\ nreq \in Nat
      /\ MaxMid \in Nat \ {0} /\ MaxReq \in Nat /\ m \in 1..MaxMid
  BY SmbAssumption DEF Numbered, TypeOK, Req, Mids
<1>2. mid \in [Req -> 0..MaxMid]
  BY DEF TypeOK
<1>3. mid' \in [Req -> 0..MaxMid]
  BY <1>1, <1>2
<1>4. nextMid' \in 0..MaxMid
  BY <1>1 DEF MidAfter
<1>5. MidsApart'
  <2>1. SUFFICES ASSUME NEW p \in Req, NEW q \in Req, p < q, q <= r, status'[p] = "recv"
                 PROVE  mid'[p] # mid'[q]
    BY <1>1 DEF MidsApart
  <2>2. p \in Nat /\ q \in Nat /\ p # r /\ mid'[p] = mid[p] /\ status[p] = "recv"
    BY <2>1, <1>1, <1>2 DEF Req
  <2>3. CASE q = r
    BY <2>2, <2>3, <1>2
  <2>4. CASE q # r
    BY <2>1, <2>2, <2>4, <1>1, <1>2 DEF MidsApart
  <2> QED BY <2>3, <2>4
<1>6. FirstMids'
  <2>1. ASSUME NEW s \in Req, s <= r, s <= MaxMid PROVE mid'[s] = s
    <3>1. CASE s = r
      BY <3>1, <2>1, <1>2
    <3>2. CASE s # r
      BY <3>2, <2>1, <1>1, <1>2 DEF FirstMids, Req
    <3> QED BY <3>1, <3>2
  <2>2. r < MaxMid => nextMid' = r + 1
    BY <1>1 DEF MidAfter
  <2>3. r < MaxMid => (IF nextMid' = 0 THEN 1 ELSE nextMid') = r + 1
    BY <2>2, <1>1
  <2> QED BY <2>1, <2>3, <1>1 DEF FirstMids, FirstMid
<1> QED BY <1>1, <1>3, <1>4, <1>5, <1>6

-----------------------------------------------------------------------------
(* Replies.                                                                *)

\* A reply that has a pending request of its own is matched with it.
LEMMA MatchOwn ==
    ASSUME TypeOK, Made, MidsApart, NEW q \in Req, status[q] = "recv"
    PROVE  Match(q, q)
<1>1. ASSUME NEW s \in Pending, mid[s] = mid[q], ~(s <= q) PROVE FALSE
  <2>1. s \in Req /\ status[s] = "recv" /\ s <= nreq /\ q \in Nat /\ s \in Nat
    BY DEF Pending, Made, Req
  <2> QED BY <2>1, <1>1 DEF MidsApart
<1> QED BY <1>1 DEF Match

\* Who is matched with a reply is the one it answers, or newer, and then the
\* one it answers is not waited for and all mids were given before.
LEMMA MatchOther ==
    ASSUME TypeOK, Made, MidsApart, FirstMids,
           NEW q \in Req, packet[q] = "wire",
           NEW r \in Pending, Match(q, r), r # q
    PROVE  r > MaxMid /\ q < r /\ status[q] # "recv"
<1>1. /\ r \in Req /\ r \in Nat /\ q \in Nat /\ nreq \in Nat /\ MaxMid \in Nat
      /\ status[r] = "recv" /\ r <= nreq /\ q <= nreq /\ mid[r] = mid[q]
  BY SmbAssumption DEF Pending, Req, Made, TypeOK, Match
<1>2. q < r
  BY <1>1 DEF MidsApart
<1>3. status[q] # "recv"
  BY <1>1, <1>2 DEF MidsApart
<1>4. r > MaxMid
  <2>1. SUFFICES ASSUME r <= MaxMid PROVE FALSE
    BY <1>1
  <2>2. mid[r] = r /\ mid[q] = q
    BY <1>1, <1>2, <2>1 DEF FirstMids
  <2> QED BY <1>1, <1>2, <2>2
<1> QED BY <1>2, <1>3, <1>4

\* The break of the connection only ends the wait of one request.
LEMMA DeadTypes ==
    ASSUME NEW how \in {"reading", "sending"}, NEW st \in [Req -> Statuses], Dead(how, st)
    PROVE  /\ broke' \in {"no", "reading", "sending"}
           /\ status' \in [Req -> Statuses]
           /\ \A r \in Req : status'[r] = "recv" => st[r] = "recv"
           /\ \A r \in Req : status'[r] # "none" => st[r] # "none"
<1>1. CASE status' = st
  BY <1>1 DEF Dead
<1>2. CASE \E r \in {x \in Req : st[x] = "recv"} : status' = [st EXCEPT ![r] = "error"]
  <2>1. PICK r \in Req : st[r] = "recv" /\ status' = [st EXCEPT ![r] = "error"]
    BY <1>2
  <2> QED BY <2>1 DEF Dead, Statuses
<1> QED BY <1>1, <1>2 DEF Dead

\* A step that numbers no request, waits for none anew and brings back no
\* packet keeps what was said of the mids and of the packets.
LEMMA Keeps ==
    ASSUME IInv, UNCHANGED <<nreq, mid, nextMid>>,
           \A r \in Req : status'[r] = "recv" => status[r] = "recv",
           \A r \in Req : status'[r] # "none" => status[r] # "none"
    PROVE  /\ MidsApart' /\ FirstMids'
           /\ packet' = packet => Made' /\ Coming'
           /\ packet' = packet /\ from' = from => UsedUp'
<1>1. MidsApart'
  BY DEF IInv, MidsApart
<1>2. FirstMids'
  BY DEF IInv, FirstMids, FirstMid
<1>3. packet' = packet => Made' /\ Coming'
  BY DEF IInv, Made, Coming
<1>4. packet' = packet /\ from' = from => UsedUp'
  BY DEF IInv, UsedUp
<1> QED BY <1>1, <1>2, <1>3, <1>4

-----------------------------------------------------------------------------
(* The invariant.                                                          *)

LEMMA Initially == Init => IInv
<1> SUFFICES ASSUME Init PROVE IInv
  OBVIOUS
<1>1. TypeOK
  <2>1. nreq \in 0..MaxReq /\ nextMid \in 0..MaxMid /\ processing \in 0..2
    BY SmbAssumption, nreq = 0, nextMid = 0, processing = 0 DEF Init
  <2>4. readable \in BOOLEAN /\ writeable \in BOOLEAN /\ broke \in {"no", "reading", "sending"}
    BY Zenon DEF Init
  <2>2. "none" \in Statuses /\ "none" \in Places /\ 0 \in 0..MaxReq /\ 0 \in 0..MaxMid
    BY SmbAssumption DEF Statuses, Places
  <2>3. /\ status \in [Req -> Statuses] /\ packet \in [Req -> Places]
        /\ from \in [Req -> 0..MaxReq] /\ mid \in [Req -> 0..MaxMid]
        /\ timer \in [Req -> BOOLEAN]
    BY <2>2 DEF Init
  <2> QED BY <2>1, <2>3, <2>4 DEF TypeOK
<1>2. Made /\ MidsApart /\ UsedUp /\ Coming /\ Unwatched
  BY DEF Init, Made, MidsApart, UsedUp, Coming, Unwatched, Req
<1>3. FirstMids
  <2>1. \A r \in Req : ~(r <= 0)
    BY SmbAssumption DEF Req
  <2> QED BY <2>1 DEF Init, FirstMids, FirstMid
<1> QED BY <1>1, <1>2, <1>3 DEF IInv

LEMMA ReadErrorKeeps == IInv /\ ReadError => IInv'
<1> SUFFICES ASSUME IInv, ReadError PROVE IInv'
  OBVIOUS
<1>1. /\ broke' \in {"no", "reading", "sending"}
      /\ status' \in [Req -> Statuses]
      /\ \A r \in Req : status'[r] = "recv" => status[r] = "recv"
      /\ \A r \in Req : status'[r] # "none" => status[r] # "none"
  BY DeadTypes DEF ReadError, IInv, TypeOK
<1>2. TypeOK'
  BY <1>1 DEF IInv, TypeOK, ReadError, TimersAfter, events
<1>3. Made' /\ MidsApart' /\ FirstMids' /\ UsedUp' /\ Coming'
  BY <1>1, Keeps DEF ReadError
<1>4. Unwatched'
  BY DEF IInv, Unwatched, ReadError, events
<1> QED BY <1>2, <1>3, <1>4 DEF IInv

\* Running the queue only moves packets from it to the server.
LEMMA QueueRunTypes ==
    ASSUME NEW pk \in [Req -> Places], NEW n \in Nat, QueueRun(pk, n)
    PROVE  /\ packet' \in [Req -> Places]
           /\ writeable' \in BOOLEAN
           /\ \A q \in Req : \/ packet'[q] = pk[q]
                             \/ pk[q] = "queued" /\ packet'[q] = "server"
<1> DEFINE after == [q \in Req |-> IF pk[q] = "queued" /\ q <= n THEN "server" ELSE pk[q]]
<1>1. packet' = after /\ writeable' = StillWriteable(after)
  BY DEF QueueRun
<1>2. \A q \in Req : after[q] = pk[q] \/ (pk[q] = "queued" /\ after[q] = "server")
  OBVIOUS
<1>3. after \in [Req -> Places]
  BY DEF Places
<1>4. writeable' \in BOOLEAN
  BY <1>1, Zenon DEF StillWriteable
<1> HIDE DEF after
<1> QED BY <1>1, <1>2, <1>3, <1>4, Zenon

LEMMA WriteEventKeeps == IInv /\ WriteEvent => IInv'
<1> SUFFICES ASSUME IInv, WriteEvent PROVE IInv'
  OBVIOUS
<1>1. CASE /\ \E n \in Queued : QueueRun(packet, n)
           /\ UNCHANGED <<status, broke, timer>>
  <2>1. PICK n \in Nat : QueueRun(packet, n)
    BY <1>1, SmbAssumption DEF Queued, Req
  <2>2. /\ packet' \in [Req -> Places]
        /\ writeable' \in BOOLEAN
        /\ \A q \in Req : \/ packet'[q] = packet[q]
                          \/ packet[q] = "queued" /\ packet'[q] = "server"
    BY <2>1, QueueRunTypes DEF IInv, TypeOK
  <2>3. TypeOK'
    BY <2>2, <1>1 DEF IInv, TypeOK, WriteEvent
  <2>4. MidsApart' /\ FirstMids'
    BY <1>1, Keeps DEF WriteEvent
  <2>5. Made' /\ Coming'
    BY <2>2, <1>1 DEF IInv, Made, Coming, WriteEvent
  <2>6. UsedUp'
    <3>1. SUFFICES ASSUME NEW r \in Req, from[r] # 0 PROVE packet'[from[r]] = "over"
      BY DEF UsedUp, WriteEvent
    <3>2. from[r] \in Req /\ packet[from[r]] = "over"
      BY <3>1, SmbAssumption DEF IInv, TypeOK, UsedUp, Req
    <3> QED BY <3>2, <2>2
  <2>7. Unwatched'
    BY DEF IInv, Unwatched, WriteEvent
  <2> QED BY <2>3, <2>4, <2>5, <2>6, <2>7 DEF IInv
<1>2. CASE SendError(status) /\ UNCHANGED <<packet, writeable>>
  <2>1. /\ broke' \in {"no", "reading", "sending"}
        /\ status' \in [Req -> Statuses]
        /\ \A r \in Req : status'[r] = "recv" => status[r] = "recv"
        /\ \A r \in Req : status'[r] # "none" => status[r] # "none"
    BY <1>2, DeadTypes DEF SendError, IInv, TypeOK
  <2>2. TypeOK'
    BY <2>1, <1>2 DEF IInv, TypeOK, WriteEvent, SendError, TimersAfter
  <2>3. Made' /\ MidsApart' /\ FirstMids' /\ UsedUp' /\ Coming'
    BY <2>1, <1>2, Keeps DEF WriteEvent
  <2>4. Unwatched'
    BY DEF IInv, Unwatched, WriteEvent
  <2> QED BY <2>2, <2>3, <2>4 DEF IInv
<1> QED BY <1>1, <1>2 DEF WriteEvent

LEMMA SendKeeps ==
    ASSUME NEW r \in Req
    PROVE  IInv /\ Send(r) => IInv'
<1> SUFFICES ASSUME IInv, Send(r) PROVE IInv'
  OBVIOUS
<1>1. PICK m \in Mids : /\ mid' = [mid EXCEPT ![r] = m]
                        /\ \A s \in Req : status[s] = "recv" => mid[s] # m
                        /\ r <= MaxMid => m = r
                        /\ nextMid' = MidAfter(m)
  BY NumberedMid DEF Send, IInv
<1>2. /\ status \in [Req -> Statuses] /\ status' = [status EXCEPT ![r] = "recv"]
      /\ nreq' = r /\ r = nreq + 1 /\ nreq \in Nat
      /\ UNCHANGED <<from, broke, processing, readable>>
  BY DEF Send, Numbered, IInv, TypeOK
<1>3. \A s \in Req \ {r} : status'[s] = status[s]
  BY <1>2
<1>4. /\ nreq' \in 0..MaxReq
      /\ mid' \in [Req -> 0..MaxMid]
      /\ nextMid' \in 0..MaxMid
      /\ MidsApart'
      /\ FirstMids'
  BY <1>1, <1>3, NumberedKeeps DEF Send, IInv
<1>5. PICK n \in Nat : QueueRun([packet EXCEPT ![r] = "queued"], n)
  BY SmbAssumption DEF Send, Req
<1>6. [packet EXCEPT ![r] = "queued"] \in [Req -> Places]
  BY DEF IInv, TypeOK, Places
<1>7. /\ packet' \in [Req -> Places]
      /\ writeable' \in BOOLEAN
      /\ packet'[r] \in {"queued", "server"}
      /\ \A q \in Req \ {r} : \/ packet'[q] = packet[q]
                              \/ packet[q] = "queued" /\ packet'[q] = "server"
  BY <1>5, <1>6, QueueRunTypes DEF IInv, TypeOK
<1>8. timer' \in [Req -> BOOLEAN]
  BY DEF IInv, TypeOK, Send
<1>9. TypeOK'
  <2>1. status' \in [Req -> Statuses]
    BY <1>2 DEF Statuses
  <2> QED BY <2>1, <1>2, <1>4, <1>7, <1>8 DEF IInv, TypeOK
<1>10. Made'
  <2>1. SUFFICES ASSUME NEW q \in Req, q # r, status'[q] # "none" \/ packet'[q] # "none"
                 PROVE  q <= r
    BY <1>2, SmbAssumption DEF Made, Req
  <2>2. status[q] # "none" \/ packet[q] # "none"
    BY <2>1, <1>3, <1>7
  <2> QED BY <2>2, <1>2, SmbAssumption DEF IInv, Made, Req
<1>11. Coming'
  <2>1. ASSUME NEW q \in Req, q # r, status'[q] = "recv"
        PROVE  packet'[q] \in {"queued", "server", "wire"}
    BY <2>1, <1>3, <1>7 DEF IInv, Coming
  <2> QED BY <2>1, <1>7 DEF Coming
<1>12. UsedUp'
  <2>1. SUFFICES ASSUME NEW s \in Req, from[s] # 0 PROVE packet'[from[s]] = "over"
    BY <1>2 DEF UsedUp
  <2>2. from[s] \in Req /\ packet[from[s]] = "over"
    BY <2>1, SmbAssumption DEF IInv, TypeOK, UsedUp, Req
  <2>3. packet[r] = "none"
    BY <1>2, SmbAssumption DEF IInv, Made, Req
  <2> QED BY <2>2, <2>3, <1>7
<1>13. Unwatched'
  BY <1>2 DEF IInv, Unwatched
<1> QED BY <1>4, <1>9, <1>10, <1>11, <1>12, <1>13 DEF IInv

LEMMA SendFailsKeeps ==
    ASSUME NEW r \in Req
    PROVE  IInv /\ SendFails(r) => IInv'
<1> SUFFICES ASSUME IInv, SendFails(r) PROVE IInv'
  OBVIOUS
<1> DEFINE unsent == [status EXCEPT ![r] = "unsent"]
<1>1. PICK m \in Mids : /\ mid' = [mid EXCEPT ![r] = m]
                        /\ \A s \in Req : status[s] = "recv" => mid[s] # m
                        /\ r <= MaxMid => m = r
                        /\ nextMid' = MidAfter(m)
  BY NumberedMid DEF SendFails, IInv
<1>2. /\ status \in [Req -> Statuses] /\ broke \in {"no", "reading", "sending"}
      /\ timer \in [Req -> BOOLEAN]
      /\ nreq' = r /\ r = nreq + 1 /\ nreq \in Nat
      /\ UNCHANGED <<from, packet, events>>
  BY DEF SendFails, Numbered, IInv, TypeOK
<1>3. unsent \in [Req -> Statuses] /\ unsent[r] = "unsent" /\ \A s \in Req \ {r} : unsent[s] = status[s]
  BY <1>2 DEF Statuses
<1>4. /\ broke' \in {"no", "reading", "sending"}
      /\ status' \in [Req -> Statuses]
      /\ timer' = timer
      /\ \A s \in Req : status'[s] = "recv" => unsent[s] = "recv"
      /\ \A s \in Req : status'[s] # "none" => unsent[s] # "none"
  <2>1. CASE Dead("sending", unsent) /\ timer' = timer
    <3> HIDE DEF unsent
    <3> QED BY <2>1, <1>3, DeadTypes
  <2>2. CASE status' = unsent /\ UNCHANGED <<broke, timer>>
    BY <2>2, <1>2, <1>3
  <2> QED BY <2>1, <2>2 DEF SendFails, SendError, TimersAfter
<1>5. \A s \in Req : status'[s] = "recv" => s # r /\ status[s] = "recv"
  BY <1>3, <1>4
<1>6. \A s \in Req \ {r} : status'[s] # "none" => status[s] # "none"
  BY <1>3, <1>4
<1>7. /\ nreq' \in 0..MaxReq
      /\ mid' \in [Req -> 0..MaxMid]
      /\ nextMid' \in 0..MaxMid
      /\ MidsApart'
      /\ FirstMids'
  BY <1>1, <1>5, NumberedKeeps DEF SendFails, IInv
<1>8. TypeOK'
  BY <1>2, <1>4, <1>7 DEF IInv, TypeOK, events
<1>9. Made'
  <2>1. SUFFICES ASSUME NEW q \in Req, q # r, status'[q] # "none" \/ packet[q] # "none"
                 PROVE  q <= r
    BY <1>2, SmbAssumption DEF Made, Req
  <2>2. status[q] # "none" \/ packet[q] # "none"
    BY <2>1, <1>6
  <2> QED BY <2>2, <1>2, SmbAssumption DEF IInv, Made, Req
<1>10. Coming' /\ UsedUp'
  BY <1>2, <1>5 DEF IInv, Coming, UsedUp
<1>11. Unwatched'
  BY <1>2 DEF IInv, Unwatched, events
<1> QED BY <1>7, <1>8, <1>9, <1>10, <1>11 DEF IInv

LEMMA ReplyKeeps ==
    ASSUME NEW q \in Req
    PROVE  IInv /\ Reply(q) => IInv'
<1> SUFFICES ASSUME IInv, Reply(q) PROVE IInv'
  OBVIOUS
<1>1. /\ packet \in [Req -> Places] /\ packet[q] = "server"
      /\ packet' = [packet EXCEPT ![q] = "wire"]
      /\ UNCHANGED <<nreq, status, from, mid, timer, nextMid, broke, events>>
  BY DEF Reply, IInv, TypeOK, requests
<1>2. TypeOK'
  BY <1>1 DEF IInv, TypeOK, events, Places
<1>3. MidsApart' /\ FirstMids'
  BY <1>1, Keeps
<1>4. Made' /\ Coming'
  BY <1>1 DEF IInv, Made, Coming
<1>5. UsedUp'
  BY <1>1 DEF IInv, UsedUp
<1>6. Unwatched'
  BY <1>1 DEF IInv, Unwatched, events
<1> QED BY <1>2, <1>3, <1>4, <1>5, <1>6 DEF IInv

\* The reply to q is over and q is not waited for any more.
LEMMA OverKeeps ==
    ASSUME IInv, NEW q \in Req, packet[q] = "wire",
           packet' = [packet EXCEPT ![q] = "over"],
           \A s \in Req : status'[s] = "recv" => s # q /\ status[s] = "recv",
           \A s \in Req : status'[s] # "none" => status[s] # "none",
           \A s \in Req : from'[s] # from[s] => from'[s] = q,
           UNCHANGED nreq
    PROVE  Made' /\ Coming' /\ UsedUp'
<1>1. packet \in [Req -> Places]
  BY DEF IInv, TypeOK
<1>2. Made'
  BY <1>1 DEF IInv, Made
<1>3. Coming'
  BY <1>1 DEF IInv, Coming
<1>4. UsedUp'
  BY <1>1 DEF IInv, UsedUp
<1> QED BY <1>2, <1>3, <1>4

LEMMA AnsweredKeeps ==
    ASSUME NEW q \in Req
    PROVE  IInv /\ Answered(q) => IInv'
<1> SUFFICES ASSUME IInv, Answered(q) PROVE IInv'
  OBVIOUS
<1>1. /\ packet[q] = "wire" /\ packet' = [packet EXCEPT ![q] = "over"]
      /\ processing' = 1
      /\ UNCHANGED <<nreq, mid, timer, nextMid, broke, readable, writeable>>
  BY DEF Answered, Reads
<1>2. PICK r \in Pending, result \in {"done", "error"} :
          /\ Match(q, r)
          /\ status' = [status EXCEPT ![r] = result]
          /\ from' = [from EXCEPT ![r] = q]
  BY DEF Answered
<1>3. /\ r \in Req /\ status[r] = "recv" /\ result \in Statuses /\ result \notin {"recv", "none"}
      /\ status \in [Req -> Statuses] /\ from \in [Req -> 0..MaxReq] /\ packet \in [Req -> Places]
  BY DEF Pending, Statuses, IInv, TypeOK
<1>4. /\ \A s \in Req : status'[s] = "recv" => s # r /\ status[s] = "recv"
      /\ \A s \in Req : status'[s] # "none" => status[s] # "none"
      /\ \A s \in Req : from'[s] # from[s] => from'[s] = q
  BY <1>2, <1>3
<1>5. r # q => status[q] # "recv"
  BY <1>1, <1>2, MatchOther DEF IInv
<1>6. Made' /\ Coming' /\ UsedUp'
  BY <1>1, <1>4, <1>5, OverKeeps
<1>7. MidsApart' /\ FirstMids'
  BY <1>1, <1>4, Keeps
<1>8. TypeOK'
  <2>1. status' \in [Req -> Statuses] /\ from' \in [Req -> 0..MaxReq] /\ packet' \in [Req -> Places]
    BY <1>1, <1>2, <1>3, SmbAssumption DEF Req, Places
  <2> QED BY <2>1, <1>1 DEF IInv, TypeOK
<1>9. Unwatched'
  BY <1>1 DEF Unwatched
<1> QED BY <1>6, <1>7, <1>8, <1>9 DEF IInv

LEMMA AnsweredInPartKeeps ==
    ASSUME NEW q \in Req
    PROVE  IInv /\ AnsweredInPart(q) => IInv'
<1> SUFFICES ASSUME IInv, AnsweredInPart(q) PROVE IInv'
  OBVIOUS
<1>1. /\ packet \in [Req -> Places] /\ packet[q] = "wire"
      /\ packet' = [packet EXCEPT ![q] = "server"]
      /\ UNCHANGED <<nreq, status, from, mid, timer, nextMid, broke, events>>
  BY DEF AnsweredInPart, Reads, IInv, TypeOK, requests
<1>2. TypeOK'
  BY <1>1 DEF IInv, TypeOK, events, Places
<1>3. MidsApart' /\ FirstMids'
  BY <1>1, Keeps
<1>4. Made' /\ Coming'
  BY <1>1 DEF IInv, Made, Coming
<1>5. UsedUp'
  BY <1>1 DEF IInv, UsedUp
<1>6. Unwatched'
  BY <1>1 DEF IInv, Unwatched, events
<1> QED BY <1>2, <1>3, <1>4, <1>5, <1>6 DEF IInv

LEMMA UnmatchedKeeps ==
    ASSUME NEW q \in Req
    PROVE  IInv /\ Unmatched(q) => IInv'
<1> SUFFICES ASSUME IInv, Unmatched(q) PROVE IInv'
  OBVIOUS
<1>1. /\ packet \in [Req -> Places] /\ packet[q] = "wire"
      /\ packet' = [packet EXCEPT ![q] = "over"]
      /\ UNCHANGED <<nreq, status, from, mid, timer, nextMid, broke, events>>
  BY DEF Unmatched, Reads, IInv, TypeOK, requests
<1>2. status[q] # "recv"
  BY MatchOwn DEF Unmatched, IInv, Pending
<1>3. TypeOK'
  BY <1>1 DEF IInv, TypeOK, events, Places
<1>4. MidsApart' /\ FirstMids'
  BY <1>1, Keeps
<1>5. Made' /\ Coming' /\ UsedUp'
  BY <1>1, <1>2, OverKeeps
<1>6. Unwatched'
  BY <1>1 DEF IInv, Unwatched, events
<1> QED BY <1>3, <1>4, <1>5, <1>6 DEF IInv

LEMMA ReadableInCallbackKeeps == IInv /\ ReadableInCallback => IInv'
<1> SUFFICES ASSUME IInv, ReadableInCallback PROVE IInv'
  OBVIOUS
<1>1. /\ processing = 1 /\ processing' = 2 /\ readable' = FALSE
      /\ UNCHANGED <<nreq, status, from, mid, timer, packet, nextMid, broke, writeable>>
  BY DEF ReadableInCallback, IInv, TypeOK, Unwatched, requests
<1>2. TypeOK'
  <2>1. readable' \in BOOLEAN
    BY <1>1, Zenon
  <2>2. processing' \in 0..2
    BY <1>1
  <2> QED BY <1>1, <2>1, <2>2, Zenon DEF IInv, TypeOK
<1>3. Made' /\ MidsApart' /\ FirstMids' /\ UsedUp' /\ Coming'
  BY <1>1, Keeps
<1>4. Unwatched'
  BY <1>1 DEF Unwatched
<1> QED BY <1>2, <1>3, <1>4 DEF IInv

LEMMA CallbackReturnsKeeps == IInv /\ CallbackReturns => IInv'
<1> SUFFICES ASSUME IInv, CallbackReturns PROVE IInv'
  OBVIOUS
<1>1. /\ processing' = 0
      /\ UNCHANGED <<nreq, status, from, mid, timer, packet, nextMid, broke, writeable>>
  BY DEF CallbackReturns, requests
<1>2. TypeOK'
  <2>1. readable' \in BOOLEAN
    BY Zenon DEF CallbackReturns, IInv, TypeOK
  <2>2. processing' \in 0..2
    BY <1>1
  <2> QED BY <1>1, <2>1, <2>2, Zenon DEF IInv, TypeOK
<1>3. Made' /\ MidsApart' /\ FirstMids' /\ UsedUp' /\ Coming'
  BY <1>1, Keeps
<1>4. Unwatched'
  BY <1>1 DEF Unwatched
<1> QED BY <1>2, <1>3, <1>4 DEF IInv

LEMMA EndsKeeps ==
    ASSUME NEW r \in Req
    PROVE  IInv /\ (Expire(r) \/ Destroy(r)) => IInv'
<1> SUFFICES ASSUME IInv, Expire(r) \/ Destroy(r) PROVE IInv'
  OBVIOUS
<1>1. PICK end \in {"error", "gone"} :
          /\ status[r] = "recv" /\ status' = [status EXCEPT ![r] = end]
          /\ UNCHANGED <<nreq, from, mid, timer, packet, nextMid, broke, events>>
  BY DEF Expire, Destroy
<1>2. status \in [Req -> Statuses] /\ end \in Statuses /\ end \notin {"recv", "none"}
  BY DEF IInv, TypeOK, Statuses
<1>3. /\ \A s \in Req : status'[s] = "recv" => status[s] = "recv"
      /\ \A s \in Req : status'[s] # "none" => status[s] # "none"
  BY <1>1, <1>2
<1>4. TypeOK'
  <2>1. status' \in [Req -> Statuses]
    BY <1>1, <1>2
  <2> QED BY <2>1, <1>1 DEF IInv, TypeOK, events
<1>5. Made' /\ MidsApart' /\ FirstMids' /\ UsedUp' /\ Coming'
  BY <1>1, <1>3, Keeps
<1>6. Unwatched'
  BY <1>1 DEF IInv, Unwatched, events
<1> QED BY <1>4, <1>5, <1>6 DEF IInv

LEMMA StutterKeeps == IInv /\ UNCHANGED vars => IInv'
BY DEF IInv, TypeOK, Made, MidsApart, FirstMids, FirstMid, UsedUp, Coming, Unwatched,
       vars, requests, events

LEMMA StepKeeps == IInv /\ [Next]_vars => IInv'
BY ReadErrorKeeps, WriteEventKeeps, SendKeeps, SendFailsKeeps, ReplyKeeps, AnsweredKeeps,
   AnsweredInPartKeeps, UnmatchedKeeps, ReadableInCallbackKeeps, CallbackReturnsKeeps,
   EndsKeeps, StutterKeeps
   DEF Next, User, EventLoop, Server, Receive

THEOREM Invariant == Spec => []IInv
BY Initially, StepKeeps, PTL DEF Spec

\* The variables have their types, for any number of requests and of mids: the
\* mids wrap where the type of req->mid does (smbcli_transport_next_mid).
THEOREM TypeCorrect == Spec => []TypeOK
BY Invariant, PTL DEF IInv

\* Nobody waits in vain while the connection stands: replies do not use each
\* other up although mids are used again (smbcli_transport_finish_recv).
THEOREM NobodyWaitsInVain == Spec => []AwaitedIsComing
<1>1. IInv => AwaitedIsComing
  BY DEF IInv, Coming, AwaitedIsComing, Pending
<1> QED BY <1>1, Invariant, PTL

-----------------------------------------------------------------------------
(* The refinement.                                                         *)

\* The break of the connection is one step of the specification.
LEMMA DeadTells ==
    ASSUME NEW how \in {"reading", "sending"}, NEW st, Dead(how, st)
    PROVE  Requests!Told(st) /\ ~Alive'
<1>1. Requests!Waiting(st) = {r \in Req : st[r] = "recv"}
  BY DEF Requests!Waiting, Requests!Req, Req
<1>2. Requests!Told(st)
  BY <1>1 DEF Dead, Requests!Told
<1>3. ~Alive'
  BY DEF Dead, Alive
<1> QED BY <1>2, <1>3

LEMMA SendRefines ==
    ASSUME NEW r \in Req, Send(r)
    PROVE  Requests!Issue
BY DEF Send, Numbered, Alive, Requests!Issue, Requests!Req, Req

LEMMA SendFailsRefines ==
    ASSUME NEW r \in Req, SendFails(r)
    PROVE  Requests!IssueBreaks \/ Requests!Refuse
<1>1. r = nreq + 1 /\ nreq' = r /\ nreq + 1 \in Requests!Req /\ from' = from
  BY DEF SendFails, Numbered, Requests!Req, Req
<1>2. CASE Alive
  <2>1. Dead("sending", [status EXCEPT ![r] = "unsent"])
    BY <1>2, Zenon DEF SendFails, SendError
  <2>2. Requests!Told([status EXCEPT ![r] = "unsent"]) /\ ~Alive'
    BY <2>1, DeadTells
  <2> QED BY <1>1, <1>2, <2>2 DEF Requests!IssueBreaks
<1>3. CASE ~Alive
  <2>1. status' = [status EXCEPT ![r] = "unsent"] /\ UNCHANGED broke
    BY <1>3, Zenon DEF SendFails
  <2> QED BY <1>1, <1>3, <2>1 DEF Alive, Requests!Refuse
<1> QED BY <1>2, <1>3

LEMMA AnsweredRefines ==
    ASSUME IInv, NEW q \in Req, Answered(q)
    PROVE  \E r \in Requests!Req : Requests!Answer(r, q)
<1>1. PICK r \in Pending, result \in {"done", "error"} :
          /\ Match(q, r)
          /\ status' = [status EXCEPT ![r] = result]
          /\ from' = [from EXCEPT ![r] = q]
  BY DEF Answered
<1>2. packet[q] = "wire" /\ Alive /\ UNCHANGED <<nreq, broke>>
  BY DEF Answered, Reads
<1>3. r \in Req /\ r \in Requests!Waiting(status) /\ r \in Requests!Req
  BY DEF Pending, Requests!Waiting, Requests!Req, Req
<1>4. q = r \/ (r > MaxMid /\ q < r /\ q \notin Requests!Waiting(status))
  <2>1. ASSUME q # r PROVE r > MaxMid /\ q < r /\ status[q] # "recv"
    BY <1>1, <1>2, <2>1, MatchOther DEF IInv
  <2> QED BY <2>1 DEF Requests!Waiting
<1>5. \A s \in Requests!Req : from[s] # q
  BY <1>2, SmbAssumption DEF IInv, UsedUp, Req, Requests!Req
<1>6. UNCHANGED Alive
  BY <1>2 DEF Alive
<1> QED BY <1>1, <1>2, <1>3, <1>4, <1>5, <1>6 DEF Requests!Answer

LEMMA WriteEventRefines ==
    ASSUME WriteEvent
    PROVE  Requests!Break \/ UNCHANGED Requests!requestVars
<1>1. Alive /\ UNCHANGED <<nreq, from>>
  BY DEF WriteEvent
<1>2. CASE SendError(status)
  <2>1. Requests!Told(status) /\ ~Alive'
    BY <1>2, DeadTells DEF SendError
  <2> QED BY <1>1, <2>1 DEF Requests!Break
<1>3. CASE UNCHANGED <<status, broke, timer>>
  BY <1>1, <1>3 DEF Requests!requestVars, Alive
<1> QED BY <1>2, <1>3 DEF WriteEvent

LEMMA ReadErrorRefines ==
    ASSUME ReadError
    PROVE  Requests!Break
<1>1. Alive /\ Dead("reading", status) /\ UNCHANGED <<nreq, from>>
  BY DEF ReadError
<1>2. Requests!Told(status) /\ ~Alive'
  BY <1>1, DeadTells
<1> QED BY <1>1, <1>2 DEF Requests!Break

LEMMA EndsRefine ==
    ASSUME NEW r \in Req, Expire(r) \/ Destroy(r)
    PROVE  r \in Requests!Req /\ (Requests!Fail(r) \/ Requests!Forget(r))
BY DEF Expire, Destroy, Alive, Requests!Fail, Requests!Forget, Requests!Waiting, Requests!Req, Req

\* What the requests do not see.
LEMMA Unseen ==
    ASSUME UNCHANGED <<requests, broke>>
    PROVE  UNCHANGED Requests!requestVars
BY DEF requests, Alive, Requests!requestVars

LEMMA StepRefines == IInv /\ [Next]_vars => [Requests!Next]_(Requests!requestVars)
<1> SUFFICES ASSUME IInv, [Next]_vars PROVE Requests!Next \/ UNCHANGED Requests!requestVars
  OBVIOUS
<1>0. Requests!Req = Req
  BY DEF Requests!Req, Req
<1>1. ASSUME NEW r \in Req, Send(r) PROVE Requests!Next
  BY <1>1, SendRefines DEF Requests!Next
<1>2. ASSUME NEW r \in Req, SendFails(r) PROVE Requests!Next
  BY <1>2, SendFailsRefines DEF Requests!Next
<1>3. ASSUME NEW q \in Req, Receive(q) PROVE Requests!Next \/ UNCHANGED Requests!requestVars
  <2>1. CASE Answered(q)
    BY <1>0, <2>1, AnsweredRefines DEF Requests!Next
  <2>2. CASE AnsweredInPart(q)
    BY <2>2, Unseen DEF AnsweredInPart
  <2>3. CASE Unmatched(q)
    BY <2>3, Unseen DEF Unmatched
  <2> QED BY <1>3, <2>1, <2>2, <2>3 DEF Receive
<1>4. ASSUME NEW r \in Req, Expire(r) \/ Destroy(r) PROVE Requests!Next
  BY <1>4, EndsRefine DEF Requests!Next
<1>5. CASE ReadError
  BY <1>5, ReadErrorRefines DEF Requests!Next
<1>6. CASE WriteEvent
  BY <1>6, WriteEventRefines DEF Requests!Next
<1>7. CASE ReadableInCallback
  BY <1>7, Unseen DEF ReadableInCallback
<1>8. CASE CallbackReturns
  BY <1>8, Unseen DEF CallbackReturns
<1>9. ASSUME NEW q \in Req, Reply(q) PROVE UNCHANGED Requests!requestVars
  BY <1>9, Unseen DEF Reply
<1>10. CASE UNCHANGED vars
  BY <1>10, Unseen DEF vars
<1> QED BY <1>1, <1>2, <1>3, <1>4, <1>5, <1>6, <1>7, <1>8, <1>9, <1>10
        DEF Next, User, EventLoop, Server

LEMMA InitRefines == Init => Requests!Init
BY DEF Init, Alive, Requests!Init, Requests!Req, Req

\* The transport does what SmbRequests says, for any number of requests and of
\* mids: a request is answered once, by its own reply or an old one of its mid,
\* or told an error; a break is told to the newest request that waits.
THEOREM Refinement == Spec => ImplementsRequests
BY Invariant, InitRefines, StepRefines, PTL DEF Spec, ImplementsRequests, Requests!Spec

=============================================================================
