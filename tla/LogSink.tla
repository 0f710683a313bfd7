------------------------------ MODULE LogSink ------------------------------
(***************************************************************************)
(* What Socket/Server.cpp promises the clients of Socket/Client.cpp,       *)
(* whatever descriptors, threads and locks it uses: of the packets a       *)
(* client sends, each is written to the log at most once and none before   *)
(* it was sent.  The log has other lines too, for which nothing was        *)
(* received and which may look like a packet.  As long as it is calm,      *)
(* there is one at most for a connection and only if that one never sends  *)
(* a packet.                                                               *)
(***************************************************************************)
EXTENDS Naturals

CONSTANTS
    Conns,      \* the connections clients may open
    MaxPackets  \* bound: packets a client sends on one connection

VARIABLES
    sent,       \* sent[c]: packets client c has sent
    printed,    \* printed[c]: packets of c written to the log
    slipped,    \* slipped[c]: other lines written for c
    calm        \* all packets are alike and no connection has broken

sinkVars == <<sent, printed, slipped, calm>>

Init ==
    /\ sent = [c \in Conns |-> 0]
    /\ printed = [c \in Conns |-> 0]
    /\ slipped = [c \in Conns |-> 0]
    /\ calm \in BOOLEAN

Send(c) ==
    /\ sent[c] < MaxPackets
    /\ calm => slipped[c] = 0
    /\ sent' = [sent EXCEPT ![c] = @ + 1]
    /\ UNCHANGED <<printed, slipped, calm>>

Log(c) ==
    /\ printed[c] < sent[c]
    /\ printed' = [printed EXCEPT ![c] = @ + 1]
    /\ UNCHANGED <<sent, slipped, calm>>

Slip(c) ==
    /\ calm => slipped[c] = 0 /\ sent[c] = 0
    /\ slipped' = [slipped EXCEPT ![c] = @ + 1]
    /\ UNCHANGED <<sent, printed, calm>>

\* A connection breaks.
Break ==
    /\ calm /\ ~calm'
    /\ UNCHANGED <<sent, printed, slipped>>

Next == Break \/ \E c \in Conns : Send(c) \/ Log(c) \/ Slip(c)

Spec == Init /\ [][Next]_sinkVars
=============================================================================
