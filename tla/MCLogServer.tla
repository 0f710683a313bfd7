---------------------------- MODULE MCLogServer ----------------------------
(***************************************************************************)
(* LogServer for TLC, and what it does for clients that come one after      *)
(* another, as its authors ran it.                                         *)
(***************************************************************************)
EXTENDS LogServer

CONSTANTS c1, c2, c3

\* Client.cpp sends one fixed message: 24 bytes, scaled down to 1.
SameSize == [c \in Conns |-> 1]
\* Other messages of the same protocol: a longer one from c1.
MixedSize == [c \in Conns |-> IF c = c1 THEN 3 ELSE 1]
\* All of them are below 128.
ShortHdr == [c \in Conns |-> 1]

\* Two clients the server has not finished with.
Overlap == \E c, d \in Conns :
    c # d /\ {sock[c], sock[d]} \cap {"new"} = {} /\ pc[c] # "done" /\ pc[d] # "done"

\* Served one after another, while no connection breaks and threads and
\* descriptors can be had, clients get every packet they sent into the log,
\* although the cell of the connection before is still what the handler finds.
PrintsAllThatWasSent ==
    [](~Overlap /\ NoResets /\ up) =>
        \A c \in Conns : \A n \in 1..MaxPackets :
            (sent[c] = n /\ pc[c] # "nothread") ~> (printed[c] >= n \/ pc[c] = "nothread")
=============================================================================
