---------------------------- MODULE WinexeProofs ----------------------------
(***************************************************************************)
(* Theorems about Winexe, for any number of connections and of chunks.     *)
(***************************************************************************)
EXTENDS Winexe, SequenceTheorems, FiniteSetTheorems, TLAPS

Results == Messages \cup {"done", "failed", "chunk", "notfound", "busy"}
Answers(rs) == [what : {"open", "read", "write", "close"}, pipe : Pipes, conn : 0..MaxConn,
                result : rs]

\* Types of what takes part in the conversation.
HandleTypes ==
    /\ fd \in [Pipes -> 0..MaxConn]
    /\ ioRead \in [Pipes -> 0..MaxConn]
    /\ ioWrite \in [Pipes -> 0..MaxConn]
EndTypes ==
    /\ ends \subseteq Ends /\ pending \subseteq Ends /\ inst \subseteq Ends
    /\ opening \in Seq(Pipes)
ServiceTypes ==
    /\ exe \in {"none", "good", "bad"}
    /\ loop \in {"off", "create", "listen", "ended"}
    /\ hpc \in [Conns -> Handlers]
    /\ ec \in Codes \cup {"none"}

\* A handler that is past the wait for its process has a code to return.
CodeKnown == \A k \in Conns : hpc[k] \in {"flushOut", "flushErr", "code"} => ec \in Codes

\* Client and service say rs and ls to each other, and nothing else.
Speak(rs, ls) ==
    /\ wire \in Seq(Answers(rs))
    /\ reply \in [Conns -> (rs \cap Messages) \cup {"none"}]
    /\ inbox \in [Conns -> Seq(ls)]

\* As long as the file on the host is of another version, nobody has said that
\* it is the right one, and nobody was told to run the command.
Path == {"flushPipes", "connectIn", "connectOut", "connectErr", "create"}
OldIsSilent ==
    exe = "bad" =>
        /\ Speak(Results \ {"good"}, Lines \ {"run"})
        /\ \A k \in Conns : hpc[k] \notin Path

\* A service that runs has a file, and a handler a service.
HasFile == Running => exe # "none"
HasService == \A k \in Conns : hpc[k] \notin {"none", "gone"} => Running

Types == HandleTypes /\ EndTypes /\ ServiceTypes /\ CodeKnown /\ Speak(Results, Lines)
IInv == Types /\ OldIsSilent /\ HasFile /\ HasService

-----------------------------------------------------------------------------
LEMMA ConnsNat ==
    MaxConn \in Nat /\ Conns \subseteq 0..MaxConn /\ 0 \in 0..MaxConn /\ 0 \notin Conns
BY WinexeAssumption DEF Conns

LEMMA EndsFinite == IsFiniteSet(Ends)
<1>1. IsFiniteSet(Conns)
  BY ConnsNat, WinexeAssumption, FS_Interval DEF Conns
<1>2. IsFiniteSet(Pipes)
  <2>1. IsFiniteSet({"ctrl"}) /\ IsFiniteSet({"ctrl"} \cup {"in"})
    BY FS_Singleton, FS_AddElement
  <2>2. IsFiniteSet(({"ctrl"} \cup {"in"}) \cup {"out"})
    BY <2>1, FS_AddElement
  <2>3. IsFiniteSet((({"ctrl"} \cup {"in"}) \cup {"out"}) \cup {"err"})
    BY <2>2, FS_AddElement
  <2>4. Pipes = (({"ctrl"} \cup {"in"}) \cup {"out"}) \cup {"err"}
    BY DEF Pipes, DataPipes
  <2> QED BY <2>3, <2>4
<1> QED BY <1>1, <1>2, FS_Product DEF Ends

LEMMA InitInv == Init => IInv
<1> SUFFICES ASSUME Init PROVE IInv
  OBVIOUS
<1>1. HandleTypes
  BY ConnsNat DEF Init, HandleTypes
<1>2. EndTypes
  BY DEF Init, EndTypes
<1>3. ServiceTypes /\ CodeKnown
  BY WinexeAssumption DEF Init, ServiceTypes, CodeKnown, Handlers
<1>4. ASSUME NEW rs, NEW ls PROVE Speak(rs, ls)
  BY DEF Init, Speak
<1>5. OldIsSilent
  BY <1>4 DEF Init, OldIsSilent, Path
<1>6. HasFile /\ HasService
  BY DEF Init, HasFile, HasService, Running
<1> QED BY <1>1, <1>2, <1>3, <1>4, <1>5, <1>6 DEF IInv, Types

-----------------------------------------------------------------------------
(* What is said.                                                           *)

LEMMA Appending ==
    ASSUME NEW S, NEW w \in Seq(S), NEW r \in S
    PROVE  Append(w, r) \in Seq(S)
OBVIOUS

LEMMA Listing ==
    ASSUME NEW S, NEW a \in S, NEW b \in S
    PROVE  <<a>> \in Seq(S) /\ <<a, b>> \in Seq(S)
OBVIOUS

LEMMA Joining ==
    ASSUME NEW S, NEW v \in Seq(S), NEW w \in Seq(S)
    PROVE  v \o w \in Seq(S)
OBVIOUS

LEMMA Dropping ==
    ASSUME NEW S, NEW w \in Seq(S), w # <<>>
    PROVE  Tail(w) \in Seq(S) /\ Head(w) \in S
OBVIOUS

\* SendRead, for an end the client may have a handle of.
LEMMA SendReadSpeaks ==
    ASSUME EndTypes, NEW rs, rs \subseteq Results, {"failed", "chunk"} \subseteq rs,
           reply \in [Conns -> (rs \cap Messages) \cup {"none"}],
           NEW p \in Pipes, NEW h \in 0..MaxConn, NEW w \in Seq(Answers(rs)),
           SendRead(<<p, h>>, w)
    PROVE  /\ wire' \in Seq(Answers(rs))
           /\ reply' \in [Conns -> (rs \cap Messages) \cup {"none"}]
           /\ pending' \subseteq Ends
<1> DEFINE e == <<p, h>>
<1>1. e[1] = p /\ e[2] = h
  OBVIOUS
<1>2. e \in ends => h \in Conns
  BY DEF EndTypes, Ends
<1>3. Reply("read", p, h, "failed") \in Answers(rs) /\ Reply("read", p, h, "chunk") \in Answers(rs)
  BY DEF Reply, Answers
<1> HIDE DEF e
<1>4. CASE /\ e \in ends /\ HasData(e)
           /\ wire' = Append(w, ReadReply(e))
           /\ reply' = [k \in Conns |-> IF e = <<"ctrl", k>> THEN "none" ELSE reply[k]]
           /\ UNCHANGED pending
  <2>1. ReadReply(e) \in Answers(rs)
    <3>1. CASE p = "ctrl"
      <4>1. reply[h] \in rs
        BY <1>1, <1>2, <1>4, <3>1 DEF HasData, Streams
      <4> QED BY <4>1, <3>1, <1>1 DEF ReadReply, Reply, Answers
    <3>2. CASE p # "ctrl"
      BY <3>2, <1>1, <1>3 DEF ReadReply
    <3> QED BY <3>1, <3>2
  <2>2. wire' \in Seq(Answers(rs))
    BY <2>1, <1>4, Appending
  <2> QED BY <2>2, <1>4 DEF EndTypes
<1>5. CASE Open(e) /\ pending' = pending \cup {e} /\ wire' = w /\ UNCHANGED <<reply, buffered>>
  BY <1>5 DEF Open, EndTypes
<1>6. CASE /\ wire' = Append(w, Reply("read", e[1], e[2], "failed"))
           /\ UNCHANGED <<pending, reply, buffered>>
  <2>1. wire' \in Seq(Answers(rs))
    BY <1>1, <1>3, <1>6, Appending
  <2> QED BY <2>1, <1>6 DEF EndTypes
<1> QED BY <1>4, <1>5, <1>6 DEF SendRead, e

LEMMA AsyncReadSpeaks ==
    ASSUME HandleTypes, EndTypes, NEW rs, rs \subseteq Results, {"failed", "chunk"} \subseteq rs,
           reply \in [Conns -> (rs \cap Messages) \cup {"none"}],
           NEW p \in Pipes, NEW k \in 0..MaxConn, NEW w \in Seq(Answers(rs)),
           AsyncRead(p, k, w)
    PROVE  /\ wire' \in Seq(Answers(rs))
           /\ reply' \in [Conns -> (rs \cap Messages) \cup {"none"}]
           /\ pending' \subseteq Ends
           /\ ioRead' \in [Pipes -> 0..MaxConn]
<1>1. Cached(ioRead, p, k) \in 0..MaxConn
  BY DEF Cached, HandleTypes
<1>2. /\ ioRead' = [ioRead EXCEPT ![p] = Cached(ioRead, p, k)]
      /\ SendRead(<<p, Cached(ioRead, p, k)>>, w)
  BY DEF AsyncRead
<1>3. ioRead' \in [Pipes -> 0..MaxConn]
  BY <1>1, <1>2 DEF HandleTypes
<1> QED BY <1>1, <1>2, <1>3, SendReadSpeaks

\* Lines are written to one inbox, or fail.
LEMMA WritingSpeaks ==
    ASSUME NEW ls, inbox \in [Conns -> Seq(ls)], NEW lines \in Seq(ls), NEW k \in 0..MaxConn,
           Written(k, lines)
    PROVE  inbox' \in [Conns -> Seq(ls)]
<1>1. \A j \in Conns : inbox[j] \o lines \in Seq(ls)
  BY Joining
<1> QED BY <1>1 DEF Written

LEMMA WriteFailsSpeaks ==
    ASSUME NEW rs, "failed" \in rs, NEW w \in Seq(Answers(rs)), NEW k \in 0..MaxConn
    PROVE  WriteFails(k, w) \in Seq(Answers(rs))
<1>1. Reply("write", "ctrl", k, "failed") \in Answers(rs)
  BY DEF Reply, Answers, Pipes
<1> QED BY <1>1, Appending DEF WriteFails

LEMMA WriteThenReadSpeaks ==
    ASSUME HandleTypes, EndTypes, NEW rs, rs \subseteq Results, {"failed", "chunk"} \subseteq rs,
           NEW ls, inbox \in [Conns -> Seq(ls)], NEW lines \in Seq(ls),
           reply \in [Conns -> (rs \cap Messages) \cup {"none"}],
           NEW k \in 0..MaxConn, NEW w \in Seq(Answers(rs)),
           WriteThenRead(lines, k, w)
    PROVE  /\ Speak(rs, ls)'
           /\ pending' \subseteq Ends
           /\ ioRead' \in [Pipes -> 0..MaxConn]
           /\ ioWrite' \in [Pipes -> 0..MaxConn]
<1> DEFINE h == Cached(ioWrite, "ctrl", k)
<1>1. "ctrl" \in Pipes /\ h \in 0..MaxConn
  BY DEF Cached, HandleTypes, Pipes
<1>2. /\ ioWrite' = [ioWrite EXCEPT !["ctrl"] = h]
      /\ Written(h, lines)
      /\ AsyncRead("ctrl", k, WriteFails(h, w))
  BY DEF WriteThenRead
<1>3. ioWrite' \in [Pipes -> 0..MaxConn]
  BY <1>1, <1>2 DEF HandleTypes
<1> HIDE DEF h
<1>4. inbox' \in [Conns -> Seq(ls)]
  BY <1>1, <1>2, WritingSpeaks
<1>5. WriteFails(h, w) \in Seq(Answers(rs))
  BY <1>1, WriteFailsSpeaks
<1>6. /\ wire' \in Seq(Answers(rs))
      /\ reply' \in [Conns -> (rs \cap Messages) \cup {"none"}]
      /\ pending' \subseteq Ends
      /\ ioRead' \in [Pipes -> 0..MaxConn]
  BY <1>1, <1>2, <1>5, AsyncReadSpeaks
<1> QED BY <1>3, <1>4, <1>6 DEF Speak

LEMMA HprintfSpeaks ==
    ASSUME EndTypes, NEW rs, rs \subseteq Results,
           reply \in [Conns -> (rs \cap Messages) \cup {"none"}], wire \in Seq(Answers(rs)),
           NEW k \in Conns, NEW message \in rs \cap Messages, Hprintf(k, message)
    PROVE  /\ wire' \in Seq(Answers(rs))
           /\ reply' \in [Conns -> (rs \cap Messages) \cup {"none"}]
           /\ pending' \subseteq Ends
<1>1. Reply("read", "ctrl", k, message) \in Answers(rs)
  BY ConnsNat DEF Reply, Answers, Pipes
<1>2. Append(wire, Reply("read", "ctrl", k, message)) \in Seq(Answers(rs))
  BY <1>1, Appending
<1> QED BY <1>2 DEF Hprintf, EndTypes

LEMMA FailedReadsSpeak ==
    ASSUME EndTypes, NEW rs, "failed" \in rs, NEW k, NEW ps \in SUBSET Pipes
    PROVE  FailedReads(k, ps) \in Seq(Answers(rs))
<1> DEFINE Of(p) == IF p \in ps /\ <<p, k>> \in inst \cap pending
                    THEN <<Reply("read", p, k, "failed")>> ELSE <<>>
<1>1. ASSUME NEW p PROVE Of(p) \in Seq(Answers(rs))
  <2>1. CASE p \in ps /\ <<p, k>> \in inst \cap pending
    <3>1. p \in Pipes /\ k \in Conns
      BY <2>1 DEF EndTypes, Ends
    <3>2. Reply("read", p, k, "failed") \in Answers(rs)
      BY <3>1, ConnsNat DEF Reply, Answers
    <3> QED BY <2>1, <3>2
  <2>2. CASE ~(p \in ps /\ <<p, k>> \in inst \cap pending)
    BY <2>2
  <2> QED BY <2>1, <2>2
<1>2. FailedReads(k, ps) = Of("err") \o Of("out") \o Of("in") \o Of("ctrl")
  BY DEF FailedReads
<1> HIDE DEF Of
<1>3. Of("err") \o Of("out") \in Seq(Answers(rs))
  BY <1>1, Joining
<1>4. (Of("err") \o Of("out")) \o Of("in") \in Seq(Answers(rs))
  BY <1>1, <1>3, Joining
<1> QED BY <1>1, <1>2, <1>4, Joining

LEMMA LosesReadsSpeaks ==
    ASSUME EndTypes, NEW rs, "failed" \in rs, wire \in Seq(Answers(rs)), NEW stops,
           LosesReads(stops)
    PROVE  wire' \in Seq(Answers(rs)) /\ pending' \subseteq Ends
<1> DEFINE lost == IF stops THEN pending \cap Dying ELSE {}
<1>1. /\ pending' = pending \ lost
      /\ \E order \in [1..Cardinality(lost) -> lost] :
            wire' = wire \o [i \in DOMAIN order |->
                               Reply("read", order[i][1], order[i][2], "failed")]
  BY DEF LosesReads
<1>2. lost \subseteq Ends
  BY DEF EndTypes
<1>3. pending' \subseteq Ends
  BY <1>1 DEF EndTypes
<1> HIDE DEF lost
<1>4. PICK order \in [1..Cardinality(lost) -> lost] :
        wire' = wire \o [i \in DOMAIN order |->
                           Reply("read", order[i][1], order[i][2], "failed")]
  BY <1>1
<1> DEFINE failures == [i \in DOMAIN order |->
                           Reply("read", order[i][1], order[i][2], "failed")]
<1>5. Cardinality(lost) \in Nat
  <2>1. IsFiniteSet(lost)
    <3>1. IsFiniteSet(Ends)
      BY EndsFinite
    <3> QED BY <3>1, <1>2, FS_Subset
  <2> QED BY <2>1, FS_CardinalityType
<1>6. \A e \in Ends : Reply("read", e[1], e[2], "failed") \in Answers(rs)
  BY ConnsNat DEF Ends, Reply, Answers
<1>7. failures \in [1..Cardinality(lost) -> Answers(rs)]
  BY <1>2, <1>6
<1>8. failures \in Seq(Answers(rs))
  BY <1>5, <1>7, IsASeq
<1> QED BY <1>3, <1>4, <1>8, Joining

-----------------------------------------------------------------------------
(* Every step keeps to the words it is given.                              *)

\* Words that are enough for whoever speaks: the right version is named only by
\* a service that has it, and only then the command is run.
Enough(rs, ls) ==
    /\ rs \subseteq Results /\ Results \ {"good"} \subseteq rs
    /\ ls \subseteq Lines /\ Lines \ {"run"} \subseteq ls
    /\ "good" \in rs => "run" \in ls
    /\ exe = "good" => "good" \in rs

Talk(rs, ls) == HandleTypes /\ EndTypes /\ Speak(rs, ls)

LEMMA Words ==
    ASSUME NEW rs, NEW ls, Enough(rs, ls)
    PROVE  /\ rs \subseteq Results
           /\ {"failed", "chunk", "done", "notfound", "busy"} \subseteq rs
           /\ {"bad", "error", "error:", "std_io_err"} \subseteq rs \cap Messages
           /\ Codes \subseteq rs \cap Messages
           /\ \A l \in {"get version", "set system", "abort"} : l \in ls
BY WinexeAssumption DEF Enough, Results, Messages, Codes, Lines

LEMMA HeadOfWire ==
    ASSUME NEW rs, wire \in Seq(Answers(rs)), wire # <<>>
    PROVE  /\ Tail(wire) \in Seq(Answers(rs))
           /\ Head(wire).pipe \in Pipes /\ Head(wire).conn \in 0..MaxConn
           /\ Head(wire).result \in rs
<1>1. Tail(wire) \in Seq(Answers(rs)) /\ Head(wire) \in Answers(rs)
  BY Dropping
<1> QED BY <1>1 DEF Answers

LEMMA ExitTalks ==
    ASSUME NEW rs, NEW w \in Seq(Answers(rs)), EndTypes, ExitProgram(w)
    PROVE  /\ wire' \in Seq(Answers(rs)) /\ pending' \subseteq Ends /\ ends' \subseteq Ends
           /\ opening' \in Seq(Pipes)
<1>1. CASE "uninstall" \in flags
  BY <1>1 DEF ExitProgram, EndTypes
<1>2. CASE "uninstall" \notin flags
  <2>1. wire' = <<>> /\ opening' = <<>> /\ pending' = {} /\ ends' = {}
    BY <1>2 DEF ExitProgram, ClientGone
  <2> QED BY <2>1
<1> QED BY <1>1, <1>2

LEMMA CallbackTalks ==
    ASSUME NEW rs, NEW ls, Enough(rs, ls), Talk(rs, ls), Callback
    PROVE  Talk(rs, ls)'
<1> USE DEF Talk
<1>1. /\ rs \subseteq Results
      /\ {"failed", "chunk", "done", "notfound", "busy"} \subseteq rs
      /\ \A l \in {"get version", "set system", "abort"} : l \in ls
  BY Words
<1>2. /\ wire \in Seq(Answers(rs))
      /\ reply \in [Conns -> (rs \cap Messages) \cup {"none"}]
      /\ inbox \in [Conns -> Seq(ls)]
  BY DEF Speak
<1>3. wire # <<>>
  BY DEF Callback, CtrlOpened, DataOpened, CtrlOpenFailed, DataFailed, DataRead, ReadStdIoErr,
         ReadReturnCode, ReadGoodVersion, ReadBadVersion, ReadOtherError, CtrlFailed,
         CloseDone, Handles
<1>4. /\ Tail(wire) \in Seq(Answers(rs))
      /\ Head(wire).pipe \in Pipes /\ Head(wire).conn \in 0..MaxConn
      /\ Head(wire).result \in rs
  BY <1>2, <1>3, HeadOfWire
<1>5. "ctrl" \in Pipes /\ DataPipes \subseteq Pipes /\ \A p \in Pipes : fd[p] \in 0..MaxConn
  BY DEF Pipes, HandleTypes
<1>6. CASE CtrlOpened
  <2>1. <<"get version">> \in Seq(ls)
    <3>1. "get version" \in ls
      BY <1>1
    <3> QED BY <3>1, Listing
  <2>2. /\ Speak(rs, ls)' /\ pending' \subseteq Ends
        /\ ioRead' \in [Pipes -> 0..MaxConn] /\ ioWrite' \in [Pipes -> 0..MaxConn]
    BY <1>1, <1>2, <1>4, <1>6, <2>1, WriteThenReadSpeaks DEF CtrlOpened
  <2> QED BY <1>4, <1>6, <2>2 DEF CtrlOpened, HandleTypes, EndTypes
<1>7. CASE DataOpened
  <2>1. /\ wire' \in Seq(Answers(rs))
        /\ reply' \in [Conns -> (rs \cap Messages) \cup {"none"}]
        /\ pending' \subseteq Ends /\ ioRead' \in [Pipes -> 0..MaxConn]
    BY <1>1, <1>2, <1>4, <1>7, AsyncReadSpeaks DEF DataOpened
  <2> QED BY <1>2, <1>4, <1>7, <2>1 DEF DataOpened, HandleTypes, EndTypes, Speak
<1>8. CASE CtrlOpenFailed
  <2>1. /\ wire' \in Seq(Answers(rs)) /\ pending' \subseteq Ends /\ ends' \subseteq Ends
        /\ opening' \in Seq(Pipes)
    BY <1>4, <1>8, ExitTalks DEF CtrlOpenFailed, EndTypes
  <2> QED BY <1>2, <1>8, <2>1 DEF CtrlOpenFailed, HandleTypes, EndTypes, Speak, io, service, client
<1>9. CASE DataFailed
  <2>1. \A p \in Pipes : Reply("close", p, fd[p], "done") \in Answers(rs)
    BY <1>1, <1>5 DEF Reply, Answers
  <2>2. wire' \in Seq(Answers(rs))
    BY <1>4, <1>9, <2>1, Appending DEF DataFailed, CloseReply
  <2> QED BY <1>2, <1>9, <2>2
          DEF DataFailed, HandleTypes, EndTypes, Speak, io, service, client
<1>10. CASE DataRead
  <2>1. /\ wire' \in Seq(Answers(rs))
        /\ reply' \in [Conns -> (rs \cap Messages) \cup {"none"}]
        /\ pending' \subseteq Ends /\ ioRead' \in [Pipes -> 0..MaxConn]
    BY <1>1, <1>2, <1>4, <1>5, <1>10, AsyncReadSpeaks DEF DataRead
  <2> QED BY <1>2, <1>10, <2>1 DEF DataRead, HandleTypes, EndTypes, Speak, client
<1>11. CASE ReadStdIoErr
  <2>1. /\ wire' \in Seq(Answers(rs))
        /\ reply' \in [Conns -> (rs \cap Messages) \cup {"none"}]
        /\ pending' \subseteq Ends /\ ioRead' \in [Pipes -> 0..MaxConn]
    BY <1>1, <1>2, <1>4, <1>5, <1>11, AsyncReadSpeaks DEF ReadStdIoErr
  <2>2. opening' \in Seq(Pipes)
    <3>1. <<"in", "out", "err">> \in Seq(Pipes)
      BY DEF Pipes, DataPipes
    <3> QED BY <1>11, <3>1, Joining DEF ReadStdIoErr, EndTypes
  <2> QED BY <1>2, <1>11, <2>1, <2>2 DEF ReadStdIoErr, HandleTypes, EndTypes, Speak, client
<1>12. CASE ReadReturnCode \/ ReadOtherError
  <2>1. /\ wire' \in Seq(Answers(rs))
        /\ reply' \in [Conns -> (rs \cap Messages) \cup {"none"}]
        /\ pending' \subseteq Ends /\ ioRead' \in [Pipes -> 0..MaxConn]
    BY <1>1, <1>2, <1>4, <1>5, <1>12, AsyncReadSpeaks DEF ReadReturnCode, ReadOtherError
  <2> QED BY <1>2, <1>12, <2>1
          DEF ReadReturnCode, ReadOtherError, HandleTypes, EndTypes, Speak, client
<1>13. CASE ReadGoodVersion
  <2>1. "good" \in rs
    BY <1>4, <1>13 DEF ReadGoodVersion, Handles
  <2>2. <<"set system", "run">> \in Seq(ls)
    <3>1. "set system" \in ls /\ "run" \in ls
      BY <1>1, <2>1 DEF Enough
    <3> QED BY <3>1, Listing
  <2>3. /\ Speak(rs, ls)' /\ pending' \subseteq Ends
        /\ ioRead' \in [Pipes -> 0..MaxConn] /\ ioWrite' \in [Pipes -> 0..MaxConn]
    BY <1>1, <1>2, <1>4, <1>5, <1>13, <2>2, WriteThenReadSpeaks DEF ReadGoodVersion
  <2> QED BY <1>13, <2>3 DEF ReadGoodVersion, HandleTypes, EndTypes
<1>14. CASE ReadBadVersion
  <2>1. Cached(ioRead, "ctrl", fd["ctrl"]) \in 0..MaxConn
    BY <1>5 DEF Cached, HandleTypes
  <2>2. /\ Reply("close", "ctrl", fd["ctrl"], "done") \in Answers(rs)
        /\ Reply("read", "ctrl", Cached(ioRead, "ctrl", fd["ctrl"]), "failed") \in Answers(rs)
    BY <1>1, <1>5, <2>1 DEF Reply, Answers
  <2>3. wire' \in Seq(Answers(rs))
    BY <1>4, <1>14, <2>2, Appending DEF ReadBadVersion, CloseReply
  <2> QED BY <1>2, <1>14, <2>1, <2>3
          DEF ReadBadVersion, HandleTypes, EndTypes, Speak, service
<1>15. CASE CtrlFailed
  <2>1. /\ wire' \in Seq(Answers(rs)) /\ pending' \subseteq Ends /\ ends' \subseteq Ends
        /\ opening' \in Seq(Pipes)
    BY <1>4, <1>15, ExitTalks DEF CtrlFailed, EndTypes
  <2> QED BY <1>2, <1>15, <2>1, ConnsNat
          DEF CtrlFailed, HandleTypes, EndTypes, Speak, service, client
<1>16. CASE CloseDone
  BY <1>2, <1>4, <1>16, ConnsNat DEF CloseDone, HandleTypes, EndTypes, Speak, service, client
<1> QED
  BY <1>6, <1>7, <1>8, <1>9, <1>10, <1>11, <1>12, <1>13, <1>14, <1>15, <1>16 DEF Callback

LEMMA ServiceGoneTalks ==
    ASSUME NEW rs, NEW ls, Speak(rs, ls), EndTypes, ServiceGone
    PROVE  /\ inst' \subseteq Ends
           /\ reply' \in [Conns -> (rs \cap Messages) \cup {"none"}]
           /\ inbox' \in [Conns -> Seq(ls)]
BY DEF ServiceGone, Speak, EndTypes

LEMMA UninstallTalks ==
    ASSUME NEW rs, NEW ls, Speak(rs, ls), EndTypes, SvcUninstall
    PROVE  /\ inst' \subseteq Ends
           /\ reply' \in [Conns -> (rs \cap Messages) \cup {"none"}]
           /\ inbox' \in [Conns -> Seq(ls)]
<1>1. CASE registered
  BY <1>1, ServiceGoneTalks DEF SvcUninstall
<1>2. CASE ~registered
  BY <1>2 DEF SvcUninstall, service, Speak, EndTypes
<1> QED BY <1>1, <1>2

LEMMA BlockedTalks ==
    ASSUME NEW rs, NEW ls, Enough(rs, ls), Talk(rs, ls), Blocked
    PROVE  Talk(rs, ls)'
<1> USE DEF Talk
<1>1. "failed" \in rs /\ "ctrl" \in Pipes
  BY Words DEF Pipes
<1>2. /\ wire \in Seq(Answers(rs))
      /\ reply \in [Conns -> (rs \cap Messages) \cup {"none"}]
      /\ inbox \in [Conns -> Seq(ls)]
  BY DEF Speak
<1>3. <<"ctrl">> \in Seq(Pipes)
  BY <1>1, Listing
<1>4. CASE MainUninstall \/ ReUninstall
  <2>1. wire' \in Seq(Answers(rs)) /\ pending' \subseteq Ends
    BY <1>1, <1>2, <1>4, LosesReadsSpeaks DEF MainUninstall, ReUninstall
  <2>2. /\ inst' \subseteq Ends
        /\ reply' \in [Conns -> (rs \cap Messages) \cup {"none"}]
        /\ inbox' \in [Conns -> Seq(ls)]
    BY <1>4, UninstallTalks DEF MainUninstall, ReUninstall
  <2>3. UNCHANGED <<client, io, ends, opening>>
    BY <1>4 DEF MainUninstall, ReUninstall
  <2> QED BY <2>1, <2>2, <2>3 DEF client, io, HandleTypes, EndTypes, Speak
<1>5. CASE MainInstall \/ ReInstall
  <2>1. UNCHANGED <<fd, io, service, ends, pending, wire>> /\ opening' = <<"ctrl">>
    BY <1>5 DEF MainInstall, ReInstall, SvcInstall, client
  <2> QED BY <1>2, <1>3, <2>1 DEF io, service, HandleTypes, EndTypes, Speak
<1>6. CASE ErrorInstall
  <2>1. UNCHANGED <<fd, io, service>>
    BY <1>6 DEF ErrorInstall, SvcInstall
  <2>2. \/ opening' = <<"ctrl">> /\ UNCHANGED <<ends, pending, wire>>
        \/ ExitProgram(wire)
    BY <1>6 DEF ErrorInstall, SvcInstall
  <2>3. /\ wire' \in Seq(Answers(rs)) /\ pending' \subseteq Ends /\ ends' \subseteq Ends
        /\ opening' \in Seq(Pipes)
    BY <1>2, <1>3, <2>2, ExitTalks DEF EndTypes
  <2> QED BY <1>2, <2>1, <2>3 DEF io, service, HandleTypes, EndTypes, Speak
<1>7. CASE ExitUninstall
  <2>1. /\ inst' \subseteq Ends
        /\ reply' \in [Conns -> (rs \cap Messages) \cup {"none"}]
        /\ inbox' \in [Conns -> Seq(ls)]
    BY <1>7, UninstallTalks DEF ExitUninstall
  <2>2. wire' = <<>> /\ opening' = <<>> /\ pending' = {} /\ ends' = {} /\ UNCHANGED <<client, io>>
    BY <1>7 DEF ExitUninstall, ClientGone
  <2> QED BY <2>1, <2>2 DEF client, io, HandleTypes, EndTypes, Speak
<1> QED BY <1>4, <1>5, <1>6, <1>7 DEF Blocked

LEMMA TimerTalks ==
    ASSUME NEW rs, NEW ls, Enough(rs, ls), Talk(rs, ls), Timer
    PROVE  Talk(rs, ls)'
<1> USE DEF Talk
<1> DEFINE k == Cached(ioWrite, "ctrl", fd["ctrl"])
<1>1. k \in 0..MaxConn
  BY DEF Cached, HandleTypes, Pipes
<1>2. /\ ioWrite' = [ioWrite EXCEPT !["ctrl"] = k]
      /\ Written(k, <<"abort">>)
      /\ wire' = WriteFails(k, wire)
      /\ UNCHANGED <<fd, ioRead, ends, pending, opening, inst, reply>>
  BY DEF Timer
<1> HIDE DEF k
<1>3. "failed" \in rs /\ "abort" \in ls
  BY Words
<1>4. inbox' \in [Conns -> Seq(ls)]
  BY <1>1, <1>2, <1>3, Listing, WritingSpeaks DEF Speak
<1>5. wire' \in Seq(Answers(rs))
  BY <1>1, <1>2, <1>3, WriteFailsSpeaks DEF Speak
<1>6. ioWrite' \in [Pipes -> 0..MaxConn]
  BY <1>1, <1>2 DEF HandleTypes
<1> QED BY <1>2, <1>4, <1>5, <1>6 DEF HandleTypes, EndTypes, Speak

LEMMA EnvironmentTalks ==
    ASSUME NEW rs, NEW ls, Enough(rs, ls), Talk(rs, ls), Environment
    PROVE  Talk(rs, ls)'
<1> USE DEF Talk
<1>1. CASE Signal \/ RequestTimesOut
  <2>1. UNCHANGED <<fd, io, service>>
    BY <1>1 DEF Signal, RequestTimesOut
  <2>2. CASE UNCHANGED <<ends, pending, opening, wire>>
    BY <2>1, <2>2 DEF io, service, HandleTypes, EndTypes, Speak
  <2>3. CASE wire' = <<>> /\ opening' = <<>> /\ pending' = {} /\ ends' = {}
    BY <2>1, <2>3 DEF io, service, HandleTypes, EndTypes, Speak
  <2>4. UNCHANGED <<ends, pending, opening, wire>>
        \/ (wire' = <<>> /\ opening' = <<>> /\ pending' = {} /\ ends' = {})
    BY <1>1 DEF Signal, RequestTimesOut, ExitProgram, ClientGone
  <2> QED BY <2>2, <2>3, <2>4
<1>2. CASE OtherClient
  BY <1>2 DEF OtherClient, client, io, smb, service, HandleTypes, EndTypes, Speak
<1>3. CASE ServiceDies
  <2>1. "failed" \in rs
    BY Words
  <2>2. wire' \in Seq(Answers(rs)) /\ pending' \subseteq Ends
    BY <1>3, <2>1, LosesReadsSpeaks DEF ServiceDies, Speak
  <2>3. /\ inst' \subseteq Ends
        /\ reply' \in [Conns -> (rs \cap Messages) \cup {"none"}]
        /\ inbox' \in [Conns -> Seq(ls)]
    BY <1>3, ServiceGoneTalks DEF ServiceDies
  <2>4. UNCHANGED <<client, io, ends, opening>>
    BY <1>3 DEF ServiceDies
  <2> QED BY <2>2, <2>3, <2>4 DEF client, io, HandleTypes, EndTypes, Speak
<1> QED BY <1>1, <1>2, <1>3 DEF Environment

LEMMA ServerTalks ==
    ASSUME NEW rs, NEW ls, Enough(rs, ls), Talk(rs, ls), SmbServer \/ ServerLoop
    PROVE  Talk(rs, ls)'
<1> USE DEF Talk
<1>1. {"done", "notfound", "busy"} \subseteq rs
  BY Words
<1>2. CASE ServerLoop
  BY <1>2 DEF ServerLoop, CreateInstance, LoopEnds, client, io, smb, service, HandleTypes,
              EndTypes, Speak
<1>3. ASSUME opening # <<>>, opening' = Tail(opening)
      PROVE  opening' \in Seq(Pipes) /\ Head(opening) \in Pipes
  BY <1>3, Dropping DEF EndTypes
<1>4. CASE ServeCtrlOpen
  <2>1. /\ UNCHANGED <<fd, ioRead, ioWrite, pending, inbox, reply>>
        /\ opening' \in Seq(Pipes)
    BY <1>3, <1>4 DEF ServeCtrlOpen, client, io
  <2>2. CASE loop = "listen"
    <3>1. PICK k \in Conns :
            /\ ends' = ends \cup {<<"ctrl", k>>}
            /\ wire' = Append(wire, Reply("open", "ctrl", k, "done"))
            /\ inst' \subseteq inst \cup {<<"ctrl", k>>}
      BY <1>4, <2>2 DEF ServeCtrlOpen
    <3>2. <<"ctrl", k>> \in Ends
      BY DEF Ends, Pipes
    <3>3. Reply("open", "ctrl", k, "done") \in Answers(rs)
      BY <1>1, ConnsNat DEF Reply, Answers, Pipes
    <3>4. wire' \in Seq(Answers(rs))
      BY <3>1, <3>3, Appending DEF Speak
    <3> QED BY <2>1, <3>1, <3>2, <3>4 DEF HandleTypes, EndTypes, Speak
  <2>3. CASE loop # "listen"
    <3>1. PICK why \in {"notfound", "busy"} :
            wire' = Append(wire, Reply("open", "ctrl", 0, why))
      BY <1>4, <2>3 DEF ServeCtrlOpen
    <3>2. UNCHANGED <<ends, inst>>
      BY <1>4, <2>3 DEF ServeCtrlOpen
    <3>3. Reply("open", "ctrl", 0, why) \in Answers(rs)
      BY <1>1, ConnsNat DEF Reply, Answers, Pipes
    <3>4. wire' \in Seq(Answers(rs))
      BY <3>1, <3>3, Appending DEF Speak
    <3> QED BY <2>1, <3>2, <3>4 DEF HandleTypes, EndTypes, Speak
  <2> QED BY <2>2, <2>3
<1>5. CASE ServeDataOpen
  <2>1. /\ UNCHANGED <<fd, ioRead, ioWrite, pending, inst, inbox, reply>>
        /\ opening' \in Seq(Pipes) /\ Head(opening) \in Pipes
    BY <1>3, <1>5 DEF ServeDataOpen, client, io, service
  <2> DEFINE e == <<Head(opening), fd["ctrl"]>>
  <2>2. CASE e \in inst
    <3>1. /\ ends' = ends \cup {e}
          /\ wire' = Append(wire, Reply("open", e[1], e[2], "done"))
      BY <1>5, <2>2 DEF ServeDataOpen
    <3>2. e \in Ends /\ e[1] \in Pipes /\ e[2] \in 0..MaxConn
      BY <2>2, ConnsNat DEF EndTypes, Ends
    <3>3. Reply("open", e[1], e[2], "done") \in Answers(rs)
      BY <1>1, <3>2 DEF Reply, Answers
    <3>4. wire' \in Seq(Answers(rs))
      BY <3>1, <3>3, Appending DEF Speak
    <3> QED BY <2>1, <3>1, <3>2, <3>4 DEF HandleTypes, EndTypes, Speak
  <2>3. CASE e \notin inst
    <3>1. wire' = Append(wire, Reply("open", Head(opening), 0, "notfound")) /\ UNCHANGED ends
      BY <1>5, <2>3 DEF ServeDataOpen
    <3>2. Reply("open", Head(opening), 0, "notfound") \in Answers(rs)
      BY <1>1, <2>1, ConnsNat DEF Reply, Answers
    <3>3. wire' \in Seq(Answers(rs))
      BY <3>1, <3>2, Appending DEF Speak
    <3> QED BY <2>1, <3>1, <3>3 DEF HandleTypes, EndTypes, Speak
  <2> QED BY <2>2, <2>3
<1> QED BY <1>2, <1>4, <1>5 DEF SmbServer

\* A handler that says something of what may be said, after it read a line or not.
LEMMA SaysTalks ==
    ASSUME NEW rs, NEW ls, Enough(rs, ls), Talk(rs, ls), NEW k \in Conns,
           NEW message \in rs \cap Messages, NEW next, Says(k, message, next),
           inst' \subseteq Ends,
           inbox' = inbox \/ (inbox[k] # <<>> /\ inbox' = [inbox EXCEPT ![k] = Tail(@)])
    PROVE  Talk(rs, ls)'
<1> USE DEF Talk
<1>1. Hprintf(k, message) /\ UNCHANGED <<fd, ioRead, ioWrite, ends, opening>>
  BY DEF Says, client, io
<1>2. /\ wire' \in Seq(Answers(rs))
      /\ reply' \in [Conns -> (rs \cap Messages) \cup {"none"}]
      /\ pending' \subseteq Ends
  BY <1>1, Words, HprintfSpeaks DEF Speak
<1>3. inbox' \in [Conns -> Seq(ls)]
  <2>1. inbox \in [Conns -> Seq(ls)] /\ inbox[k] \in Seq(ls)
    BY DEF Speak
  <2>2. CASE inbox[k] # <<>> /\ inbox' = [inbox EXCEPT ![k] = Tail(@)]
    <3>1. Tail(inbox[k]) \in Seq(ls)
      BY <2>1, <2>2, Dropping
    <3> QED BY <2>1, <2>2, <3>1
  <2> QED BY <2>1, <2>2
<1> QED BY <1>1, <1>2, <1>3 DEF HandleTypes, EndTypes, Speak

LEMMA DisconnectTalks ==
    ASSUME NEW rs, NEW ls, Enough(rs, ls), Talk(rs, ls), NEW k, NEW ps \in SUBSET Pipes,
           Disconnect(k, ps), UNCHANGED <<fd, ioRead, ioWrite, ends, opening, inbox, reply>>
    PROVE  Talk(rs, ls)'
<1> USE DEF Talk
<1>1. FailedReads(k, ps) \in Seq(Answers(rs))
  BY Words, FailedReadsSpeak
<1>2. wire' \in Seq(Answers(rs))
  BY <1>1, Joining DEF Disconnect, Speak
<1> QED BY <1>2 DEF Disconnect, HandleTypes, EndTypes, Speak

LEMMA HandlerTalks ==
    ASSUME NEW rs, NEW ls, Enough(rs, ls), Talk(rs, ls), CodeKnown,
           exe \in {"none", "good", "bad"}, NEW k \in Conns, HandleConnection(k)
    PROVE  Talk(rs, ls)'
<1>1. /\ {"bad", "error", "error:", "std_io_err"} \subseteq rs \cap Messages
      /\ Codes \subseteq rs \cap Messages
  BY Words
<1>2. inst \subseteq Ends /\ \A p \in Pipes : <<p, k>> \in Ends
  BY DEF Talk, EndTypes, Ends
<1>3. ASSUME NEW next, Moves(k, next) PROVE Talk(rs, ls)'
  BY <1>3 DEF Moves, client, io, smb, Talk, HandleTypes, EndTypes, Speak
<1>4. CASE \/ GetsEof(k) \/ CreateProcess(k) \/ Terminate(k) \/ ProcessDone(k)
  BY <1>3, <1>4 DEF GetsEof, CreateProcess, Terminate, ProcessDone
<1>5. ASSUME NEW at, NEW next, NEW p,
             \/ Flush(k, at, next) \/ Connect(k, p, at, next) \/ FlushStream(k, p, at, next)
      PROVE  Talk(rs, ls)'
  BY <1>3, <1>5 DEF Flush, Connect, FlushStream
<1>6. CASE NoMemory(k)
  BY <1>1, <1>2, <1>6, SaysTalks DEF NoMemory
<1>7. CASE GetVersion(k)
  <2>1. PICK message \in IF exe = "good" THEN {"good"} ELSE {"bad", "error"} :
          Says(k, message, "flushAnswer")
    BY <1>7 DEF GetVersion
  <2>2. message \in rs \cap Messages
    BY <1>1, <2>1 DEF Enough, Messages
  <2> QED BY <1>2, <1>7, <2>1, <2>2, SaysTalks DEF GetVersion, Gets
<1>8. CASE SetSystem(k)
  <2>1. inbox' \in [Conns -> Seq(ls)]
    BY <1>8, Dropping DEF SetSystem, Gets, Talk, Speak
  <2> QED BY <1>8, <2>1 DEF SetSystem, client, io, smb, Talk, HandleTypes, EndTypes, Speak
<1>9. CASE UnknownCommand(k)
  BY <1>1, <1>2, <1>9, SaysTalks DEF UnknownCommand, Gets
<1>10. CASE Run(k)
  <2>1. inst' \subseteq Ends
    BY <1>2, <1>10 DEF Run, Pipes
  <2> QED BY <1>1, <1>10, <2>1, SaysTalks DEF Run, Gets
<1>11. CASE RunFails(k)
  BY <1>1, <1>2, <1>11, SaysTalks DEF RunFails, Gets
<1>12. ASSUME NEW p, NEW at, ConnectFails(k, p, at) PROVE Talk(rs, ls)'
  BY <1>1, <1>2, <1>12, SaysTalks DEF ConnectFails
<1>13. CASE CreateProcessFails(k)
  BY <1>1, <1>2, <1>13, SaysTalks DEF CreateProcessFails
<1>14. CASE ReturnCode(k)
  <2>1. ec \in rs \cap Messages
    BY <1>1, <1>14 DEF ReturnCode, CodeKnown
  <2> QED BY <1>2, <1>14, <2>1, SaysTalks DEF ReturnCode
<1>15. CASE DisconnectData(k)
  <2>1. DataPipes \in SUBSET Pipes
    BY DEF Pipes
  <2>2. /\ Disconnect(k, DataPipes)
        /\ UNCHANGED <<fd, ioRead, ioWrite, ends, opening, inbox, reply>>
    BY <1>15 DEF DisconnectData, client, io
  <2> QED BY <2>1, <2>2, DisconnectTalks
<1>16. CASE Finish(k)
  <2>1. {"ctrl"} \in SUBSET Pipes
    BY DEF Pipes
  <2>2. /\ Disconnect(k, {"ctrl"})
        /\ UNCHANGED <<fd, ioRead, ioWrite, ends, opening, inbox, reply>>
    BY <1>16 DEF Finish, client, io
  <2> QED BY <2>1, <2>2, DisconnectTalks
<1> QED
  BY <1>4, <1>5, <1>6, <1>7, <1>8, <1>9, <1>10, <1>11, <1>12, <1>13, <1>14, <1>15, <1>16
  DEF HandleConnection

LEMMA CommandTalks ==
    ASSUME NEW rs, NEW ls, Enough(rs, ls), Talk(rs, ls), Command
    PROVE  Talk(rs, ls)'
<1>1. ASSUME NEW s \in Streams, Produce(s) PROVE Talk(rs, ls)'
  <2>1. UNCHANGED <<fd, ioRead, ioWrite, ends, opening, inst, inbox, reply>>
    BY <1>1 DEF Produce, client, io, service
  <2>2. CASE <<s, owner>> \in pending
    <3>1. /\ wire' = Append(wire, Reply("read", s, owner, "chunk"))
          /\ pending' = pending \ {<<s, owner>>}
      BY <1>1, <2>2 DEF Produce
    <3>2. Reply("read", s, owner, "chunk") \in Answers(rs)
      BY <2>2, Words, ConnsNat DEF Talk, EndTypes, Ends, Reply, Answers
    <3>3. wire' \in Seq(Answers(rs))
      BY <3>1, <3>2, Appending DEF Talk, Speak
    <3> QED BY <2>1, <3>1, <3>3 DEF Talk, HandleTypes, EndTypes, Speak
  <2>3. CASE <<s, owner>> \notin pending
    BY <1>1, <2>1, <2>3 DEF Produce, Talk, HandleTypes, EndTypes, Speak
  <2> QED BY <2>2, <2>3
<1>2. CASE Exit
  <2>1. UNCHANGED <<fd, ioRead, ioWrite, ends, opening, inbox, reply>>
    BY <1>2 DEF Exit, client, io
  <2>2. CASE hpc[owner] = "gone"
    <3>1. DataPipes \in SUBSET Pipes /\ Disconnect(owner, DataPipes)
      BY <1>2, <2>2 DEF Exit, Pipes
    <3> QED BY <2>1, <3>1, DisconnectTalks
  <2>3. CASE hpc[owner] # "gone"
    BY <1>2, <2>1, <2>3 DEF Exit, Talk, HandleTypes, EndTypes, Speak
  <2> QED BY <2>2, <2>3
<1> QED BY <1>1, <1>2 DEF Command

LEMMA StepTalks ==
    ASSUME NEW rs, NEW ls, Enough(rs, ls), Talk(rs, ls), CodeKnown,
           exe \in {"none", "good", "bad"}, [Next]_vars
    PROVE  Talk(rs, ls)'
<1>1. CASE UNCHANGED vars
  BY <1>1 DEF vars, client, io, smb, service, Talk, HandleTypes, EndTypes, Speak
<1> QED
  BY <1>1, CallbackTalks, BlockedTalks, TimerTalks, EnvironmentTalks, ServerTalks,
     HandlerTalks, CommandTalks
  DEF Next, Client

-----------------------------------------------------------------------------
(* The service's side: its file, its loop and its handlers.                *)

\* What a step does to them: nothing, or the service ends, is installed, goes
\* round its loop, or has a handler go on.
Ended ==
    /\ exe' \in {"none", exe}
    /\ loop' = "off"
    /\ hpc' = [k \in Conns |-> IF hpc[k] = "none" THEN "none" ELSE "gone"]
    /\ ec' = ec
Installed ==
    /\ exe' \in {exe, "good"}
    /\ loop' = loop \/ (loop' = "create" /\ exe' # "none")
    /\ UNCHANGED <<hpc, ec>>
Loops ==
    /\ Running
    /\ loop' \in {"create", "listen", "ended"}
    /\ \/ hpc' = hpc
       \/ \E k \in Conns, at \in {"gets", "nomem", "gone"} : hpc' = [hpc EXCEPT ![k] = at]
    /\ UNCHANGED <<exe, ec>>
GoesOn(k) ==
    \E next \in Handlers :
        /\ hpc[k] \notin {"none", "gone"}
        /\ hpc' = [hpc EXCEPT ![k] = next]
        /\ ec' \in {ec} \cup Codes
        /\ next \in {"flushOut", "flushErr", "code"} =>
               hpc[k] \in {"flushOut", "flushErr", "code"} \/ ec' \in Codes
        /\ next \in Path => hpc[k] \in Path \/ Gets(k, "run")
        /\ UNCHANGED <<exe, loop>>
ServiceStep ==
    \/ UNCHANGED <<exe, loop, hpc, ec>>
    \/ Ended \/ Installed \/ Loops
    \/ \E k \in Conns : GoesOn(k)

LEMMA HandlerGoesOn ==
    ASSUME NEW k \in Conns, HandleConnection(k)
    PROVE  ServiceStep
<1>1. ASSUME NEW at, NEW next \in Handlers, at \notin {"none", "gone"}, hpc[k] = at,
             hpc' = [hpc EXCEPT ![k] = next], UNCHANGED <<exe, loop, ec>>,
             next \in {"flushOut", "flushErr", "code"} => at \in {"flushOut", "flushErr", "code"},
             next \in Path => at \in Path \/ Gets(k, "run")
      PROVE  ServiceStep
  BY <1>1 DEF ServiceStep, GoesOn
<1>2. ASSUME NEW at, NEW next, Flush(k, at, next)
      PROVE  hpc[k] = at /\ hpc' = [hpc EXCEPT ![k] = next] /\ UNCHANGED <<exe, loop, ec>>
  BY <1>2 DEF Flush, Moves, host, command
<1>3. ASSUME NEW p, NEW at, NEW next, Connect(k, p, at, next) \/ FlushStream(k, p, at, next)
      PROVE  hpc[k] = at /\ hpc' = [hpc EXCEPT ![k] = next] /\ UNCHANGED <<exe, loop, ec>>
  BY <1>3 DEF Connect, FlushStream, Moves, host, command
<1>4. ASSUME NEW p, NEW at, ConnectFails(k, p, at)
      PROVE  hpc[k] = at /\ hpc' = [hpc EXCEPT ![k] = "flushCode"] /\ UNCHANGED <<exe, loop, ec>>
  BY <1>4 DEF ConnectFails, Says, host, command
<1> DEFINE Here(at, next) ==
      hpc[k] = at /\ hpc' = [hpc EXCEPT ![k] = next] /\ UNCHANGED <<exe, loop, ec>>
<1>5. CASE \/ Here("flushLost", "lost") \/ Here("flushAnswer", "gets")
           \/ Here("flushFailure", "finish")
  BY <1>1, <1>5 DEF Handlers, Path
<1>6. CASE \/ Here("flushPipes", "connectIn") \/ Here("connectIn", "connectOut")
           \/ Here("connectOut", "connectErr") \/ Here("connectErr", "create")
  BY <1>1, <1>6 DEF Handlers, Path
<1>7. CASE \/ Here("connectIn", "flushCode") \/ Here("connectOut", "flushCode")
           \/ Here("connectErr", "flushCode") \/ Here("create", "flushCode")
  BY <1>1, <1>7 DEF Handlers, Path
<1>8. CASE \/ Here("flushOut", "flushErr") \/ Here("flushErr", "code") \/ Here("code", "flushCode")
           \/ Here("flushCode", "disconnect") \/ Here("disconnect", "finish")
           \/ Here("finish", "gone")
  BY <1>1, <1>8 DEF Handlers, Path
<1>9. CASE \/ Here("nomem", "flushLost") \/ Here("gets", "finish") \/ Here("gets", "flushAnswer")
           \/ Here("gets", "flushFailure")
  BY <1>1, <1>9 DEF Handlers, Path
<1>10. CASE Here("gets", "flushPipes") /\ Gets(k, "run")
  BY <1>1, <1>10 DEF Handlers, Path
<1>11. CASE Here("create", "wait")
  BY <1>1, <1>11 DEF Handlers, Path
<1>12. CASE SetSystem(k)
  BY <1>12 DEF SetSystem, host, command, ServiceStep
<1>13. CASE Terminate(k) \/ ProcessDone(k)
  <2>1. /\ hpc[k] = "wait" /\ hpc' = [hpc EXCEPT ![k] = "flushOut"]
        /\ ec' \in Codes /\ UNCHANGED <<exe, loop>>
    BY <1>13 DEF Terminate, ProcessDone, Moves, host, Codes
  <2> QED BY <2>1 DEF ServiceStep, GoesOn, Handlers, Path
<1>14. CASE \/ NoMemory(k) \/ GetsEof(k) \/ GetVersion(k)
            \/ UnknownCommand(k) \/ Run(k) \/ RunFails(k)
  BY <1>9, <1>10, <1>14
  DEF NoMemory, GetsEof, GetVersion, UnknownCommand, Run, RunFails, Says, Moves, Gets, host,
      command
<1>15. CASE \/ CreateProcess(k) \/ CreateProcessFails(k) \/ ReturnCode(k)
            \/ DisconnectData(k) \/ Finish(k)
  BY <1>7, <1>8, <1>11, <1>15
  DEF CreateProcess, CreateProcessFails, ReturnCode, DisconnectData, Finish, Says, Moves, host,
      command
<1> HIDE DEF Here
<1>16. CASE \/ Flush(k, "flushLost", "lost") \/ Flush(k, "flushAnswer", "gets")
            \/ Flush(k, "flushFailure", "finish") \/ Flush(k, "flushPipes", "connectIn")
            \/ Flush(k, "flushCode", "disconnect")
  BY <1>2, <1>5, <1>6, <1>8, <1>16 DEF Here
<1>17. CASE \/ Connect(k, "in", "connectIn", "connectOut") \/ ConnectFails(k, "in", "connectIn")
            \/ Connect(k, "out", "connectOut", "connectErr") \/ ConnectFails(k, "out", "connectOut")
            \/ Connect(k, "err", "connectErr", "create") \/ ConnectFails(k, "err", "connectErr")
            \/ FlushStream(k, "out", "flushOut", "flushErr")
            \/ FlushStream(k, "err", "flushErr", "code")
  BY <1>3, <1>4, <1>6, <1>7, <1>8, <1>17 DEF Here
<1> QED BY <1>12, <1>13, <1>14, <1>15, <1>16, <1>17 DEF HandleConnection

LEMMA StepServes ==
    ASSUME [Next]_vars
    PROVE  ServiceStep
<1>1. CASE UNCHANGED vars
  BY <1>1 DEF vars, host, service, command, ServiceStep
<1>2. CASE Callback
  <2>1. UNCHANGED <<exe, loop, hpc, ec>>
    BY <1>2
    DEF Callback, CtrlOpened, DataOpened, CtrlOpenFailed, DataFailed, DataRead, ReadStdIoErr,
        ReadReturnCode, ReadGoodVersion, ReadBadVersion, ReadOtherError, CtrlFailed, CloseDone,
        host, service, command
  <2> QED BY <2>1 DEF ServiceStep
<1>3. CASE SvcUninstall
  BY <1>3 DEF SvcUninstall, ServiceGone, Unlinked, host, service, command, ServiceStep, Ended
<1>4. CASE ServiceDies
  BY <1>4 DEF ServiceDies, ServiceGone, Unlinked, ServiceStep, Ended
<1>5. ASSUME NEW done, NEW failed, SvcInstall(done, failed) PROVE ServiceStep
  BY <1>5 DEF SvcInstall, Running, service, command, ServiceStep, Installed
<1>6. CASE Blocked
  BY <1>3, <1>5, <1>6
  DEF Blocked, MainUninstall, MainInstall, ErrorInstall, ReUninstall, ReInstall, ExitUninstall
<1>7. CASE Timer \/ Signal \/ RequestTimesOut \/ ServeDataOpen \/ Command
  <2>1. UNCHANGED <<exe, loop, hpc, ec>>
    BY <1>7 DEF Timer, Signal, RequestTimesOut, ServeDataOpen, Command, Produce, Exit,
                host, service, command
  <2> QED BY <2>1 DEF ServiceStep
<1>8. CASE ServerLoop \/ OtherClient \/ ServeCtrlOpen
  <2>1. CASE ServerLoop \/ OtherClient
    BY <2>1 DEF ServerLoop, CreateInstance, LoopEnds, OtherClient, service, command,
                ServiceStep, Loops, Running
  <2>2. CASE ServeCtrlOpen
    BY <2>2 DEF ServeCtrlOpen, command, ServiceStep, Loops, Running
  <2> QED BY <1>8, <2>1, <2>2
<1> QED
  BY <1>1, <1>2, <1>4, <1>6, <1>7, <1>8, HandlerGoesOn DEF Next, Client, SmbServer, Environment

LEMMA ServiceKept ==
    ASSUME ServiceTypes, CodeKnown, HasFile, HasService, ServiceStep
    PROVE  ServiceTypes' /\ CodeKnown' /\ HasFile' /\ HasService'
<1>1. CASE UNCHANGED <<exe, loop, hpc, ec>>
  BY <1>1 DEF ServiceTypes, CodeKnown, HasFile, HasService, Running
<1>2. CASE Ended
  BY <1>2 DEF Ended, ServiceTypes, CodeKnown, HasFile, HasService, Running, Handlers
<1>3. CASE Installed
  BY <1>3 DEF Installed, ServiceTypes, CodeKnown, HasFile, HasService, Running
<1>4. CASE Loops
  BY <1>4 DEF Loops, ServiceTypes, CodeKnown, HasFile, HasService, Running, Handlers
<1>5. ASSUME NEW k \in Conns, GoesOn(k)
      PROVE  ServiceTypes' /\ CodeKnown' /\ HasFile' /\ HasService'
  BY <1>5 DEF GoesOn, ServiceTypes, CodeKnown, HasFile, HasService, Running
<1> QED BY <1>1, <1>2, <1>3, <1>4, <1>5 DEF ServiceStep

-----------------------------------------------------------------------------
LEMMA NextInv == IInv /\ [Next]_vars => IInv'
<1> SUFFICES ASSUME IInv, [Next]_vars PROVE IInv'
  OBVIOUS
<1> USE DEF IInv, Types
<1>1. ServiceStep
  BY StepServes
<1>2. ServiceTypes' /\ CodeKnown' /\ HasFile' /\ HasService'
  BY <1>1, ServiceKept
<1>3. Talk(Results, Lines)'
  <2>1. Enough(Results, Lines)
    BY DEF Enough, Results, Messages, Lines
  <2>2. exe \in {"none", "good", "bad"} /\ Talk(Results, Lines)
    BY DEF ServiceTypes, Talk
  <2> QED BY <2>1, <2>2, StepTalks
<1>4. OldIsSilent'
  <2> SUFFICES ASSUME exe' = "bad"
               PROVE  /\ Speak(Results \ {"good"}, Lines \ {"run"})'
                      /\ \A k \in Conns : hpc'[k] \notin Path
    BY DEF OldIsSilent
  <2>1. exe = "bad"
    BY <1>1 DEF ServiceStep, Ended, Installed, Loops, GoesOn
  <2>2. /\ Speak(Results \ {"good"}, Lines \ {"run"})
        /\ \A k \in Conns : hpc[k] \notin Path
    BY <2>1 DEF OldIsSilent
  <2>3. Enough(Results \ {"good"}, Lines \ {"run"})
    BY <2>1 DEF Enough
  <2>4. Speak(Results \ {"good"}, Lines \ {"run"})'
    <3>1. Talk(Results \ {"good"}, Lines \ {"run"}) /\ exe \in {"none", "good", "bad"}
      BY <2>2 DEF Talk, ServiceTypes
    <3>2. Talk(Results \ {"good"}, Lines \ {"run"})'
      BY <2>3, <3>1, StepTalks
    <3> QED BY <3>2 DEF Talk
  <2>5. \A k \in Conns : ~Gets(k, "run")
    <3> SUFFICES ASSUME NEW k \in Conns, Gets(k, "run") PROVE FALSE
      OBVIOUS
    <3>1. inbox[k] \in Seq(Lines \ {"run"})
      BY <2>2 DEF Speak
    <3>2. Head(inbox[k]) \in Lines \ {"run"}
      BY <3>1, Dropping DEF Gets
    <3> QED BY <3>2 DEF Gets
  <2>6. hpc \in [Conns -> Handlers]
    BY DEF ServiceTypes
  <2>7. ASSUME NEW k \in Conns PROVE hpc'[k] \notin Path
    BY <1>1, <2>2, <2>5, <2>6 DEF ServiceStep, Ended, Installed, Loops, GoesOn, Path
  <2> QED BY <2>4, <2>7
<1> QED BY <1>2, <1>3, <1>4 DEF Talk

\* What is said and kept in every state: the types of the conversation, and that
\* nobody calls an old service by the right version or gives it the command.
THEOREM Invariant == Spec => []IInv
<1> QED BY InitInv, NextInv, PTL DEF Spec

\* winexe.c asks for the version before it sends the command: the command is
\* started by a service of the client's own version only, however the service
\* is stopped, removed, reinstalled and reopened in between, for any number of
\* connections.
THEOREM RightVersion == Spec => OnlyByItsVersion
<1>1. ASSUME IInv, [Next]_vars, starts' # starts PROVE exe = "good"
  <2>1. PICK k \in Conns : CreateProcess(k)
    <3>1. UNCHANGED vars => starts' = starts
      BY DEF vars, command
    <3>2. Callback => starts' = starts
      BY DEF Callback, CtrlOpened, DataOpened, CtrlOpenFailed, DataFailed, DataRead, ReadStdIoErr,
          ReadReturnCode, ReadGoodVersion, ReadBadVersion, ReadOtherError, CtrlFailed, CloseDone,
          command
    <3>3. SvcUninstall \/ ServiceDies => starts' = starts
      BY DEF SvcUninstall, ServiceDies, ServiceGone, command
    <3>4. Blocked => starts' = starts
      BY <3>3
      DEF Blocked, MainUninstall, MainInstall, ErrorInstall, ReUninstall, ReInstall,
          ExitUninstall, SvcInstall, command
    <3>5. Timer \/ Signal \/ RequestTimesOut \/ SmbServer \/ Command \/ ServerLoop \/ OtherClient
          => starts' = starts
      BY DEF Timer, Signal, RequestTimesOut, SmbServer, ServeDataOpen, ServeCtrlOpen, Command,
             Produce, Exit, ServerLoop, CreateInstance, LoopEnds, OtherClient, command
    <3>6. ASSUME NEW k \in Conns, HandleConnection(k), ~CreateProcess(k) PROVE starts' = starts
      BY <3>6
      DEF HandleConnection, NoMemory, Flush, GetsEof, GetVersion, SetSystem, UnknownCommand, Run,
          RunFails, Connect, ConnectFails, CreateProcessFails, Terminate, ProcessDone,
          FlushStream, ReturnCode, DisconnectData, Finish, command
    <3> QED
      BY <1>1, <3>1, <3>2, <3>3, <3>4, <3>5, <3>6 DEF Next, Client, Environment
  <2>2. hpc[k] = "create"
    BY <2>1 DEF CreateProcess
  <2>3. exe # "none"
    BY <1>1, <2>2 DEF IInv, HasService, HasFile
  <2>4. exe # "bad"
    BY <1>1, <2>2 DEF IInv, OldIsSilent, Path
  <2> QED BY <1>1, <2>3, <2>4 DEF IInv, Types, ServiceTypes
<1>2. IInv /\ [Next]_vars => [starts' # starts => exe = "good"]_vars
  BY <1>1
<1> QED BY <1>2, Invariant, PTL DEF Spec, OnlyByItsVersion

=============================================================================
